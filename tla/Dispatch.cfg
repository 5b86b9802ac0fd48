SPECIFICATION Spec
CONSTANTS
  r1 = r1
  r2 = r2
  Request = {r1, r2}
  Postpaid = {}
  Seed = 3
  Endpoint = {"chat", "images", "speech"}
  MaxUnits = 2
  MaxReport = 3
  Faults <- MixedFaults
INVARIANTS
  ErrorIsRefunded
  ChargedIfAnswered
  ChargeWithinEstimate
  BalanceConserved
  RecordedIsCharged
PROPERTIES
  ImplementsSettlement
  EveryReservationSettles
CHECK_DEADLOCK FALSE
