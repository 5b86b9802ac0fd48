SPECIFICATION Spec
CONSTANTS
  r1 = r1
  r2 = r2
  Request = {r1, r2}
  Node = {m1, m2}
  Postpaid = {}
  Seed = 1
  MaxUnits = 1
  MaxReport = 1
  FailureThreshold = 2
  CoolDown = 1
  Faults <- MixedFaults
INVARIANTS
  StartedStreamSettles
  BilledIffDelivered
  RecordedIsCharged
PROPERTIES
  ImplementsSettlement
  EveryRequestEnds
CHECK_DEADLOCK FALSE
