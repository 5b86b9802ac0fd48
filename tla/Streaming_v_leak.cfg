SPECIFICATION Spec
CONSTANTS
  r1 = r1
  r2 = r2
  Request = {r1}
  Node = {m1}
  Postpaid = {}
  Seed = 2
  MaxUnits = 1
  MaxReport = 1
  FailureThreshold = 2
  CoolDown = 1
  Faults <- NoFaults
INVARIANTS
  SettledWhenAnswered
CHECK_DEADLOCK FALSE
