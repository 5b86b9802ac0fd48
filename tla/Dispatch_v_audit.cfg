SPECIFICATION Spec
CONSTANTS
  r1 = r1
  r2 = r2
  Request = {r1}
  Postpaid = {}
  Seed = 3
  Endpoint = {"chat"}
  MaxUnits = 2
  MaxReport = 3
  Faults <- AuditFaults
INVARIANTS
  AuditOnlyObserves
CHECK_DEADLOCK FALSE
