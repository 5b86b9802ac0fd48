SPECIFICATION Spec
CONSTANTS
  Request = {q1, q2}
  Concurrent = 1
  Limit <- MCLimit
  Length <- MCLength
  Ttl = 2
  Faulty = {"windows", "incr", "expire", "undo", "release", "client", "outlive", "crash"}
  MaxFaults = 2
INVARIANTS
  TypeOK
  CapHolds
  SlotsAccounted
  WindowHolds
PROPERTIES
  SlotsReturn
