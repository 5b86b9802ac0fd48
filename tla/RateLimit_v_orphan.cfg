SPECIFICATION Spec
CONSTANTS
  Request = {q1, q2}
  Concurrent = 1
  Limit <- MCLimit
  Length <- MCLength
  Ttl = 2
  Faulty = {"client"}
  MaxFaults = 1
PROPERTIES
  OrphansExpire
