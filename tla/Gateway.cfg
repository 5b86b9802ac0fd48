SPECIFICATION Spec
CONSTANTS
  r1 = r1
  r2 = r2
  Request = {r1, r2}
  Node = {n1}
  NoQuote = NoQuote
  NoEntry = NoEntry
  Runner = {"gateway", "script"}
  Files <- MCFiles
  MaxDeaths = 1
  HealthFailureThreshold = 2
  MaxQuotes = 2
  MaxBlock = 1
  MaxEvents = 4
INVARIANTS
  HealthyIsEarned
  LoopsLive
  CacheIsOpen
  PaidToItsNode
  ReadyMeansMigrated
  PayerOutlivesRequests
CHECK_DEADLOCK FALSE

PROPERTIES
  ShutdownEnds
  PayerRecovers
