SPECIFICATION FairSpec
CONSTANTS
  Node = {0, 1, 2}
  Self = 0
  Concurrency = 2
  NumResults = 1
  RequestTimeout = 1
  Timeout = 2
  Region = {}
  Activity = {1, 2, 3}
  PoolConcurrency = 2
INVARIANTS
  EndsOnce
  PoolConcurrencyRespected
  WakesInTime
PROPERTIES
  EveryQueryEnds
CHECK_DEADLOCK FALSE
