CONSTANTS
  QueryTimeout = 1
  BootstrapRequests = 1
  ExploreRequests = 1
  RetryInterval = 1
  MaxCpl = 1
  ExploreInterval = 1
  Multiplier = 1
  MaxJitter = 0
  QueueCapacity = 2
  NetworkCapacity = 1
  News = {"Start"}
SPECIFICATION Spec
INVARIANTS
  UpkeepSleepsSoundly
