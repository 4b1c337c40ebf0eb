CONSTANTS
  QueryTimeout = 2
  BootstrapRequests = 0
  ExploreRequests = 0
  RetryInterval = 2
  MaxCpl = 2
  ExploreInterval = 3
  Multiplier = 1
  MaxJitter = 0
  QueueCapacity = 2
  NetworkCapacity = 1
  News = {}
SPECIFICATION FairSpec
INVARIANTS
  FirstRoundFirst
PROPERTIES
  DeadlinesKept
  LowTableBootstraps
  DueCplExplored
