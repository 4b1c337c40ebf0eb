SPECIFICATION Spec
CONSTANTS
  Node = {n1, n2}
  CheckTimeout = 1
  CheckInterval = 1
  CandidateCapacity = 1
  IncludeConcurrency = 1
  ProbeConcurrency = 1
  QueueCapacity = 2
  NetworkCapacity = 1
  News = {"Connected", "NotConnected"}
SYMMETRY Symmetry
INVARIANTS
  OnePlace
  MonitoredInTable
  MembersMonitored
  ClientsAgree
  SleepsSoundly
