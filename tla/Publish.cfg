SPECIFICATION FairSpec
CONSTANTS
  Job = {j1, j2}
  Node = {1, 2}
  ReplicationFactor = 2
  IndividualThreshold = 2
  SetThreshold = 2
  NodeSets = {{}, {1}, {1, 2}}
  MaxRequests = 1
CONSTRAINT SomeOwn
INVARIANTS
  StoresAccounted
  WalkHasQuery
  RestsOnStores
  AskedOnce
  ResultSound
PROPERTIES
  EveryPublishEnds
CHECK_DEADLOCK FALSE
