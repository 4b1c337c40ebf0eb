SPECIFICATION FairSpec
CONSTANTS
  n1 = n1
  n2 = n2
  r1 = r1
  r2 = r2
  r3 = r3
  r4 = r4
  Peer = {n1, n2}
  Request = {r1, r2, r3, r4}
  Dest <- MCDest
  Capacity = 2
  NodeCapacity = 1
  QueueCapacity = 4
  Other = Other
INVARIANTS
  SlotsAccounted
  HandOverNeverBlocks
  EvictedIsEmpty
  LostOnlyToBursts
PROPERTIES
  ImplementsService
  EveryRequestCompletes
  CloseReleasesAll
CHECK_DEADLOCK FALSE
