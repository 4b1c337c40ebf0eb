SPECIFICATION Spec
CONSTANTS
  BitLen = 1
  InitialPrefixLen = 0
  MinPopulation = 0
  MaxPopulation = 1
  Node <- MCAllKeys
  NoTarget <- MCNoTarget
  SurveyRequests = 1
  Provided <- MCAllProvided
  RegionReplication = 2
  RegionMaxInFlight = 1
  NetworkCapacity = 1
  MaxLost = 2
INVARIANTS
  SlotsAreFreed
  RegionsKeepGoing
  RunningSurveyWoken
