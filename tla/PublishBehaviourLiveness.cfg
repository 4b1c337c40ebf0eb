SPECIFICATION FairSpec
CONSTANTS
  BitLen = 2
  InitialPrefixLen = 1
  MinPopulation = 0
  MaxPopulation = 1
  Node <- MCAllKeys
  NoTarget <- MCNoTarget
  SurveyRequests = 1
  Provided <- MCNone
  RegionReplication = 1
  RegionMaxInFlight = 1
  NetworkCapacity = 1
  MaxLost = 1
PROPERTIES
  DueRegionsTakenUp
INVARIANTS
  RegionsTile
  PopulationsBounded
