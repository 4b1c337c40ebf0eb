SPECIFICATION Spec
CONSTANTS
  BitLen = 1
  InitialPrefixLen = 1
  MinPopulation = 0
  MaxPopulation = 1
  Node <- MCAllKeys
  NoTarget <- MCNoTarget
  SurveyRequests = 1
  Provided <- MCProvided
  RegionReplication = 1
  RegionMaxInFlight = 1
  NetworkCapacity = 1
  MaxLost = 1
INVARIANT
  SurveySleepsSoundly
