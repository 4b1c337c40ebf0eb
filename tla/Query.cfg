SPECIFICATION QuerySpec
CONSTANTS
  Node = {0, 1, 2, 3, 4}
  Self = 0
  Concurrency = 2
  NumResults = 2
  RequestTimeout = 1
  Timeout = 1
  Region = {0, 1, 2}
INVARIANTS
  CountsExact
  NothingCloserLeftOpen
PROPERTIES
  MovesForward
CHECK_DEADLOCK FALSE
