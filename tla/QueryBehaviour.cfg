SPECIFICATION FairSpec
CONSTANTS
  Query = {1, 2}
  MaxRequests = 2
  ChannelCapacity = 1
  QueueCapacity = 1
INVARIANTS
  NotifiersOpen
  NobodyForgotten
  TimerCoversPool
PROPERTIES
  EveryCallReturns
CHECK_DEADLOCK FALSE
