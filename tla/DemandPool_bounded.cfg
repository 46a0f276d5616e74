SPECIFICATION FairSpec
CONSTANTS
  MaxRequests = 6
  PoolSize = 2
  QueueCapacity = 2
  MaxCrashes = 2
INVARIANTS QueueIsServed ThreadsServeTheirSlot
PROPERTIES OnlyTheDeadLose ServiceSpec EveryRequestSettled
CHECK_DEADLOCK FALSE
