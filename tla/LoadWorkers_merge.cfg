SPECIFICATION FairSpec
CONSTANTS
  WorkerCount = 2
  Requests = {0, 1, 2}
INVARIANTS SuccessIsComplete NothingCountedTwice
PROPERTIES ReportsGrow ParentEnds
CHECK_DEADLOCK FALSE
