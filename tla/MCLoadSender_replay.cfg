SPECIFICATION FairSpec
CONSTANTS
  Script <- MCScript
  MaxInflight = 1
  BacklogCapacity = 2
  BacklogMaxAge = 1
  DispatchMode = "spread"
  WorkerIndex = 0
  WorkerCount = 1
  ProgressInterval = 2
  Outcomes = {"completed", "timed_out"}
  FlushInterval = 4
  TicksPerSecond = 2
  MaxTime = 6
INVARIANTS RequestsAccounted ReportsComplete
PROPERTIES StartsAreFresh ServiceSpec Terminates
CHECK_DEADLOCK FALSE
