SPECIFICATION FairSpec
CONSTANTS
  InitialNodes = {n1, n2}
  JobIds = {j1, j2, j3}
  MaxConcurrentCreateOps = 1
  MaxConcurrentDeleteOps = 1
  MaxBatchSize = 0
  EnabledOps = {"create", "delete"}
  Targets = {1, 2, 3}
  UnschedulableCounts = {0}
  MaxRetargets = 1
  Faults = {"timeout"}
  NoOp = NoOp
PROPERTIES
  Converges
  OperationsEnd
