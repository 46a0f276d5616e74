SPECIFICATION Spec
CONSTANTS
  InitialNodes = {n1, n2}
  JobIds = {j1, j2, j3}
  MaxConcurrentCreateOps = 1
  MaxConcurrentDeleteOps = 1
  MaxBatchSize = 0
  EnabledOps = {"create", "delete"}
  Targets = {1, 3}
  UnschedulableCounts = {0}
  MaxRetargets = 1
  Faults = {}
  NoOp = NoOp
SYMMETRY Symmetry
PROPERTIES
  PendingCreatesUnobserved
