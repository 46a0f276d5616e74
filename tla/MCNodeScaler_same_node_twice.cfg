SPECIFICATION Spec
CONSTANTS
  InitialNodes = {n1, n2, n3}
  JobIds = {j1, j2, j3}
  MaxConcurrentCreateOps = 2
  MaxConcurrentDeleteOps = 2
  MaxBatchSize = 0
  EnabledOps = {"create", "delete"}
  Targets = {1, 3}
  UnschedulableCounts = {0}
  MaxRetargets = 1
  Faults = {}
  NoOp = NoOp
SYMMETRY Symmetry
INVARIANTS
  PendingDeletesDistinct
