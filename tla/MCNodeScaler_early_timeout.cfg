SPECIFICATION Spec
CONSTANTS
  InitialNodes = {}
  JobIds = {j1, j2, j3, j4}
  MaxConcurrentCreateOps = 2
  MaxConcurrentDeleteOps = 1
  MaxBatchSize = 0
  EnabledOps = {"create"}
  Targets = {2, 3}
  UnschedulableCounts = {0}
  MaxRetargets = 1
  Faults = {"timeout"}
  NoOp = NoOp
SYMMETRY Symmetry
INVARIANTS
  NoOvershoot
