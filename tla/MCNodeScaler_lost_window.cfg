SPECIFICATION Spec
CONSTANTS
  InitialNodes = {n1, n2}
  JobIds = {j1, j2, j3}
  MaxConcurrentCreateOps = 2
  MaxConcurrentDeleteOps = 2
  MaxBatchSize = 0
  EnabledOps = {"create", "delete"}
  Targets = {1, 4}
  UnschedulableCounts = {0}
  MaxRetargets = 1
  Faults = {"jobfail"}
  NoOp = NoOp
SYMMETRY Symmetry
INVARIANTS
  NoOvershoot
