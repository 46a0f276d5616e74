SPECIFICATION FairSpec
CONSTANTS
  Workers = {w1, w2}
  Existing = {w1}
  VpcConfigured = TRUE
  MaxCreates = 1
  MaxDeletes = 1
  MaxFaults = 1
INVARIANTS CompletedServes BackendsServe DestroyedIsDetached
PROPERTIES JobsEnd
CHECK_DEADLOCK FALSE
