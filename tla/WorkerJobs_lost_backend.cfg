SPECIFICATION Spec
CONSTANTS
  Workers = {w1, w2}
  Existing = {w1}
  VpcConfigured = TRUE
  MaxCreates = 1
  MaxDeletes = 1
  MaxFaults = 1
PROPERTIES OthersStayListed
CHECK_DEADLOCK FALSE
