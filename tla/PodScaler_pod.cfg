SPECIFICATION FairSpec
CONSTANTS
  MinReplicas = 1
  MaxReplicas = 3
  SparePod = 1
  RequiredPoints = 2
  IncreaseStep = 1
  DecreaseStep = 2
  MaxBump = 1
  ReplicaStep = 1
  SafetyPods = 1
  PodsPerWorker = 2
  MinWorkers = 0
  MaxWorkers = 0
  FreeSlots = 1
  Points = 4
  MaxDemand = 2
  HandCounts = {4}
  MaxDisturbances = 2
  MaxFaults = 1
PROPERTIES ScaleDownGuarded ReplicasSettle WorkersSettle
CHECK_DEADLOCK FALSE
