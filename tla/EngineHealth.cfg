SPECIFICATION Spec
CONSTANTS
  None = None
  Subs = {s1, s2}
  Workers = {w1, w2}
  Requests = {}
  Versions = {"v1"}
  MaxRetries = 3
  MaxRecords = 3
  TaskRetries <- OneRetry
  Budget <- HealthBudget
SYMMETRY WorkerSymmetry
INVARIANTS
  DecommissionedIsStopped
  ActiveWasDeployed
CHECK_DEADLOCK FALSE
