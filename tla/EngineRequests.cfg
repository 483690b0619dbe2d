SPECIFICATION Spec
CONSTANTS
  None = None
  Subs = {s1}
  Workers = {w1, w2}
  Requests = {q1}
  Versions = {"v1"}
  MaxRetries = 3
  MaxRecords = 3
  TaskRetries <- OneRetry
  Budget <- RequestBudget
SYMMETRY WorkerSymmetry
INVARIANTS
  DriverExclusion
  ContainersNotShared
  RunningIsLive
  ActiveWasDeployed
CHECK_DEADLOCK FALSE
