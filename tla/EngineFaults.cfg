SPECIFICATION Spec
CONSTANTS
  None = None
  Subs = {s1}
  Workers = {w1, w2}
  Requests = {}
  Versions = {"v1"}
  MaxRetries = 3
  MaxRecords = 3
  TaskRetries <- OneRetry
  Budget <- FaultBudget
SYMMETRY WorkerSymmetry
INVARIANTS
  TypeOK
  NeverStuckHalfway
  DecommissionedIsStopped
  RetryNeverLost
  QueuedIsPristine
CHECK_DEADLOCK FALSE
