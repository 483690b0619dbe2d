SPECIFICATION Spec
CONSTANTS
  None = None
  Subs = {s1}
  Workers = {w1}
  Requests = {}
  Versions = {"v1"}
  MaxRetries = 3
  MaxRecords = 4
  TaskRetries <- OneRetry
  Budget <- SerialBudget
PROPERTY
  DocumentedLifecycle
CHECK_DEADLOCK FALSE
