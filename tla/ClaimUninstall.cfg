SPECIFICATION Spec
CONSTANTS
  None = None
  Subs = {s1}
  Workers = {w1}
  Requests = {}
  Versions = {"v1"}
  MaxRetries = 3
  MaxRecords = 3
  TaskRetries <- OneRetry
  Budget <- RepairThenUninstall
INVARIANT
  UninstallDecommissions
CHECK_DEADLOCK FALSE
