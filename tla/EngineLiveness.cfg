SPECIFICATION FairSpec
CONSTANTS
  None = None
  Subs = {s1}
  Workers = {w1, w2}
  Requests = {}
  Versions = {"v1"}
  MaxRetries = 3
  MaxRecords = 6
  TaskRetries <- CodeRetries
  Budget <- LivenessBudget
PROPERTIES
  AllWorkEnds
  ProvisioningSucceeds
CHECK_DEADLOCK FALSE
