SPECIFICATION Spec
CONSTANTS
  Requests = {r1, r2}
  Spellings = {"al@x", "bo@x", "bo@X", "Bo@x"}
  Normal <- LowerDomain
  Lowered <- LowerCase
  Callers = {"view", "service"}
  AccessTtl = 2
  RefreshTtl = 2
  MaxTokens = 4
  MaxTime = 3
  Budget <- RequestBudget
PROPERTIES
  ReuseAlwaysRevokes
CHECK_DEADLOCK FALSE
