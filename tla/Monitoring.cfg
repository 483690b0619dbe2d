SPECIFICATION Spec
CONSTANTS
  Threads = {t1, t2}
  Views = {"health", "redis", "live"}
  ProbeTtl = 2
  Prod = TRUE
  MaxChanges = 2
INVARIANTS
  TypeOK
  HonestAnswers
  NoFalseAlarms
PROPERTIES
  Recovers
