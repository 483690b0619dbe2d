SPECIFICATION Spec
CONSTANTS
  Threads = {t1, t2}
  Requests = {q1, q2}
  Tenants = {"acme", "bolt"}
  Hosts = {"acme", "bolt", "bolt.org", "default"}
  Code <- CodeOf
  Domain <- DomainOf
  Users = {"ann", "bob"}
  PlatformUsers = {"bob"}
  Granted <- Permissions
  Incoming <- Kinds
  CorrelationId = TRUE
  Switches <- Switched
  MaxChanges = 1
INVARIANTS
  TypeOK
  LocalsAreOwn
  BarredIsNotServed
  FailuresUndone
PROPERTIES
  AnsweredAndMarked
CHECK_DEADLOCK FALSE
