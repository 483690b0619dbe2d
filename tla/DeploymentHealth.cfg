SPECIFICATION Spec
CONSTANTS
  Deployments = {d1, d2}
  First = {d1}
  Workers = {w1, w2}
  Metrics <- Measured
  Budget = 2
INVARIANTS
  TypeOK
  RepairIsRecorded
PROPERTIES
  StatusSettles
  IllIsRepaired
