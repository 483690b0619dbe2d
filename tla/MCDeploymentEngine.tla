------------------------- MODULE MCDeploymentEngine -------------------------
(* Small instances of DeploymentEngine: one retry per task instead of two  *)
(* or three, and a budget for each kind of environment step.               *)
EXTENDS DeploymentClaims, TLC

OneRetry == [k \in TaskKinds |-> IF k = "repair" THEN 0 ELSE 1]

(* max_retries of the shared_task decorators (tasks.py).                   *)
CodeRetries == [provision |-> 3, upgrade |-> 2, decommission |-> 2, execute |-> 3,
                repair |-> 0]

Limits(some) == [k \in EnvKinds |-> IF k \in DOMAIN some THEN some[k] ELSE 0]

FaultBudget    == Limits([upgrade |-> 1, uninstall |-> 1, failure |-> 1, crash |-> 1])
RequestBudget  == Limits([upgrade |-> 1, uninstall |-> 1, rollback |-> 1, retry |-> 1,
                          failure |-> 1])
HealthBudget   == Limits([check |-> 1, uninstall |-> 1, kill |-> 1])
LivenessBudget == Limits([failure |-> 1, crash |-> 1])

SerialBudget   == Limits([upgrade |-> 1, uninstall |-> 1, retry |-> 1, failure |-> 1,
                          crash |-> 1, kill |-> 1])

(* The claim that is refuted needs no more than this.                      *)
RepairThenUninstall == Limits([check |-> 1, uninstall |-> 1])

WorkerSymmetry == Permutations(Workers)
=============================================================================
