--------------------------- MODULE DeploymentClaims ---------------------------
(***************************************************************************)
(* What the repository's docstrings and comments say of the deployment     *)
(* engine, as properties of DeploymentEngine.  The serial engine keeps the *)
(* documented lifecycle; the other claim is refuted by its run.            *)
(***************************************************************************)
EXTENDS DeploymentEngine

(* The engine implements DeploymentLifecycle: within a transaction the     *)
(* record's status is that of the instance its lock holder keeps.  Holds   *)
(* of one worker without rollback requests; with a second worker a save    *)
(* from a stale read makes transitions nobody documented.                  *)
Seen == [r \in Ids |-> IF rowLock[r] = None THEN records[r].status
                       ELSE proc[rowLock[r]].copy.status]
Kept == [r \in Ids |-> records[r].status]

Lifecycle == INSTANCE DeploymentLifecycle WITH status <- Seen, settled <- Kept
DocumentedLifecycle == Lifecycle!Spec

-----------------------------------------------------------------------------
(* uninstall_product: "The deployment is decommissioned by Layer 6": once  *)
(* all work is done, a cancelled subscription has nothing RUNNING.         *)
UninstallDecommissions ==
  Quiet => \A s \in Subs : subStatus[s] = "CANCELLED" => RunningRows(s) = {}
=============================================================================
