--------------------------- MODULE DeploymentHealth ---------------------------
(***************************************************************************)
(* The periodic health checks of KAVAN's deployments (backend/apps/        *)
(* deployments: DeploymentHealthService and its tasks): beat publishes a   *)
(* fan-out, the fan-out one check per RUNNING deployment, a check records  *)
(* a snapshot and may publish a repair.                                    *)
(*                                                                         *)
(* These tasks are acknowledged on receipt and never retried: a crash loses*)
(* one for good.  A check is no transaction: it reads the row, then asks   *)
(* the driver, then inserts the snapshot, then publishes, and others act   *)
(* in between.  What a repair starts, and what ends a deployment, is the   *)
(* engine's (DeploymentEngine) and taken here as one step.                 *)
(***************************************************************************)
EXTENDS Naturals

CONSTANTS
  Deployments, First,  \* DeploymentRecords, and those there from the start
  Workers,             \* slots of the Celery worker pool
  Metrics,             \* what get_health_metrics may return
  Budget               \* bound: failures, crashes, changes, stops altogether

Metric   == [unreachable : BOOLEAN, response_time_ms : Nat, cpu_usage_percent : Nat]

ASSUME HealthAssumption ==
  /\ First \subseteq Deployments /\ Metrics \subseteq Metric /\ Metrics # {}
  /\ Budget \in Nat

HealthStatus == {"HEALTHY", "DEGRADED", "UNHEALTHY", "UNKNOWN"}
Snapshot     == HealthStatus \cup {"none"}   \* of the newest, if any, its status

(* _evaluate_health.  Mutant: a status HealthStatus does not have.         *)
EvaluateSilent(m) ==
  IF m.unreachable THEN "UNREACHABLE"
  ELSE IF m.response_time_ms > 5000 \/ m.cpu_usage_percent > 95 THEN "UNHEALTHY"
  ELSE IF m.response_time_ms > 2000 \/ m.cpu_usage_percent > 85 THEN "DEGRADED"
  ELSE "HEALTHY"
Evaluate(m) ==
  IF m.unreachable \/ m.response_time_ms > 5000 \/ m.cpu_usage_percent > 95
  THEN "UNHEALTHY"
  ELSE IF m.response_time_ms > 2000 \/ m.cpu_usage_percent > 85 THEN "DEGRADED"
  ELSE "HEALTHY"

(* Messages: the fan-out, the check and the repair of a deployment.        *)
FanOut    == [kind |-> "all"]
Check(d)  == [kind |-> "single", arg |-> d]
Repair(d) == [kind |-> "repair", arg |-> d]
Messages  == {FanOut} \cup {Check(d) : d \in Deployments} \cup {Repair(d) : d \in Deployments}

(* A worker: the deployments its fan-out has still to publish, or the      *)
(* deployment it checks and the verdict on it.                             *)
Worker == [pc : {"idle", "fan", "ask", "record", "trigger", "unknown"},
           todo : SUBSET Deployments, dep : SUBSET Deployments,
           verdict : Snapshot]
Idle   == [pc |-> "idle", todo |-> {}, dep |-> {}, verdict |-> "none"]

VARIABLES
  status,    \* of each deployment: not yet there, RUNNING, or any other
  level,     \* what each deployment's service is like
  latest,    \* the status of its newest snapshot
  condemned, \* history: deployments with an UNHEALTHY snapshot
  repairing, \* history: deployments a repair was published of
  queue,     \* messages published and not taken
  wk, used

vars == <<status, level, latest, condemned, repairing, queue, wk, used>>
rows == <<status, level, latest, condemned, repairing>>

Init ==
  /\ status = [d \in Deployments |-> IF d \in First THEN "RUNNING" ELSE "ABSENT"]
  /\ level \in [Deployments -> {m \in Metrics : Evaluate(m) = "HEALTHY"}]
  /\ latest = [d \in Deployments |-> "none"]
  /\ condemned = {} /\ repairing = {} /\ queue = {}
  /\ wk = [w \in Workers |-> Idle]
  /\ used = 0

-----------------------------------------------------------------------------
Running  == {d \in Deployments : status[d] = "RUNNING"}

(* What the views say: of a deployment, its newest snapshot; to the        *)
(* administrators, how many services have ever had an UNHEALTHY one.       *)
CurrentStatus(d)  == IF latest[d] = "none" THEN "UNKNOWN" ELSE latest[d]
UnhealthyServices == condemned

Spend    == used < Budget /\ used' = used + 1
Goto(w, pc) == wk' = [wk EXCEPT ![w].pc = pc]
Leave(w)    == wk' = [wk EXCEPT ![w] = Idle]

(* Beat, every five minutes; a fan-out nobody took in time has expired.    *)
(* (A check that is still in the queue is not put there a second time: it  *)
(* reads everything when it runs.)                                         *)
Beat   == queue' = queue \cup {FanOut} /\ UNCHANGED <<rows, wk, used>>
Expire == queue' = queue \ {FanOut}    /\ UNCHANGED <<rows, wk, used>>

(* health_check_all_deployments_task queries the RUNNING deployments once. *)
(* Mutant: only those there when the worker started.                       *)
TakeAllKnown(w) ==
  /\ wk[w].pc = "idle" /\ FanOut \in queue
  /\ queue' = queue \ {FanOut}
  /\ wk' = [wk EXCEPT ![w].pc = "fan", ![w].todo = Running \cap First]
  /\ UNCHANGED <<rows, used>>

TakeAll(w) ==
  /\ wk[w].pc = "idle" /\ FanOut \in queue
  /\ queue' = queue \ {FanOut}
  /\ wk' = [wk EXCEPT ![w].pc = "fan", ![w].todo = Running]
  /\ UNCHANGED <<rows, used>>

(* delay() for each, in any order; without a broker the task ends there.   *)
Publish(w) ==
  /\ wk[w].pc = "fan"
  /\ \/ \E d \in wk[w].todo :
          /\ queue' = queue \cup {Check(d)}
          /\ wk' = [wk EXCEPT ![w].todo = @ \ {d}]
     \/ wk[w].todo = {} /\ Leave(w) /\ UNCHANGED queue
  /\ UNCHANGED <<rows, used>>

(* run_health_check reads the row, and goes on if it is RUNNING.           *)
TakeCheck(w, d) ==
  /\ wk[w].pc = "idle" /\ Check(d) \in queue
  /\ queue' = queue \ {Check(d)}
  /\ IF d \in Running THEN wk' = [wk EXCEPT ![w].pc = "ask", ![w].dep = {d}]
                      ELSE UNCHANGED wk
  /\ UNCHANGED <<rows, used>>

(* One that has been stopped since may still answer, or not.               *)
Ask(w) ==
  /\ wk[w].pc = "ask"
  /\ \E d \in wk[w].dep :
       \E verdict \in {Evaluate(level[d])} \cup IF d \in Running THEN {} ELSE {"UNHEALTHY"} :
         wk' = [wk EXCEPT ![w].pc = "record", ![w].verdict = verdict]
  /\ UNCHANGED <<rows, queue, used>>

(* record_check.  The newest snapshot is the one inserted last, however old*)
(* the metrics it was made from.                                           *)
Recorded(w, verdict) ==
  /\ latest' = [d \in Deployments |-> IF d \in wk[w].dep THEN verdict ELSE latest[d]]
  /\ condemned' = IF verdict = "UNHEALTHY" THEN condemned \cup wk[w].dep ELSE condemned

(* Mutant: DEGRADED deployments are repaired as well.                      *)
RecordDegraded(w) ==
  /\ wk[w].pc = "record"
  /\ Recorded(w, wk[w].verdict)
  /\ IF wk[w].verdict \in {"UNHEALTHY", "DEGRADED"} THEN Goto(w, "trigger") ELSE Leave(w)
  /\ UNCHANGED <<status, level, repairing, queue, used>>

Record(w) ==
  /\ wk[w].pc = "record"
  /\ Recorded(w, wk[w].verdict)
  /\ IF wk[w].verdict = "UNHEALTHY" THEN Goto(w, "trigger") ELSE Leave(w)
  /\ UNCHANGED <<status, level, repairing, queue, used>>

(* _trigger_auto_repair.  Nothing remembers that there was a repair before.*)
(* Mutant: a deployment is repaired once.                                  *)
TriggerOnce(w) ==
  /\ wk[w].pc = "trigger"
  /\ queue' = queue \cup {Repair(d) : d \in wk[w].dep \ repairing}
  /\ repairing' = repairing \cup wk[w].dep
  /\ Leave(w)
  /\ UNCHANGED <<status, level, latest, condemned, used>>

Trigger(w) ==
  /\ wk[w].pc = "trigger"
  /\ queue' = queue \cup {Repair(d) : d \in wk[w].dep}
  /\ repairing' = repairing \cup wk[w].dep
  /\ Leave(w)
  /\ UNCHANGED <<status, level, latest, condemned, used>>

(* The except clause of run_health_check: a snapshot of its own, after the *)
(* UNHEALTHY one if it was the publishing that failed.                     *)
RecordUnknown(w) ==
  /\ wk[w].pc = "unknown"
  /\ Recorded(w, "UNKNOWN")
  /\ Leave(w)
  /\ UNCHANGED <<status, level, repairing, queue, used>>

(* health_repair_task creates and executes another deployment of the same  *)
(* subscription; the one it was published of goes on RUNNING.              *)
TakeRepair(w, d) ==
  /\ wk[w].pc = "idle" /\ Repair(d) \in queue
  /\ queue' = queue \ {Repair(d)}
  /\ \/ UNCHANGED status
     \/ \E new \in Deployments : /\ status[new] = "ABSENT"
                                 /\ status' = [status EXCEPT ![new] = "RUNNING"]
  /\ UNCHANGED <<level, latest, condemned, repairing, wk, used>>

-----------------------------------------------------------------------------
(* A call raises: of the driver, of the broker or of the database.         *)
Fail(w) ==
  /\ Spend
  /\ \/ wk[w].pc \in {"ask", "record", "trigger"} /\ Goto(w, "unknown")
     \/ wk[w].pc \in {"fan", "unknown"} /\ Leave(w)
  /\ UNCHANGED <<rows, queue>>

Crash(w) ==
  /\ wk[w].pc # "idle" /\ Spend /\ Leave(w)
  /\ UNCHANGED <<rows, queue>>

(* The engine ends a deployment; a service gets better or worse.           *)
Stop(d) ==
  /\ status[d] = "RUNNING" /\ Spend
  /\ status' = [status EXCEPT ![d] = "STOPPED"]
  /\ UNCHANGED <<level, latest, condemned, repairing, queue, wk>>

Change(d) ==
  /\ Spend
  /\ \E m \in Metrics \ {level[d]} : level' = [level EXCEPT ![d] = m]
  /\ UNCHANGED <<status, latest, condemned, repairing, queue, wk>>

-----------------------------------------------------------------------------
Take(w, m) == \/ m.kind = "all"    /\ TakeAll(w)
              \/ m.kind = "single" /\ TakeCheck(w, m.arg)
              \/ m.kind = "repair" /\ TakeRepair(w, m.arg)

Go(w) == Publish(w) \/ Ask(w) \/ Record(w) \/ Trigger(w) \/ RecordUnknown(w)

Next ==
  \/ Beat \/ Expire
  \/ \E w \in Workers : (\E m \in Messages : Take(w, m)) \/ Go(w) \/ Fail(w) \/ Crash(w)
  \/ \E d \in Deployments : Stop(d) \/ Change(d)

(* Beat goes on, and so does a slot with its task.  The queue is served in *)
(* order, so a message that is there again and again is taken in the end:  *)
(* a fan-out too, unless every one of them expires.                        *)
Fairness ==
  /\ WF_vars(Beat)
  /\ \A w \in Workers : WF_vars(Go(w))
  /\ \A m \in Messages : SF_vars(\E w \in Workers : Take(w, m))

Spec == Init /\ [][Next]_vars /\ Fairness
-----------------------------------------------------------------------------
(* Every variable has its type.                                            *)
TypeOK ==
  /\ status \in [Deployments -> {"ABSENT", "RUNNING", "STOPPED"}]
  /\ level \in [Deployments -> Metrics]
  /\ latest \in [Deployments -> Snapshot]
  /\ condemned \subseteq Deployments /\ repairing \subseteq Deployments
  /\ queue \subseteq Messages
  /\ wk \in [Workers -> Worker]
  /\ used \in Nat

(* Nothing is repaired that the summary does not count as unhealthy,       *)
(* whichever of the calls between the check and the repair fails or crashes*)
RepairIsRecorded == repairing \subseteq UnhealthyServices

(* What the health view calls a deployment's current status becomes, and   *)
(* stays, that of the service: of every deployment that stays RUNNING, also*)
(* one a repair started later.  Snapshots inserted late or in place of one *)
(* that failed, lost checks and lost fan-outs delay it, no more.           *)
StatusSettles ==
  \A d \in Deployments :
    <>[](status[d] = "RUNNING") => <>[](CurrentStatus(d) = Evaluate(level[d]))

(* A deployment that stays RUNNING and UNHEALTHY is repaired again and     *)
(* again: a repair that was lost, or did not help, is not the last.        *)
IllIsRepaired ==
  \A d \in Deployments :
    <>[](status[d] = "RUNNING" /\ Evaluate(level[d]) = "UNHEALTHY") =>
      []<>(Repair(d) \in queue)
=============================================================================
