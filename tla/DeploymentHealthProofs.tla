------------------------- MODULE DeploymentHealthProofs -------------------------
(***************************************************************************)
(* Theorems about DeploymentHealth, for any deployments, workers, metrics  *)
(* and budget: its types, and that a repair rests on a recorded verdict.   *)
(***************************************************************************)
EXTENDS DeploymentHealth, TLAPS

(* A worker that is about to publish a repair holds deployments whose      *)
(* UNHEALTHY snapshot is there: RepairIsRecorded is inductive with it.     *)
AboutToRepair == \A w \in Workers : wk[w].pc = "trigger" => wk[w].dep \subseteq condemned

HInv == TypeOK /\ AboutToRepair /\ RepairIsRecorded

-----------------------------------------------------------------------------
LEMMA VerdictType ==
  ASSUME NEW m
  PROVE  Evaluate(m) \in HealthStatus
BY DEF Evaluate, HealthStatus

LEMMA WorkerType ==
  ASSUME NEW f \in [Workers -> Worker], NEW w \in Workers
  PROVE  /\ f[w] \in Worker
         /\ f[w].todo \subseteq Deployments /\ f[w].dep \subseteq Deployments
         /\ f[w].verdict \in Snapshot
         /\ \A pc \in {"idle", "fan", "ask", "record", "trigger", "unknown"} :
              [f EXCEPT ![w].pc = pc] \in [Workers -> Worker]
         /\ [f EXCEPT ![w] = Idle] \in [Workers -> Worker]
<1>1. f[w] \in Worker OBVIOUS
<1>2. Idle \in Worker BY DEF Idle, Worker, Snapshot, HealthStatus
<1> QED BY <1>1, <1>2 DEF Worker

LEMMA InitHolds == Init => HInv
<1> SUFFICES ASSUME Init PROVE HInv
    OBVIOUS
<1> USE HealthAssumption
<1>1. TypeOK
  <2>1. Idle \in Worker BY DEF Idle, Worker, Snapshot, HealthStatus
  <2>2. level \in [Deployments -> Metrics] BY DEF Init
  <2> QED BY <2>1, <2>2 DEF Init, TypeOK, Snapshot, HealthStatus
<1>2. AboutToRepair BY DEF Init, AboutToRepair, Idle
<1>3. RepairIsRecorded BY DEF Init, RepairIsRecorded, UnhealthyServices
<1> QED BY <1>1, <1>2, <1>3 DEF HInv

-----------------------------------------------------------------------------
LEMMA EnvironmentKeeps ==
  ASSUME HInv, \/ Beat \/ Expire \/ UNCHANGED vars
               \/ \E d \in Deployments : Stop(d) \/ Change(d)
  PROVE  HInv'
<1> USE DEF HInv, AboutToRepair, RepairIsRecorded, UnhealthyServices
<1>1. CASE Beat
  BY <1>1 DEF Beat, rows, TypeOK, Messages
<1>2. CASE Expire
  BY <1>2 DEF Expire, rows, TypeOK
<1>3. CASE UNCHANGED vars
  BY <1>3 DEF vars, TypeOK
<1>4. ASSUME NEW d \in Deployments, Stop(d) PROVE HInv'
  BY <1>4 DEF Stop, Spend, TypeOK
<1>5. ASSUME NEW d \in Deployments, Change(d) PROVE HInv'
  BY <1>5 DEF Change, Spend, TypeOK
<1> QED BY <1>1, <1>2, <1>3, <1>4, <1>5

(* Taking a message: no worker is about to repair that was not before.     *)
LEMMA TakeKeeps ==
  ASSUME HInv, NEW w \in Workers, NEW m \in Messages, Take(w, m)
  PROVE  HInv'
<1> USE DEF HInv, AboutToRepair, RepairIsRecorded, UnhealthyServices
<1>1. CASE TakeAll(w)
  BY <1>1 DEF TakeAll, rows, TypeOK, Worker, Running
<1>2. CASE \E d \in Deployments : TakeCheck(w, d)
  <2>1. PICK d \in Deployments : TakeCheck(w, d) BY <1>2
  <2> QED BY <2>1 DEF TakeCheck, rows, TypeOK, Worker
<1>3. CASE \E d \in Deployments : TakeRepair(w, d)
  <2>1. PICK d \in Deployments : TakeRepair(w, d) BY <1>3
  <2> QED BY <2>1 DEF TakeRepair, TypeOK
<1>4. m.kind \in {"single", "repair"} => m.arg \in Deployments
  BY DEF Messages, FanOut, Check, Repair
<1> QED BY <1>1, <1>2, <1>3, <1>4 DEF Take

LEMMA LeaveKeeps ==
  ASSUME HInv, NEW w \in Workers, Leave(w), UNCHANGED <<rows, queue, used>>
  PROVE  HInv'
<1>1. wk \in [Workers -> Worker] BY DEF HInv, TypeOK
<1>2. wk' \in [Workers -> Worker] BY <1>1, WorkerType DEF Leave
<1>3. wk'[w].pc = "idle" /\ \A v \in Workers \ {w} : wk'[v] = wk[v]
  BY <1>1 DEF Leave, Idle
<1>4. TypeOK' BY <1>2 DEF HInv, TypeOK, rows
<1> QED BY <1>3, <1>4 DEF HInv, AboutToRepair, RepairIsRecorded, UnhealthyServices, rows

LEMMA PublishKeeps ==
  ASSUME HInv, NEW w \in Workers, Publish(w)
  PROVE  HInv'
<1> USE DEF HInv
<1>1. wk \in [Workers -> Worker] /\ UNCHANGED <<rows, used>> BY DEF TypeOK, Publish
<1>2. CASE \E d \in wk[w].todo : /\ queue' = queue \cup {Check(d)}
                                /\ wk' = [wk EXCEPT ![w].todo = @ \ {d}]
  <2>1. PICK d \in wk[w].todo : /\ queue' = queue \cup {Check(d)}
                                /\ wk' = [wk EXCEPT ![w].todo = @ \ {d}]
    BY <1>2
  <2>2. d \in Deployments BY <1>1, WorkerType
  <2>3. queue' \subseteq Messages BY <2>1, <2>2 DEF TypeOK, Messages
  <2>4. wk' \in [Workers -> Worker]
    <3>1. [wk[w] EXCEPT !.todo = @ \ {d}] \in Worker BY <1>1 DEF Worker
    <3> QED BY <1>1, <2>1, <3>1
  <2>5. \A v \in Workers : wk'[v].pc = wk[v].pc /\ wk'[v].dep = wk[v].dep
    BY <1>1, <2>1 DEF Worker
  <2>6. TypeOK' BY <1>1, <2>3, <2>4 DEF TypeOK, rows
  <2> QED BY <1>1, <2>5, <2>6 DEF AboutToRepair, RepairIsRecorded, UnhealthyServices, rows
<1>3. CASE Leave(w) /\ UNCHANGED queue
  BY <1>1, <1>3, LeaveKeeps DEF rows
<1> QED BY <1>2, <1>3 DEF Publish

LEMMA AskKeeps ==
  ASSUME HInv, NEW w \in Workers, Ask(w)
  PROVE  HInv'
<1> USE DEF HInv
<1>1. wk \in [Workers -> Worker] BY DEF TypeOK
<1>2. PICK verdict \in HealthStatus :
        wk' = [wk EXCEPT ![w].pc = "record", ![w].verdict = verdict]
  BY VerdictType DEF Ask, HealthStatus
<1>3. [wk[w] EXCEPT !.pc = "record", !.verdict = verdict] \in Worker
  BY <1>1 DEF Worker, Snapshot
<1>4. wk' \in [Workers -> Worker] BY <1>1, <1>2, <1>3
<1>5. wk'[w].pc = "record" /\ \A v \in Workers \ {w} : wk'[v] = wk[v]
  BY <1>1, <1>2 DEF Worker
<1>6. TypeOK' BY <1>4 DEF Ask, TypeOK, rows
<1> QED BY <1>5, <1>6 DEF Ask, AboutToRepair, RepairIsRecorded, UnhealthyServices, rows

(* Both kinds of snapshot.                                                 *)
LEMMA RecordKeeps ==
  ASSUME HInv, NEW w \in Workers, Record(w) \/ RecordUnknown(w)
  PROVE  HInv'
<1> USE DEF HInv
<1>1. wk \in [Workers -> Worker] BY DEF TypeOK
<1>2. PICK verdict \in Snapshot :
        /\ Recorded(w, verdict)
        /\ (verdict = "UNHEALTHY" /\ Goto(w, "trigger")) \/ Leave(w)
  BY <1>1, WorkerType DEF Record, RecordUnknown, Snapshot, HealthStatus
<1>3. UNCHANGED <<status, level, repairing, queue, used>> BY DEF Record, RecordUnknown
<1>4. latest' \in [Deployments -> Snapshot] BY <1>2 DEF TypeOK, Recorded
<1>5. /\ condemned \subseteq condemned' /\ condemned' \subseteq Deployments
      /\ verdict = "UNHEALTHY" => wk[w].dep \subseteq condemned'
  BY <1>1, <1>2, WorkerType DEF Recorded, TypeOK
<1>6. wk' \in [Workers -> Worker]
  BY <1>1, <1>2, WorkerType DEF Goto, Leave
<1>7. wk'[w].pc = "trigger" => verdict = "UNHEALTHY" /\ wk'[w].dep = wk[w].dep
  BY <1>1, <1>2 DEF Goto, Leave, Idle, Worker
<1>8. \A v \in Workers \ {w} : wk'[v] = wk[v]
  BY <1>1, <1>2 DEF Goto, Leave
<1>9. TypeOK' BY <1>3, <1>4, <1>5, <1>6 DEF TypeOK
<1> QED BY <1>3, <1>5, <1>7, <1>8, <1>9 DEF AboutToRepair, RepairIsRecorded, UnhealthyServices

LEMMA FailKeeps ==
  ASSUME HInv, NEW w \in Workers, Fail(w) \/ Crash(w)
  PROVE  HInv'
<1> USE DEF HInv
<1>1. wk \in [Workers -> Worker] BY DEF TypeOK
<1>2. UNCHANGED <<rows, queue>> /\ used' \in Nat /\ (Goto(w, "unknown") \/ Leave(w))
  BY DEF Fail, Crash, Spend, TypeOK
<1>3. wk' \in [Workers -> Worker] BY <1>1, <1>2, WorkerType DEF Goto, Leave
<1>4. wk'[w].pc # "trigger" /\ \A v \in Workers \ {w} : wk'[v] = wk[v]
  BY <1>1, <1>2 DEF Goto, Leave, Idle, Worker
<1>5. TypeOK' BY <1>2, <1>3 DEF TypeOK, rows
<1> QED BY <1>2, <1>4, <1>5 DEF AboutToRepair, RepairIsRecorded, UnhealthyServices, rows

LEMMA TriggerKeeps ==
  ASSUME HInv, NEW w \in Workers, Trigger(w)
  PROVE  HInv'
<1> USE DEF HInv, AboutToRepair, RepairIsRecorded, UnhealthyServices
<1>1. wk \in [Workers -> Worker] BY DEF TypeOK
<1> QED BY <1>1, WorkerType DEF Trigger, Leave, TypeOK, Messages, Idle

LEMMA StepKeeps == HInv /\ [Next]_vars => HInv'
<1> SUFFICES ASSUME HInv, [Next]_vars PROVE HInv'
    OBVIOUS
<1> QED BY EnvironmentKeeps, TakeKeeps, PublishKeeps, AskKeeps, RecordKeeps, TriggerKeeps, FailKeeps
       DEF Next, Go

-----------------------------------------------------------------------------
LEMMA Invariance == Spec => []HInv
BY InitHolds, StepKeeps, PTL DEF Spec

(* Every reachable state is type correct.                                  *)
THEOREM HealthTyping == Spec => []TypeOK
<1>1. HInv => TypeOK BY DEF HInv
<1> QED BY <1>1, Invariance, PTL

(* Whatever fails, crashes or runs beside it between a check and the repair*)
(* it publishes, the UNHEALTHY snapshot is there first.                    *)
THEOREM RepairsAreRecorded == Spec => []RepairIsRecorded
<1>1. HInv => RepairIsRecorded BY DEF HInv
<1> QED BY <1>1, Invariance, PTL
=============================================================================
