----------------------- MODULE DeploymentEngineProofs -----------------------
(***************************************************************************)
(* Theorems of DeploymentEngine, for every value of its constants: the     *)
(* types of its variables and the phases of its processes are consistent,  *)
(* the driver is called for a deployment by one process at a time, and no  *)
(* container is ever shared.                                               *)
(***************************************************************************)
EXTENDS DeploymentEngine, TLAPS

-----------------------------------------------------------------------------
(* What each phase of a process says of its task, operation and target.    *)
Shape(p, me) ==
  /\ p \in Workers /\ me.pc # "idle" => me.task \in Messages
  /\ me.pc \in {"create", "insert", "insert_infra"} =>
       me.task \in Messages /\ me.task.kind \in {"provision", "upgrade", "repair"}
  /\ me.pc = "find" => me.task \in Messages /\ me.task.kind \in {"upgrade", "decommission"}
  /\ me.pc = "find" /\ me.task.kind = "upgrade" => me.target \in Ids
  /\ me.pc = "fetch" => me.op \in {"execute", "upgrade", "decommission"} /\ me.target \in Ids
  /\ me.pc \in {"update", "driver", "commit"} =>
       me.op \in {"execute", "upgrade", "rollback", "decommission"} /\ me.target \in Ids
  /\ me.pc \in {"raised", "done"} => me.task \in Messages

WellFormed(p) == Shape(p, proc[p])
PhasesOK == \A p \in Procs : WellFormed(p)

(* What a message's kind says of its fields.                               *)
LEMMA MessageFields ==
  ASSUME NEW m \in Messages
  PROVE  /\ m.kind \in TaskKinds
         /\ m.tries \in 0..TaskRetries[m.kind]
         /\ m.ver \in Versions \cup {""}
         /\ m.kind \in {"provision", "upgrade", "decommission"} => m.arg \in Subs
         /\ m.kind \in {"execute", "repair"} => m.arg \in Ids
BY DEF Messages, Message, TaskKinds

LEMMA TaskRetriesNat == \A k \in TaskKinds : TaskRetries[k] \in Nat
BY ConstantsAssumption

(* A retried call is a message.                                            *)
LEMMA RetriedMessage ==
  ASSUME NEW m \in Messages, m.tries < TaskRetries[m.kind]
  PROVE  [m EXCEPT !.tries = @ + 1] \in Messages
<1>1. m.tries \in 0..TaskRetries[m.kind] /\ TaskRetries[m.kind] \in Nat
  BY MessageFields, TaskRetriesNat
<1>2. m.tries + 1 \in 0..TaskRetries[m.kind]
  BY <1>1
<1> QED
  BY <1>2 DEF Messages, Message

(* The messages the environment and the engine send.                       *)
LEMMA SentMessages ==
  /\ \A s \in Subs : Provision(s) \in Messages /\ Decommission(s) \in Messages
  /\ \A s \in Subs, v \in Versions : UpgradeFrom(s, v) \in Messages
  /\ \A r \in Ids : Execute(r) \in Messages
  /\ \A r \in Ids : [kind |-> "repair", arg |-> r, ver |-> "", tries |-> 0] \in Messages
<1>1. \A k \in TaskKinds : 0 \in 0..TaskRetries[k]
  BY TaskRetriesNat
<1> QED
  BY <1>1 DEF Messages, Message, TaskKinds, Provision, Decommission, UpgradeFrom, Execute

(* Sending a message and spending the budget keep the types.               *)
LEMMA SendType ==
  ASSUME TypeOK, NEW m \in Messages, Send(m)
  PROVE  broker' \in [Messages -> Nat]
BY DEF TypeOK, Send

LEMMA SpendType ==
  ASSUME TypeOK, NEW k \in EnvKinds, Spend(k)
  PROVE  used' \in [EnvKinds -> Nat]
BY DEF TypeOK, Spend

LEMMA IdleType == NoRow \in Row /\ Idle \in Process
BY DEF Idle, Process, NoRow, Row, NoTask, Phases, Ops, Statuses

LEMMA FailedType ==
  ASSUME NEW row \in Row
  PROVE  Failed(row) \in Row
<1>1. row.retries \in Nat
  BY DEF Row
<1>2. row.retries + 1 \in Nat
  BY <1>1
<1> QED
  BY <1>2 DEF Failed, Row, Statuses

LEMMA UnlockedType ==
  ASSUME TypeOK, NEW p \in Procs
  PROVE  Unlocked(p) \in [Ids -> Procs \cup {None}]
BY DEF TypeOK, Unlocked

(* A process whose new state has the type and the shape.                   *)
LEMMA UpdateTyped ==
  ASSUME TypeOK, PhasesOK, NEW p \in Procs, NEW me \in Process, Shape(p, me),
         proc' = [proc EXCEPT ![p] = me]
  PROVE  proc' \in [Procs -> Process] /\ PhasesOK'
BY DEF TypeOK, PhasesOK, WellFormed

(* A process that leaves its operation is well formed.                     *)
LEMMA LeaveType ==
  ASSUME TypeOK, PhasesOK, NEW p \in Procs, proc[p].pc # "idle",
         NEW phase \in {"raised", "done"}, Leave(p, phase)
  PROVE  proc' \in [Procs -> Process] /\ PhasesOK'
<1>1. CASE p \in Requests
  <2>1. p \notin Workers
    BY <1>1, ConstantsAssumption
  <2>2. proc' = [proc EXCEPT ![p] = Idle]
    BY <1>1 DEF Leave, Left
  <2> QED
    BY <2>1, <2>2, IdleType DEF TypeOK, PhasesOK, WellFormed, Shape, Idle
<1>2. CASE p \notin Requests
  <2>1. p \in Workers /\ proc[p].task \in Messages
    BY <1>2 DEF Procs, PhasesOK, WellFormed, Shape
  <2>2. proc' = [proc EXCEPT ![p] = [Idle EXCEPT !.pc = phase, !.task = proc[p].task]]
    BY <1>2 DEF Leave, Left
  <2>3. [Idle EXCEPT !.pc = phase, !.task = proc[p].task] \in Process
    BY <2>1, IdleType DEF Process, Phases
  <2> QED
    BY <2>1, <2>2, <2>3 DEF TypeOK, PhasesOK, WellFormed, Shape, Idle
<1> QED
  BY <1>1, <1>2

IInv == TypeOK /\ PhasesOK

LEMMA InitTyped == Init => IInv
<1> SUFFICES ASSUME Init PROVE IInv
  OBVIOUS
<1>1. TypeOK
  <2>1. records \in [Ids -> Row] /\ proc \in [Procs -> Process]
    BY IdleType DEF Init
  <2>2. created \in 0..MaxRecords
    <3>1. MaxRecords \in Nat
      BY ConstantsAssumption
    <3> QED
      BY <3>1 DEF Init
  <2>3. containers \in Nat /\ live \subseteq 1..containers
    BY DEF Init
  <2> QED
    BY <2>1, <2>2, <2>3 DEF Init, TypeOK, SubStatuses
<1>2. PhasesOK
  BY DEF Init, PhasesOK, WellFormed, Shape, Idle
<1> QED
  BY <1>1, <1>2 DEF IInv

(* Steps of the environment keep the types.                                *)
LEMMA EnvironmentTyped ==
  ASSUME IInv, Environment
  PROVE  IInv'
<1> USE DEF IInv
<1>1. ASSUME NEW s \in Subs, Install(s) PROVE IInv'
  <2>1. broker' \in [Messages -> Nat]
    BY <1>1, SendType, SentMessages DEF Install
  <2> QED
    BY <1>1, <2>1 DEF Install, TypeOK, SubStatuses, PhasesOK, WellFormed, Shape, ctVars
<1>2. ASSUME NEW s \in Subs, InstallCommits(s) PROVE IInv'
  BY <1>2 DEF InstallCommits, TypeOK, SubStatuses, PhasesOK, WellFormed, Shape, ctVars
<1>3. ASSUME NEW s \in Subs, UninstallProduct(s) PROVE IInv'
  <2>1. broker' \in [Messages -> Nat]
    BY <1>3, SendType, SentMessages DEF UninstallProduct
  <2>2. used' \in [EnvKinds -> Nat]
    BY <1>3, SpendType DEF UninstallProduct, EnvKinds
  <2> QED
    BY <1>3, <2>1, <2>2 DEF UninstallProduct, TypeOK, SubStatuses, PhasesOK, WellFormed, Shape, ctVars
<1>4. ASSUME NEW s \in Subs, NEW v \in Versions, UpgradeProduct(s, v) PROVE IInv'
  <2>1. broker' \in [Messages -> Nat]
    BY <1>4, SendType, SentMessages DEF UpgradeProduct, TypeOK
  <2>2. used' \in [EnvKinds -> Nat]
    BY <1>4, SpendType DEF UpgradeProduct, EnvKinds
  <2> QED
    BY <1>4, <2>1, <2>2 DEF UpgradeProduct, TypeOK, PhasesOK, WellFormed, Shape, ctVars
<1>5. CASE ViewInfra
  BY <1>5 DEF ViewInfra, TypeOK, PhasesOK, WellFormed, Shape, ctVars
<1>6. ASSUME NEW r \in Ids, RetryRequest(r) PROVE IInv'
  <2>1. broker' \in [Messages -> Nat]
    BY <1>6, SendType, SentMessages DEF RetryRequest
  <2>2. used' \in [EnvKinds -> Nat]
    BY <1>6, SpendType DEF RetryRequest, EnvKinds
  <2> QED
    BY <1>6, <2>1, <2>2 DEF RetryRequest, TypeOK, PhasesOK, WellFormed, Shape, dbVars, ctVars
<1>7. ASSUME NEW r \in Ids, HealthCheck(r) PROVE IInv'
  <2>1. broker' \in [Messages -> Nat]
    BY <1>7, SendType, SentMessages DEF HealthCheck
  <2>2. used' \in [EnvKinds -> Nat]
    BY <1>7, SpendType DEF HealthCheck, EnvKinds
  <2> QED
    BY <1>7, <2>1, <2>2 DEF HealthCheck, TypeOK, PhasesOK, WellFormed, Shape, dbVars, ctVars
<1>8. ASSUME NEW p \in Requests, NEW r \in Ids, NEW v \in Versions, RollbackRequest(p, r, v)
      PROVE  IInv'
  <2> DEFINE call == [kind |-> "rollback", arg |-> r, ver |-> v, tries |-> 0]
             me   == [pc |-> "update", op |-> "rollback", target |-> r,
                      copy |-> records[r], task |-> call]
  <2>1. p \in Procs /\ p \notin Workers
    BY ConstantsAssumption DEF Procs
  <2>2. me \in Process
    BY DEF Process, Phases, Ops, RollbackCalls, TypeOK
  <2>3. proc' = [proc EXCEPT ![p] = me]
    BY <1>8 DEF RollbackRequest
  <2>4. used' \in [EnvKinds -> Nat]
    BY <1>8, SpendType DEF RollbackRequest, EnvKinds
  <2>5. TypeOK'
    BY <1>8, <2>1, <2>2, <2>3, <2>4 DEF RollbackRequest, TypeOK, dbVars, ctVars
  <2>6. PhasesOK'
    BY <2>1, <2>3 DEF PhasesOK, WellFormed, Shape, TypeOK
  <2> QED
    BY <2>5, <2>6
<1>9. ASSUME NEW p \in Procs, HandleFailure(p) PROVE IInv'
  <2> DEFINE me == proc[p]
             row == Failed(me.copy)
  <2>1. me.copy \in Row /\ me.target \in Ids /\ me.pc # "idle"
    BY <1>9 DEF HandleFailure, TypeOK, Process, PhasesOK, WellFormed, Shape
  <2>2. row \in Row
    BY <2>1, FailedType
  <2>3. broker' \in [Messages -> Nat]
    BY <1>9, <2>1, SendType, SentMessages DEF HandleFailure, TypeOK
  <2>4. used' \in [EnvKinds -> Nat]
    BY <1>9, SpendType DEF HandleFailure, EnvKinds
  <2>5. proc' \in [Procs -> Process] /\ PhasesOK'
    BY <1>9, <2>1, LeaveType DEF HandleFailure
  <2>6. records' \in [Ids -> Row] /\ failedRuns' \in [Ids -> Nat]
    BY <1>9, <2>1, <2>2 DEF HandleFailure, TypeOK
  <2>7. rowLock' \in [Ids -> Procs \cup {None}]
    BY <1>9, UnlockedType DEF HandleFailure
  <2> QED
    BY <1>9, <2>3, <2>4, <2>5, <2>6, <2>7 DEF HandleFailure, TypeOK, ctVars
<1>10. ASSUME NEW p \in Procs, Crash(p) PROVE IInv'
  <2>1. proc[p].task.kind \in AcksLate => proc[p].task \in Messages
    <3>1. proc[p].task \in Messages \cup {NoTask} \cup RollbackCalls
      BY DEF TypeOK, Process
    <3>2. NoTask.kind \notin AcksLate
      BY DEF NoTask, AcksLate
    <3>3. \A call \in RollbackCalls : call.kind \notin AcksLate
      BY DEF RollbackCalls, AcksLate
    <3> QED
      BY <3>1, <3>2, <3>3
  <2>2. broker' \in [Messages -> Nat]
    BY <1>10, <2>1, SendType DEF Crash, TypeOK
  <2>3. used' \in [EnvKinds -> Nat]
    BY <1>10, SpendType DEF Crash, EnvKinds
  <2>4. rowLock' \in [Ids -> Procs \cup {None}]
    BY <1>10, UnlockedType DEF Crash
  <2>5. proc' \in [Procs -> Process] /\ PhasesOK'
    BY <1>10, IdleType DEF Crash, TypeOK, PhasesOK, WellFormed, Shape, Idle
  <2> QED
    BY <1>10, <2>2, <2>3, <2>4, <2>5 DEF Crash, TypeOK, dbVars, ctVars
<1>11. ASSUME NEW p \in Workers, Kill(p) PROVE IInv'
  <2>1. p \in Procs
    BY DEF Procs
  <2>2. used' \in [EnvKinds -> Nat]
    BY <1>11, SpendType DEF Kill, EnvKinds
  <2>3. rowLock' \in [Ids -> Procs \cup {None}]
    BY <1>11, <2>1, UnlockedType DEF Kill
  <2>4. proc' \in [Procs -> Process] /\ PhasesOK'
    BY <1>11, <2>1, IdleType DEF Kill, TypeOK, PhasesOK, WellFormed, Shape, Idle
  <2> QED
    BY <1>11, <2>2, <2>3, <2>4 DEF Kill, TypeOK, dbVars, ctVars
<1> QED
  BY <1>1, <1>2, <1>3, <1>4, <1>5, <1>6, <1>7, <1>8, <1>9, <1>10, <1>11 DEF Environment

(* Steps of the tasks keep the types.                                      *)
LEMMA DeliverTyped ==
  ASSUME IInv, NEW w \in Workers, NEW m \in Messages, Deliver(w, m)
  PROVE  IInv'
<1> USE DEF IInv
<1>1. w \in Procs
  BY DEF Procs
<1>2. broker' \in [Messages -> Nat]
  <2>1. broker[m] \in Nat /\ broker[m] > 0
    BY DEF Deliver, TypeOK
  <2>2. broker[m] - 1 \in Nat
    BY <2>1
  <2> QED
    BY <2>2 DEF Deliver, TypeOK
<1>3. /\ m.kind \in TaskKinds
      /\ FirstPhase[m.kind] \in {"create", "find", "fetch"}
      /\ FirstPhase[m.kind] = "create" => m.kind \in {"provision", "upgrade", "repair"}
      /\ FirstPhase[m.kind] = "find" => m.kind = "decommission"
      /\ FirstPhase[m.kind] = "fetch" <=> m.kind = "execute"
  <2>1. m.kind \in TaskKinds
    BY MessageFields
  <2> QED
    BY <2>1 DEF FirstPhase, TaskKinds
<1>4. Entered(m) \in Process /\ Shape(w, Entered(m))
  <2>1. CASE m.kind = "execute"
    <3>1. m.arg \in Ids
      BY <2>1, MessageFields
    <3>2. Entered(m) = [Idle EXCEPT !.task = m, !.pc = "fetch", !.op = "execute",
                                    !.target = m.arg]
      BY <2>1 DEF Entered, FirstPhase
    <3> QED
      BY <3>1, <3>2, IdleType DEF Idle, Process, Phases, Ops, Shape
  <2>2. CASE m.kind # "execute"
    <3>1. Entered(m) = [Idle EXCEPT !.task = m, !.pc = FirstPhase[m.kind], !.op = "none",
                                    !.target = 0]
      BY <2>2 DEF Entered
    <3>2. FirstPhase[m.kind] \in {"create", "find"}
      BY <1>3, <2>2
    <3> QED
      BY <1>3, <3>1, <3>2, IdleType DEF Idle, Process, Phases, Ops, Shape
  <2> QED
    BY <2>1, <2>2
<1>5. proc' \in [Procs -> Process] /\ PhasesOK'
  BY <1>1, <1>4, UpdateTyped DEF Deliver
<1> QED
  BY <1>2, <1>5 DEF Deliver, TypeOK, dbVars, ctVars

LEMMA NewRowType ==
  ASSUME TypeOK, NEW m \in Messages, m.kind \in {"provision", "upgrade", "repair"}
  PROVE  NewRow(m) \in Row
<1>1. CASE m.kind = "repair"
  <2> DEFINE row == records[m.arg]
  <2>1. row \in Row
    BY <1>1, MessageFields DEF TypeOK
  <2>2. row.sub \in Subs \cup {None} /\ row.to \in Versions \cup {""}
    BY <2>1 DEF Row
  <2>3. NewRow(m) = [NoRow EXCEPT !.sub = row.sub, !.type = "HEALTH_REPAIR",
                                  !.status = "QUEUED", !.from = row.to, !.to = row.to]
    BY <1>1 DEF NewRow, SubscriptionOf, DeploymentType
  <2> HIDE DEF row
  <2>4. [NoRow EXCEPT !.sub = row.sub, !.type = "HEALTH_REPAIR", !.status = "QUEUED",
                      !.from = row.to, !.to = row.to] \in Row
    BY <2>2 DEF NoRow, Row, Statuses
  <2> QED
    BY <2>3, <2>4
<1>2. CASE m.kind # "repair"
  <2>1. m.arg \in Subs /\ m.ver \in Versions \cup {""}
    BY <1>2, MessageFields
  <2>2. subVersion[m.arg] \in Versions
    BY <2>1 DEF TypeOK
  <2>3. DeploymentType[m.kind] \in {"PROVISION", "UPGRADE", "HEALTH_REPAIR"}
    BY DEF DeploymentType
  <2> QED
    BY <1>2, <2>1, <2>2, <2>3 DEF NewRow, NoRow, SubscriptionOf, Row, Statuses
<1> QED
  BY <1>1, <1>2

LEMMA FirstTransitionType ==
  ASSUME NEW row \in Row, NEW ver \in Versions \cup {""},
         NEW op \in {"execute", "upgrade", "rollback", "decommission"}
  PROVE  /\ FirstTransition(op, row, ver) \in Row
         /\ FirstTransition(op, row, ver).container = row.container
BY DEF FirstTransition, Row, Statuses

LEMMA CreateTyped ==
  ASSUME IInv, NEW p \in Procs, CreateDeployment(p)
  PROVE  IInv'
<1> USE DEF IInv
<1>1. /\ proc[p].task \in Messages /\ proc[p].pc # "idle"
      /\ proc[p].task.kind \in {"provision", "upgrade", "repair"}
  BY DEF CreateDeployment, PhasesOK, WellFormed, Shape
<1>2. NewRow(proc[p].task) \in Row
  BY <1>1, NewRowType
<1>3. proc' \in [Procs -> Process] /\ PhasesOK'
  <2>1. CASE Leave(p, "raised") \/ Leave(p, "done")
    BY <1>1, <2>1, LeaveType
  <2>2. ASSUME NEW phase \in {"insert", "insert_infra"},
               proc' = [proc EXCEPT ![p].copy = NewRow(proc[p].task), ![p].pc = phase]
        PROVE  proc' \in [Procs -> Process] /\ PhasesOK'
    <3> DEFINE me == [proc[p] EXCEPT !.copy = NewRow(proc[p].task), !.pc = phase]
    <3>1. proc[p] \in Process /\ Shape(p, proc[p])
      BY DEF TypeOK, PhasesOK, WellFormed
    <3>2. me \in Process /\ Shape(p, me)
      BY <1>1, <1>2, <3>1 DEF Process, Phases, Shape
    <3>3. proc' = [proc EXCEPT ![p] = me]
      BY <2>2 DEF TypeOK
    <3> QED
      BY <3>2, <3>3, UpdateTyped
  <2> QED
    BY <2>1, <2>2 DEF CreateDeployment
<1> QED
  BY <1>3 DEF CreateDeployment, TypeOK, dbVars, ctVars

LEMMA InsertTyped ==
  ASSUME IInv, NEW p \in Procs, InsertRecord(p)
  PROVE  IInv'
<1> USE DEF IInv
<1>1. /\ proc[p].task \in Messages /\ proc[p].pc # "idle"
      /\ proc[p].task.kind \in {"provision", "upgrade", "repair"}
      /\ proc[p] \in Process /\ proc[p].copy \in Row
  BY DEF InsertRecord, TypeOK, Process, PhasesOK, WellFormed, Shape
<1>2. CASE Leave(p, "raised") /\ UNCHANGED <<records, created, infra>>
  <2>1. proc' \in [Procs -> Process] /\ PhasesOK'
    BY <1>1, <1>2, LeaveType
  <2> QED
    BY <1>2, <2>1 DEF InsertRecord, TypeOK, ctVars
<1>3. CASE /\ records' = [records EXCEPT ![created + 1] = proc[p].copy]
           /\ created' = created + 1
           /\ infra'   = TRUE
           /\ proc'    = [proc EXCEPT ![p] = Inserted(@, created + 1)]
  <2>1. created + 1 \in Ids /\ created + 1 \in 0..MaxRecords
    <3>1. created \in 0..MaxRecords /\ created < MaxRecords
      BY DEF InsertRecord, TypeOK
    <3>2. MaxRecords \in Nat
      BY ConstantsAssumption
    <3> QED
      BY <3>1, <3>2 DEF Ids
  <2> DEFINE me == Inserted(proc[p], created + 1)
  <2>2. /\ me \in Process
        /\ me.task = proc[p].task /\ me.target \in Ids
        /\ me.pc \in {"find", "fetch"}
        /\ me.pc = "find" => me.task.kind = "upgrade"
        /\ me.pc = "fetch" => me.op = "execute"
    BY <1>1, <2>1, IdleType DEF Inserted, Process, Phases, Ops
  <2>3. proc' = [proc EXCEPT ![p] = me]
    BY <1>3
  <2>4. proc' \in [Procs -> Process] /\ PhasesOK'
    BY <1>1, <2>2, <2>3 DEF TypeOK, PhasesOK, WellFormed, Shape
  <2>5. records' \in [Ids -> Row]
    BY <1>1, <1>3 DEF TypeOK
  <2> QED
    BY <1>3, <2>1, <2>4, <2>5 DEF InsertRecord, TypeOK, ctVars
<1> QED
  BY <1>2, <1>3 DEF InsertRecord

LEMMA FindTyped ==
  ASSUME IInv, NEW p \in Procs, FindActive(p)
  PROVE  IInv'
<1> USE DEF IInv
<1>1. /\ proc[p].task \in Messages /\ proc[p].pc # "idle"
      /\ proc[p].task.kind \in {"upgrade", "decommission"}
      /\ proc[p].task.kind = "upgrade" => proc[p].target \in Ids
  BY DEF FindActive, PhasesOK, WellFormed, Shape
<1>2. proc[p] \in Process /\ Shape(p, proc[p])
  BY DEF TypeOK, PhasesOK, WellFormed
<1>3. proc' \in [Procs -> Process] /\ PhasesOK'
  <2>1. CASE Leave(p, "done")
    BY <1>1, <2>1, LeaveType
  <2>2. CASE /\ proc[p].task.kind = "upgrade"
             /\ proc' = [proc EXCEPT ![p].pc = "fetch", ![p].op = "execute"]
    <3> DEFINE me == [proc[p] EXCEPT !.pc = "fetch", !.op = "execute"]
    <3>1. me \in Process /\ Shape(p, me)
      BY <1>1, <1>2, <2>2 DEF Process, Phases, Ops, Shape
    <3>2. proc' = [proc EXCEPT ![p] = me]
      BY <2>2 DEF TypeOK
    <3> QED
      BY <3>1, <3>2, UpdateTyped
  <2>3. ASSUME NEW r \in ActiveDeployment(proc[p].task.arg),
               proc' = [proc EXCEPT ![p].pc = "fetch", ![p].op = proc[p].task.kind,
                                    ![p].target = r]
        PROVE  proc' \in [Procs -> Process] /\ PhasesOK'
    <3>1. r \in Ids
      BY DEF ActiveDeployment, RunningRows
    <3> DEFINE me == [proc[p] EXCEPT !.pc = "fetch", !.op = proc[p].task.kind, !.target = r]
    <3>2. me \in Process /\ Shape(p, me)
      BY <1>1, <1>2, <3>1 DEF Process, Phases, Ops, Shape
    <3>3. proc' = [proc EXCEPT ![p] = me]
      BY <2>3 DEF TypeOK
    <3> QED
      BY <3>2, <3>3, UpdateTyped
  <2> QED
    BY <2>1, <2>2, <2>3 DEF FindActive
<1> QED
  BY <1>3 DEF FindActive, TypeOK, dbVars, ctVars

LEMMA FetchTyped ==
  ASSUME IInv, NEW p \in Procs, FetchRecord(p)
  PROVE  IInv'
<1> USE DEF IInv
<1> DEFINE row == records[proc[p].target]
           me  == [proc[p] EXCEPT !.copy = row, !.pc = "update"]
<1>1. proc[p] \in Process /\ Shape(p, proc[p]) /\ proc[p].pc = "fetch"
  BY DEF FetchRecord, TypeOK, PhasesOK, WellFormed
<1>2. row \in Row
  BY <1>1 DEF Shape, TypeOK
<1>3. CASE proc' = [proc EXCEPT ![p].copy = row, ![p].pc = "update"]
  <2>1. me \in Process /\ Shape(p, me)
    BY <1>1, <1>2 DEF Process, Phases, Shape
  <2>2. proc' = [proc EXCEPT ![p] = me]
    BY <1>3 DEF TypeOK
  <2>3. proc' \in [Procs -> Process] /\ PhasesOK'
    BY <2>1, <2>2, UpdateTyped
  <2> QED
    BY <2>3 DEF FetchRecord, TypeOK, dbVars, ctVars
<1>4. CASE Leave(p, "raised") \/ Leave(p, "done")
  <2>1. proc' \in [Procs -> Process] /\ PhasesOK'
    BY <1>1, <1>4, LeaveType
  <2> QED
    BY <2>1 DEF FetchRecord, TypeOK, dbVars, ctVars
<1> QED
  BY <1>3, <1>4 DEF FetchRecord

LEMMA LockTyped ==
  ASSUME IInv, NEW p \in Procs, LockRow(p)
  PROVE  IInv'
<1> USE DEF IInv
<1> DEFINE row == FirstTransition(proc[p].op, proc[p].copy, proc[p].task.ver)
           me  == [proc[p] EXCEPT !.pc = "driver", !.copy = row]
<1>1. proc[p] \in Process /\ Shape(p, proc[p]) /\ proc[p].pc = "update"
  BY DEF LockRow, TypeOK, PhasesOK, WellFormed
<1>2. proc[p].task.ver \in Versions \cup {""}
  <2>1. proc[p].task \in Messages \cup {NoTask} \cup RollbackCalls
    BY <1>1 DEF Process
  <2>2. \A call \in RollbackCalls : call.ver \in Versions
    BY DEF RollbackCalls
  <2>3. NoTask.ver = ""
    BY DEF NoTask
  <2> QED
    BY <2>1, <2>2, <2>3, MessageFields
<1>3. row \in Row
  BY <1>1, <1>2, FirstTransitionType DEF Process, Shape
<1>4. me \in Process /\ Shape(p, me)
  <2> HIDE DEF row
  <2> QED
    BY <1>1, <1>3 DEF Process, Phases, Shape
<1>5. proc' = [proc EXCEPT ![p] = me]
  BY DEF LockRow, TypeOK
<1>6. proc' \in [Procs -> Process] /\ PhasesOK'
  BY <1>4, <1>5, UpdateTyped
<1>7. rowLock' \in [Ids -> Procs \cup {None}]
  BY DEF LockRow, TypeOK
<1> QED
  BY <1>6, <1>7 DEF LockRow, TypeOK, dbVars, ctVars

(* Steps of the driver's phase change the instance and the phase only.     *)
LEMMA DriverPhase ==
  ASSUME IInv, NEW p \in Procs, proc[p].pc = "driver",
         NEW phase \in {"driver", "commit"}, NEW row \in Row,
         proc' = [proc EXCEPT ![p] = [proc[p] EXCEPT !.copy = row, !.pc = phase]]
  PROVE  proc' \in [Procs -> Process] /\ PhasesOK'
<1> DEFINE me == [proc[p] EXCEPT !.copy = row, !.pc = phase]
<1>1. proc[p] \in Process /\ Shape(p, proc[p])
  BY DEF IInv, TypeOK, PhasesOK, WellFormed
<1>2. me \in Process /\ Shape(p, me)
  BY <1>1 DEF Process, Phases, Shape
<1> QED
  BY <1>2, UpdateTyped DEF IInv

LEMMA StageTyped ==
  ASSUME IInv, NEW p \in Procs,
         NextStage(p) \/ StartContainer(p) \/ StopContainer(p)
  PROVE  IInv'
<1>1. proc[p].copy \in Row /\ proc[p] \in Process /\ proc[p].pc = "driver"
  BY DEF IInv, TypeOK, Process, NextStage, StartContainer, StopContainer
<1>2. CASE NextStage(p)
  <2> DEFINE status == proc[p].copy.status
             row    == [proc[p].copy EXCEPT !.status = NextStatus[status]]
             phase  == IF status = "STOPPED" THEN "commit" ELSE "driver"
  <2>1. NextStatus[status] \in Statuses
    BY <1>2 DEF NextStage, NextStatus, Statuses
  <2>2. row \in Row
    BY <1>1, <2>1 DEF Row
  <2>3. proc' = [proc EXCEPT ![p] = [proc[p] EXCEPT !.copy = row, !.pc = phase]]
    BY <1>1, <1>2 DEF NextStage, IInv, TypeOK, Process
  <2>4. proc' \in [Procs -> Process] /\ PhasesOK'
    BY <1>1, <2>2, <2>3, DriverPhase
  <2> QED
    BY <1>2, <2>4 DEF NextStage, IInv, TypeOK, dbVars, ctVars
<1>3. CASE StartContainer(p)
  <2> DEFINE row == [proc[p].copy EXCEPT !.status = "RUNNING", !.container = containers + 1]
  <2>1. containers + 1 \in Nat /\ live \cup {containers + 1} \subseteq 1..(containers + 1)
    <3>1. containers \in Nat /\ live \subseteq 1..containers
      BY DEF IInv, TypeOK
    <3> QED
      BY <3>1
  <2>2. row \in Row
    BY <1>1, <2>1 DEF Row, Statuses
  <2>3. proc' = [proc EXCEPT ![p] = [proc[p] EXCEPT !.copy = row, !.pc = "commit"]]
    BY <1>1, <1>3 DEF StartContainer, IInv, TypeOK, Process
  <2>4. proc' \in [Procs -> Process] /\ PhasesOK'
    BY <1>1, <2>2, <2>3, DriverPhase
  <2> QED
    BY <1>3, <2>1, <2>4 DEF StartContainer, IInv, TypeOK, dbVars
<1>4. CASE StopContainer(p)
  <2> DEFINE row == [proc[p].copy EXCEPT !.status = "STOPPED"]
  <2>1. row \in Row
    BY <1>1 DEF Row, Statuses
  <2>2. proc' = [proc EXCEPT ![p] = [proc[p] EXCEPT !.copy = row, !.pc = "driver"]]
    BY <1>1, <1>4 DEF StopContainer, IInv, TypeOK, Process
  <2>3. proc' \in [Procs -> Process] /\ PhasesOK'
    BY <1>1, <2>1, <2>2, DriverPhase
  <2> QED
    BY <1>4, <2>3 DEF StopContainer, IInv, TypeOK, dbVars
<1> QED
  BY <1>2, <1>3, <1>4

LEMMA FinishTyped ==
  ASSUME IInv, NEW p \in Procs, Commit(p) \/ RetryTask(p) \/ Acknowledge(p)
  PROVE  IInv'
<1> USE DEF IInv
<1>1. CASE Commit(p)
  <2>1. /\ proc[p].copy \in Row /\ proc[p].target \in Ids /\ proc[p].pc # "idle"
    BY <1>1 DEF Commit, TypeOK, Process, PhasesOK, WellFormed, Shape
  <2>2. proc' \in [Procs -> Process] /\ PhasesOK'
    BY <1>1, <2>1, LeaveType DEF Commit
  <2>3. records' \in [Ids -> Row]
    BY <1>1, <2>1 DEF Commit, TypeOK
  <2>4. subStatus' \in [Subs -> SubStatuses]
    BY <1>1 DEF Commit, TypeOK, SubStatuses
  <2>5. rowLock' \in [Ids -> Procs \cup {None}]
    BY <1>1, UnlockedType DEF Commit
  <2> QED
    BY <1>1, <2>2, <2>3, <2>4, <2>5 DEF Commit, TypeOK, ctVars
<1>2. CASE RetryTask(p)
  <2>1. proc[p].task \in Messages /\ proc[p].pc # "idle"
    BY <1>2 DEF RetryTask, PhasesOK, WellFormed, Shape
  <2>2. broker' \in [Messages -> Nat]
    BY <1>2, <2>1, RetriedMessage, SendType DEF RetryTask, TypeOK
  <2>3. proc' \in [Procs -> Process] /\ PhasesOK'
    BY <1>2, <2>1, LeaveType DEF RetryTask
  <2> QED
    BY <1>2, <2>2, <2>3 DEF RetryTask, TypeOK, dbVars, ctVars
<1>3. CASE Acknowledge(p)
  <2>1. proc' \in [Procs -> Process] /\ PhasesOK'
    BY <1>3, IdleType, UpdateTyped DEF Acknowledge, Shape, Idle
  <2> QED
    BY <1>3, <2>1 DEF Acknowledge, TypeOK, dbVars, ctVars
<1> QED
  BY <1>1, <1>2, <1>3

LEMMA StepTyped == IInv /\ [Next]_vars => IInv'
<1> SUFFICES ASSUME IInv, [Next]_vars PROVE IInv'
  OBVIOUS
<1>1. ASSUME NEW w \in Workers, NEW m \in Messages, Deliver(w, m) PROVE IInv'
  BY <1>1, DeliverTyped
<1>2. ASSUME NEW p \in Procs, Operate(p) PROVE IInv'
  BY <1>2, CreateTyped, InsertTyped, FindTyped, FetchTyped, LockTyped, StageTyped,
     FinishTyped DEF Operate
<1>3. CASE Environment
  BY <1>3, EnvironmentTyped
<1>4. CASE UNCHANGED vars
  BY <1>4 DEF vars, dbVars, ctVars, IInv, TypeOK, PhasesOK, WellFormed, Shape
<1> QED
  BY <1>1, <1>2, <1>3, <1>4 DEF Next

(* Every variable keeps its type, and every process the task, operation    *)
(* and target its phase calls for.                                         *)
THEOREM Typing == Spec => []IInv
<1> QED
  BY InitTyped, StepTyped, PTL DEF Spec

(* Every reachable state of the engine, its broker and its database is     *)
(* type correct.                                                           *)
THEOREM TypeCorrect == Spec => []TypeOK
<1>1. IInv => TypeOK
  BY DEF IInv
<1> QED
  BY <1>1, Typing, PTL

-----------------------------------------------------------------------------
(* A process that uses the driver holds its target's row lock: the first   *)
(* transition takes it, and every way out of the operation gives it back.  *)
LocksHeld == \A p \in Procs : UsesDriver(p) => rowLock[proc[p].target] = p

(* An operation that ends frees its own rows and nobody else's.            *)
LEMMA LeavingKeepsLocks ==
  ASSUME IInv, LocksHeld, NEW p \in Procs,
         rowLock' = Unlocked(p), NEW me, proc' = [proc EXCEPT ![p] = me],
         me.pc \notin {"driver", "commit"}
  PROVE  LocksHeld'
<1> SUFFICES ASSUME NEW q \in Procs, UsesDriver(q)'
             PROVE  rowLock'[proc'[q].target] = q
  BY DEF LocksHeld
<1>1. proc \in [Procs -> Process]
  BY DEF IInv, TypeOK
<1>2. q # p /\ proc'[q] = proc[q]
  BY <1>1 DEF UsesDriver
<1>3. proc[q].target \in Ids
  BY <1>1, <1>2 DEF UsesDriver, IInv, PhasesOK, WellFormed, Shape
<1>4. rowLock[proc[q].target] = q
  BY <1>2 DEF LocksHeld, UsesDriver
<1> QED
  BY <1>2, <1>3, <1>4 DEF Unlocked

LEMMA ElsewhereKeepsLocks ==
  ASSUME IInv, LocksHeld, NEW p \in Procs,
         rowLock' = rowLock, NEW me, proc' = [proc EXCEPT ![p] = me],
         me.pc \in {"driver", "commit"} => UsesDriver(p) /\ me.target = proc[p].target
  PROVE  LocksHeld'
BY DEF IInv, TypeOK, LocksHeld, UsesDriver

LEMMA LeaveIsUpdate ==
  ASSUME NEW p \in Procs, NEW phase \in {"raised", "done"}, Leave(p, phase)
  PROVE  /\ proc' = [proc EXCEPT ![p] = Left(p, phase)]
         /\ Left(p, phase).pc \notin {"driver", "commit"}
BY DEF Leave, Left, Idle

LEMMA LocksHeldStep ==
  ASSUME IInv, LocksHeld, [Next]_vars
  PROVE  LocksHeld'
<1>1. proc \in [Procs -> Process]
  BY DEF IInv, TypeOK
<1>2. CASE UNCHANGED <<proc, rowLock>>
  BY <1>2 DEF LocksHeld, UsesDriver
<1>3. ASSUME NEW w \in Workers, NEW m \in Messages, Deliver(w, m) PROVE LocksHeld'
  <2>1. w \in Procs /\ proc' = [proc EXCEPT ![w] = Entered(m)] /\ rowLock' = rowLock
    BY <1>3 DEF Deliver, Procs
  <2>2. FirstPhase[m.kind] \in {"create", "find", "fetch"}
    <3>1. m.kind \in TaskKinds
      BY MessageFields
    <3> QED
      BY <3>1 DEF FirstPhase, TaskKinds
  <2>3. Entered(m).pc \notin {"driver", "commit"}
    BY <2>2 DEF Entered, Idle
  <2> QED
    BY <2>1, <2>3, ElsewhereKeepsLocks
<1>4. ASSUME NEW p \in Procs, Operate(p) PROVE LocksHeld'
  <2>1. CASE CreateDeployment(p) \/ FindActive(p) \/ FetchRecord(p) \/ InsertRecord(p)
    <3>1. rowLock' = rowLock
      BY <2>1 DEF CreateDeployment, FindActive, FetchRecord, InsertRecord
    <3>2. CASE Leave(p, "raised") \/ Leave(p, "done")
      BY <3>1, <3>2, LeaveIsUpdate, ElsewhereKeepsLocks
    <3>3. CASE /\ CreateDeployment(p)
               /\ proc' = [proc EXCEPT ![p].copy = NewRow(proc[p].task),
                                       ![p].pc = IF infra THEN "insert" ELSE "insert_infra"]
      BY <1>1, <3>1, <3>3 DEF LocksHeld, UsesDriver, Process
    <3>4. CASE FindActive(p) /\ ~Leave(p, "done")
      <4>1. \A q \in Procs : proc'[q] # proc[q] => proc'[q].pc = "fetch"
        BY <1>1, <3>4 DEF FindActive, Process
      <4> QED
        BY <3>1, <4>1 DEF LocksHeld, UsesDriver
    <3>5. CASE FetchRecord(p) /\ ~(Leave(p, "raised") \/ Leave(p, "done"))
      <4>1. \A q \in Procs : proc'[q] # proc[q] => proc'[q].pc = "update"
        BY <1>1, <3>5 DEF FetchRecord, Process
      <4> QED
        BY <3>1, <4>1 DEF LocksHeld, UsesDriver
    <3>6. CASE InsertRecord(p) /\ ~Leave(p, "raised")
      <4> DEFINE me == Inserted(proc[p], created + 1)
      <4>1. proc' = [proc EXCEPT ![p] = me]
        BY <3>6 DEF InsertRecord
      <4>2. me.pc \in {"find", "fetch"}
        BY <1>1 DEF Inserted, Process
      <4> QED
        BY <3>1, <4>1, <4>2, ElsewhereKeepsLocks
    <3> QED
      BY <2>1, <3>2, <3>3, <3>4, <3>5, <3>6 DEF CreateDeployment
  <2>2. CASE LockRow(p)
    <3>1. /\ proc[p].target \in Ids /\ rowLock[proc[p].target] = None
          /\ rowLock' = [rowLock EXCEPT ![proc[p].target] = p]
          /\ rowLock \in [Ids -> Procs \cup {None}]
      BY <2>2 DEF LockRow, IInv, TypeOK, PhasesOK, WellFormed, Shape
    <3>2. proc'[p].target = proc[p].target /\ \A q \in Procs \ {p} : proc'[q] = proc[q]
      BY <1>1, <2>2 DEF LockRow, Process
    <3>3. \A q \in Procs \ {p} : UsesDriver(q) => proc[q].target # proc[p].target
      BY <3>1, ConstantsAssumption DEF LocksHeld
    <3> QED
      BY <3>1, <3>2, <3>3 DEF LocksHeld, UsesDriver
  <2>3. CASE NextStage(p) \/ StartContainer(p) \/ StopContainer(p)
    <3>1. /\ UsesDriver(p) /\ rowLock' = rowLock
          /\ proc'[p].target = proc[p].target
          /\ \A q \in Procs \ {p} : proc'[q] = proc[q]
      BY <1>1, <2>3 DEF NextStage, StartContainer, StopContainer, UsesDriver, Process
    <3> QED
      BY <3>1 DEF LocksHeld, UsesDriver
  <2>4. CASE Commit(p)
    BY <2>4, LeaveIsUpdate, LeavingKeepsLocks DEF Commit
  <2>5. CASE RetryTask(p)
    BY <2>5, LeaveIsUpdate, ElsewhereKeepsLocks DEF RetryTask
  <2>6. CASE Acknowledge(p)
    <3>1. rowLock' = rowLock /\ proc' = [proc EXCEPT ![p] = Idle]
      BY <2>6 DEF Acknowledge
    <3> QED
      BY <3>1, ElsewhereKeepsLocks DEF Idle
  <2> QED
    BY <1>4, <2>1, <2>2, <2>3, <2>4, <2>5, <2>6 DEF Operate
<1>5. CASE Environment
  <2>1. ASSUME NEW p \in Requests, NEW r \in Ids, NEW v \in Versions, RollbackRequest(p, r, v)
        PROVE  LocksHeld'
    <3>1. rowLock' = rowLock /\ \A q \in Procs : proc'[q] # proc[q] => proc'[q].pc = "update"
      BY <1>1, <2>1 DEF RollbackRequest, Process
    <3> QED
      BY <3>1 DEF LocksHeld, UsesDriver
  <2>2. ASSUME NEW p \in Procs, HandleFailure(p) PROVE LocksHeld'
    BY <2>2, LeaveIsUpdate, LeavingKeepsLocks DEF HandleFailure
  <2>3. ASSUME NEW p \in Procs, Crash(p) \/ Kill(p) PROVE LocksHeld'
    <3>1. rowLock' = Unlocked(p) /\ proc' = [proc EXCEPT ![p] = Idle]
      BY <2>3 DEF Crash, Kill
    <3> QED
      BY <3>1, LeavingKeepsLocks DEF Idle
  <2>4. Workers \subseteq Procs
    BY DEF Procs
  <2>5. CASE UNCHANGED <<proc, rowLock>>
    BY <1>2, <2>5
  <2> QED
    BY <1>5, <2>1, <2>2, <2>3, <2>4, <2>5
       DEF Environment, Install, InstallCommits, UninstallProduct, UpgradeProduct,
           ViewInfra, RetryRequest, HealthCheck
<1>6. CASE UNCHANGED vars
  BY <1>2, <1>6 DEF vars
<1> QED
  BY <1>3, <1>4, <1>5, <1>6 DEF Next

(* The driver is never called for one deployment by two processes at once. *)
THEOREM DriverIsExclusive == Spec => []DriverExclusion
<1>1. Init => LocksHeld
  BY DEF Init, Idle, LocksHeld, UsesDriver
<1>2. LocksHeld => DriverExclusion
  BY DEF LocksHeld, DriverExclusion
<1> QED
  BY <1>1, <1>2, Typing, LocksHeldStep, PTL DEF Spec

-----------------------------------------------------------------------------
(* Row r names container c, or an instance that may yet be saved to r does.*)
(* Each container is named for one row only, and the next one is not named.*)
Holds(p) == proc[p].pc \in {"update", "driver", "commit"}
Names(r, c) ==
  \/ records[r].container = c
  \/ \E p \in Procs : Holds(p) /\ proc[p].target = r /\ proc[p].copy.container = c

FreshRows ==
  \A p \in Procs : proc[p].pc \in {"insert", "insert_infra"} => proc[p].copy.container = 0
NamesApart ==
  \A c \in Nat \ {0} :
    /\ \A r \in Ids : Names(r, c) => c <= containers
    /\ \A r, q \in Ids : Names(r, c) /\ Names(q, c) => r = q

(* A step that starts no container and names nothing new.                  *)
LEMMA NothingNamed ==
  ASSUME NamesApart, containers' = containers,
         \A r \in Ids, c \in Nat \ {0} : Names(r, c)' => Names(r, c)
  PROVE  NamesApart'
<1> SUFFICES ASSUME NEW c \in Nat \ {0}
             PROVE  /\ \A r \in Ids : Names(r, c)' => c <= containers'
                    /\ \A r, q \in Ids : Names(r, c)' /\ Names(q, c)' => r = q
  BY DEF NamesApart
<1>1. /\ \A r \in Ids : Names(r, c) => c <= containers
      /\ \A r, q \in Ids : Names(r, c) /\ Names(q, c) => r = q
  BY DEF NamesApart
<1>2. \A r \in Ids : Names(r, c)' => Names(r, c)
  OBVIOUS
<1> QED
  BY <1>1, <1>2

(* A process's new instance is its old one, or the committed row.          *)
LEMMA InstanceKept ==
  ASSUME IInv, NamesApart, UNCHANGED <<records, containers>>,
         NEW p \in Procs, NEW me, proc' = [proc EXCEPT ![p] = me],
         me.pc \in {"update", "driver", "commit"} =>
           \/ Holds(p) /\ me.target = proc[p].target
                       /\ me.copy.container = proc[p].copy.container
           \/ me.copy.container = records[me.target].container
  PROVE  NamesApart'
<1>1. proc \in [Procs -> Process]
  BY DEF IInv, TypeOK
<1>2. ASSUME NEW r \in Ids, NEW c \in Nat \ {0}, Names(r, c)' PROVE Names(r, c)
  <2>1. CASE records'[r].container = c
    BY <2>1 DEF Names
  <2>2. ASSUME NEW q \in Procs, Holds(q)', proc'[q].target = r, proc'[q].copy.container = c
        PROVE  Names(r, c)
    <3>1. CASE q = p
      BY <1>1, <2>2, <3>1 DEF Names, Holds
    <3>2. CASE q # p
      BY <1>1, <2>2, <3>2 DEF Names, Holds
    <3> QED
      BY <3>1, <3>2
  <2> QED
    BY <1>2, <2>1, <2>2 DEF Names
<1> QED
  BY <1>2, NothingNamed

(* A process saves its instance to the row it came from, and is done.      *)
LEMMA InstanceSaved ==
  ASSUME IInv, NamesApart, containers' = containers,
         NEW p \in Procs, Holds(p), NEW row, row.container = proc[p].copy.container,
         records' = [records EXCEPT ![proc[p].target] = row],
         NEW me, proc' = [proc EXCEPT ![p] = me], me.pc \notin {"update", "driver", "commit"}
  PROVE  NamesApart'
<1>1. proc \in [Procs -> Process] /\ records \in [Ids -> Row]
  BY DEF IInv, TypeOK
<1>2. ASSUME NEW r \in Ids, NEW c \in Nat \ {0}, Names(r, c)' PROVE Names(r, c)
  <2>1. CASE records'[r].container = c
    BY <1>1, <2>1 DEF Names
  <2>2. ASSUME NEW q \in Procs, Holds(q)', proc'[q].target = r, proc'[q].copy.container = c
        PROVE  Names(r, c)
    <3>1. q # p /\ proc'[q] = proc[q]
      BY <1>1, <2>2 DEF Holds
    <3> QED
      BY <2>2, <3>1 DEF Names, Holds
  <2> QED
    BY <1>2, <2>1, <2>2 DEF Names
<1> QED
  BY <1>2, NothingNamed

LEMMA StartNamesFresh ==
  ASSUME IInv, NamesApart, NEW p \in Procs, StartContainer(p)
  PROVE  NamesApart'
<1> DEFINE new == containers + 1
<1>1. /\ proc \in [Procs -> Process] /\ containers \in Nat /\ proc[p].target \in Ids
      /\ proc[p].copy \in Row
  BY DEF IInv, TypeOK, PhasesOK, WellFormed, Shape, StartContainer, Process
<1>2. /\ records' = records /\ containers' = new /\ proc'[p].target = proc[p].target
      /\ proc'[p].copy.container = new
      /\ \A q \in Procs \ {p} : proc'[q] = proc[q]
  <2> DEFINE row == [proc[p].copy EXCEPT !.status = "RUNNING", !.container = new]
             me  == [proc[p] EXCEPT !.copy = row, !.pc = "commit"]
  <2>1. proc[p] \in Process
    BY <1>1
  <2>2. row.container = new
    BY <1>1 DEF Row
  <2>3. me.target = proc[p].target /\ me.copy = row
    BY <2>1 DEF Process
  <2>4. proc' = [proc EXCEPT ![p] = me]
    BY <1>1, <2>1 DEF StartContainer, Process
  <2>5. records' = records /\ containers' = new
    BY DEF StartContainer, dbVars
  <2> HIDE DEF me, row, new
  <2> QED
    BY <1>1, <2>2, <2>3, <2>4, <2>5
<1>3. ASSUME NEW r \in Ids, NEW c \in Nat \ {0}, Names(r, c)'
      PROVE  Names(r, c) \/ (c = new /\ r = proc[p].target)
  <2>1. CASE records'[r].container = c
    BY <1>2, <2>1 DEF Names
  <2>2. ASSUME NEW q \in Procs, Holds(q)', proc'[q].target = r, proc'[q].copy.container = c
        PROVE  Names(r, c) \/ (c = new /\ r = proc[p].target)
    BY <1>2, <2>2 DEF Names, Holds
  <2> QED
    BY <1>3, <2>1, <2>2 DEF Names
<1>4. \A r \in Ids : ~Names(r, new)
  <2>1. new \in Nat \ {0} /\ ~(new <= containers)
    BY <1>1
  <2> HIDE DEF new
  <2> QED
    BY <2>1 DEF NamesApart
<1> SUFFICES ASSUME NEW c \in Nat \ {0}
             PROVE  /\ \A r \in Ids : Names(r, c)' => c <= containers'
                    /\ \A r, q \in Ids : Names(r, c)' /\ Names(q, c)' => r = q
  BY DEF NamesApart
<1>5. CASE c = new
  <2>1. \A r \in Ids : Names(r, c)' => r = proc[p].target
    BY <1>3, <1>4, <1>5
  <2>2. c <= containers'
    BY <1>1, <1>2, <1>5
  <2> QED
    BY <2>1, <2>2
<1>6. CASE c # new
  <2>1. \A r \in Ids : Names(r, c)' => Names(r, c)
    BY <1>3, <1>6
  <2>2. c <= containers => c <= containers'
    BY <1>1, <1>2
  <2> QED
    BY <2>1, <2>2 DEF NamesApart
<1> QED
  BY <1>5, <1>6

LEMMA FreshKept ==
  ASSUME IInv, FreshRows, NEW p \in Procs, NEW me, proc' = [proc EXCEPT ![p] = me],
         me.pc \in {"insert", "insert_infra"} => me.copy.container = 0
  PROVE  FreshRows'
BY DEF IInv, TypeOK, FreshRows

LEMMA LeftHoldsNothing ==
  ASSUME NEW p \in Procs, NEW phase \in {"raised", "done"}
  PROVE  /\ Left(p, phase).pc \in {"idle", "raised", "done"}
         /\ Idle.pc = "idle"
BY DEF Left, Idle

LEMMA ContainersStep ==
  ASSUME IInv, NamesApart, FreshRows, [Next]_vars
  PROVE  NamesApart' /\ FreshRows'
<1>1. proc \in [Procs -> Process] /\ records \in [Ids -> Row]
  BY DEF IInv, TypeOK
<1>2. CASE UNCHANGED <<proc, records, containers>>
  BY <1>2 DEF NamesApart, Names, Holds, FreshRows
<1>3. ASSUME UNCHANGED <<records, containers>>, NEW p \in Procs, NEW me,
             proc' = [proc EXCEPT ![p] = me],
             me.pc \in {"idle", "create", "find", "fetch", "raised", "done"}
      PROVE  NamesApart' /\ FreshRows'
  BY <1>3, InstanceKept, FreshKept
<1>4. ASSUME UNCHANGED <<records, containers>>, NEW p \in Procs,
             NEW phase \in {"raised", "done"}, Leave(p, phase)
      PROVE  NamesApart' /\ FreshRows'
  BY <1>3, <1>4, LeftHoldsNothing DEF Leave
<1>5. ASSUME NEW w \in Workers, NEW m \in Messages, Deliver(w, m)
      PROVE  NamesApart' /\ FreshRows'
  <2>1. /\ w \in Procs /\ proc' = [proc EXCEPT ![w] = Entered(m)]
        /\ UNCHANGED <<records, containers>>
    BY <1>5 DEF Deliver, Procs, dbVars, ctVars
  <2>2. m.kind \in TaskKinds
    BY MessageFields
  <2>3. FirstPhase[m.kind] \in {"create", "find", "fetch"}
    BY <2>2 DEF FirstPhase, TaskKinds
  <2>4. Entered(m).pc \in {"create", "find", "fetch"}
    BY <2>3 DEF Entered, Idle
  <2> QED
    BY <1>3, <2>1, <2>4
<1>6. ASSUME NEW p \in Procs, Operate(p) PROVE NamesApart' /\ FreshRows'
  <2> DEFINE me == proc[p]
  <2>1. CASE CreateDeployment(p)
    <3>1. UNCHANGED <<records, containers>>
      BY <2>1 DEF CreateDeployment, dbVars, ctVars
    <3>2. ASSUME NEW phase \in {"insert", "insert_infra"},
                 proc' = [proc EXCEPT ![p].copy = NewRow(me.task), ![p].pc = phase]
          PROVE  NamesApart' /\ FreshRows'
      <4> DEFINE new == [me EXCEPT !.copy = NewRow(me.task), !.pc = phase]
      <4>1. proc' = [proc EXCEPT ![p] = new]
        BY <1>1, <3>2
      <4>2. new.pc = phase /\ new.copy = NewRow(me.task)
        BY <1>1 DEF Process
      <4>3. NewRow(me.task).container = 0
        BY DEF NewRow, NoRow
      <4> HIDE DEF new
      <4> QED
        BY <3>1, <4>1, <4>2, <4>3, InstanceKept, FreshKept
    <3> QED
      BY <1>4, <2>1, <3>1, <3>2 DEF CreateDeployment
  <2>2. CASE InsertRecord(p)
    <3>1. CASE Leave(p, "raised") /\ UNCHANGED records
      BY <1>4, <2>2, <3>1 DEF InsertRecord, ctVars
    <3>2. CASE /\ records' = [records EXCEPT ![created + 1] = me.copy]
               /\ proc' = [proc EXCEPT ![p] = Inserted(@, created + 1)]
      <4>1. Inserted(me, created + 1).pc \in {"find", "fetch"}
        BY <1>1 DEF Inserted, Process
      <4>2. me.copy.container = 0 /\ containers' = containers
        BY <2>2 DEF InsertRecord, FreshRows, ctVars
      <4>3. ASSUME NEW r \in Ids, NEW c \in Nat \ {0}, Names(r, c)' PROVE Names(r, c)
        <5>1. CASE records'[r].container = c
          BY <1>1, <3>2, <4>2, <5>1 DEF Names
        <5>2. ASSUME NEW q \in Procs, Holds(q)', proc'[q].target = r,
                     proc'[q].copy.container = c
              PROVE  Names(r, c)
          <6>1. q # p /\ proc'[q] = proc[q]
            BY <1>1, <3>2, <4>1, <5>2 DEF Holds
          <6> QED
            BY <5>2, <6>1 DEF Names, Holds
        <5> QED
          BY <4>3, <5>1, <5>2 DEF Names
      <4>4. NamesApart'
        BY <4>2, <4>3, NothingNamed
      <4>5. FreshRows'
        BY <3>2, <4>1, FreshKept
      <4> QED
        BY <4>4, <4>5
    <3> QED
      BY <2>2, <3>1, <3>2 DEF InsertRecord
  <2>3. CASE FindActive(p)
    <3>1. UNCHANGED <<records, containers>>
      BY <2>3 DEF FindActive, dbVars, ctVars
    <3>2. CASE proc' = [proc EXCEPT ![p].pc = "fetch", ![p].op = "execute"]
      <4>1. proc' = [proc EXCEPT ![p] = [me EXCEPT !.pc = "fetch", !.op = "execute"]]
        BY <1>1, <3>2
      <4>2. [me EXCEPT !.pc = "fetch", !.op = "execute"].pc = "fetch"
        BY <1>1 DEF Process
      <4> QED
        BY <1>3, <3>1, <4>1, <4>2
    <3>3. ASSUME NEW r \in ActiveDeployment(me.task.arg),
                 proc' = [proc EXCEPT ![p].pc = "fetch", ![p].op = me.task.kind,
                                      ![p].target = r]
          PROVE  NamesApart' /\ FreshRows'
      <4> DEFINE new == [me EXCEPT !.pc = "fetch", !.op = me.task.kind, !.target = r]
      <4>1. proc' = [proc EXCEPT ![p] = new]
        BY <1>1, <3>3
      <4>2. new.pc = "fetch"
        BY <1>1 DEF Process
      <4> HIDE DEF new
      <4> QED
        BY <1>3, <3>1, <4>1, <4>2
    <3> QED
      BY <1>4, <2>3, <3>1, <3>2, <3>3 DEF FindActive
  <2>4. CASE FetchRecord(p)
    <3>1. UNCHANGED <<records, containers>>
      BY <2>4 DEF FetchRecord, dbVars, ctVars
    <3>2. CASE proc' = [proc EXCEPT ![p].copy = records[me.target], ![p].pc = "update"]
      <4> DEFINE new == [me EXCEPT !.copy = records[me.target], !.pc = "update"]
      <4>1. proc' = [proc EXCEPT ![p] = new]
        BY <1>1, <3>2
      <4>2. new.pc = "update" /\ new.copy = records[me.target] /\ new.target = me.target
        BY <1>1 DEF Process
      <4> HIDE DEF new
      <4> QED
        BY <3>1, <4>1, <4>2, InstanceKept, FreshKept
    <3> QED
      BY <1>4, <2>4, <3>1, <3>2 DEF FetchRecord
  <2>5. ASSUME UNCHANGED <<records, containers>>, Holds(p), NEW row,
               row.container = me.copy.container, NEW phase \in {"driver", "commit"},
               proc' = [proc EXCEPT ![p] = [me EXCEPT !.copy = row, !.pc = phase]]
        PROVE  NamesApart' /\ FreshRows'
    <3> DEFINE new == [me EXCEPT !.copy = row, !.pc = phase]
    <3>1. new.pc = phase /\ new.copy = row /\ new.target = me.target
      BY <1>1 DEF Process
    <3>2. proc' = [proc EXCEPT ![p] = new]
      BY <2>5
    <3> HIDE DEF new
    <3> QED
      BY <2>5, <3>1, <3>2, InstanceKept, FreshKept
  <2>6. CASE LockRow(p)
    <3> DEFINE row == FirstTransition(me.op, me.copy, me.task.ver)
    <3>1. me.copy \in Row /\ me.op \in {"execute", "upgrade", "rollback", "decommission"}
      BY <2>6 DEF LockRow, IInv, TypeOK, Process, PhasesOK, WellFormed, Shape
    <3>2. me.task.ver \in Versions \cup {""}
      <4>1. me.task \in Messages \cup {NoTask} \cup RollbackCalls
        BY <1>1 DEF Process
      <4>2. \A call \in RollbackCalls : call.ver \in Versions
        BY DEF RollbackCalls
      <4>3. NoTask.ver = ""
        BY DEF NoTask
      <4> QED
        BY <4>1, <4>2, <4>3, MessageFields
    <3>3. row.container = me.copy.container
      BY <3>1, <3>2, FirstTransitionType
    <3>4. proc' = [proc EXCEPT ![p] = [me EXCEPT !.copy = row, !.pc = "driver"]]
      BY <1>1, <2>6 DEF LockRow
    <3>5. UNCHANGED <<records, containers>> /\ Holds(p)
      BY <2>6 DEF LockRow, Holds, dbVars, ctVars
    <3> HIDE DEF row
    <3> QED
      BY <2>5, <3>3, <3>4, <3>5
  <2>7. CASE NextStage(p)
    <3> DEFINE status == me.copy.status
               row    == [me.copy EXCEPT !.status = NextStatus[status]]
               phase  == IF status = "STOPPED" THEN "commit" ELSE "driver"
    <3>0. me \in Process /\ me.copy \in Row
      BY <1>1 DEF Process
    <3>1. proc' = [proc EXCEPT ![p] = [me EXCEPT !.copy = row, !.pc = phase]]
      BY <1>1, <3>0, <2>7 DEF NextStage, Process
    <3>2. row.container = me.copy.container
      BY <3>0 DEF Row
    <3>3. UNCHANGED <<records, containers>> /\ Holds(p)
      BY <2>7 DEF NextStage, Holds, dbVars, ctVars
    <3>4. phase \in {"driver", "commit"}
      OBVIOUS
    <3> HIDE DEF row, phase
    <3> QED
      BY <2>5, <3>1, <3>2, <3>3, <3>4
  <2>8. CASE StopContainer(p)
    <3> DEFINE row == [me.copy EXCEPT !.status = "STOPPED"]
    <3>0. me \in Process /\ me.copy \in Row
      BY <1>1 DEF Process
    <3>1. proc' = [proc EXCEPT ![p] = [me EXCEPT !.copy = row, !.pc = "driver"]]
      BY <1>1, <3>0, <2>8 DEF StopContainer, Process
    <3>2. row.container = me.copy.container
      BY <3>0 DEF Row
    <3>3. UNCHANGED <<records, containers>> /\ Holds(p)
      BY <2>8 DEF StopContainer, Holds, dbVars
    <3> HIDE DEF row
    <3> QED
      BY <2>5, <3>1, <3>2, <3>3
  <2>9. CASE StartContainer(p)
    <3>1. NamesApart'
      BY <2>9, StartNamesFresh
    <3>2. \A q \in Procs : proc'[q] # proc[q] => proc'[q].pc = "commit"
      BY <1>1, <2>9 DEF StartContainer, Process
    <3> QED
      BY <3>1, <3>2 DEF FreshRows
  <2>10. CASE Commit(p)
    <3>1. /\ Holds(p) /\ containers' = containers
          /\ records' = [records EXCEPT ![me.target] = me.copy]
          /\ proc' = [proc EXCEPT ![p] = Left(p, "done")]
      BY <2>10 DEF Commit, Leave, Holds, ctVars
    <3> QED
      BY <3>1, LeftHoldsNothing, InstanceSaved, FreshKept
  <2>11. CASE RetryTask(p)
    BY <1>4, <2>11 DEF RetryTask, dbVars, ctVars
  <2>12. CASE Acknowledge(p)
    BY <1>3, <2>12, LeftHoldsNothing DEF Acknowledge, dbVars, ctVars
  <2> QED
    BY <1>6, <2>1, <2>2, <2>3, <2>4, <2>6, <2>7, <2>8, <2>9, <2>10, <2>11, <2>12 DEF Operate
<1>7. CASE Environment
  <2>1. ASSUME NEW p \in Requests, NEW r \in Ids, NEW v \in Versions, RollbackRequest(p, r, v)
        PROVE  NamesApart' /\ FreshRows'
    <3> DEFINE me == [pc |-> "update", op |-> "rollback", target |-> r, copy |-> records[r],
                      task |-> [kind |-> "rollback", arg |-> r, ver |-> v, tries |-> 0]]
    <3>1. /\ p \in Procs /\ proc' = [proc EXCEPT ![p] = me]
          /\ UNCHANGED <<records, containers>>
      BY <2>1 DEF RollbackRequest, Procs, dbVars, ctVars
    <3>2. me.pc = "update" /\ me.copy.container = records[me.target].container
      OBVIOUS
    <3> HIDE DEF me
    <3> QED
      BY <3>1, <3>2, InstanceKept, FreshKept
  <2>2. ASSUME NEW p \in Procs, HandleFailure(p) PROVE NamesApart' /\ FreshRows'
    <3> DEFINE row == Failed(proc[p].copy)
    <3>1. Holds(p) /\ containers' = containers /\ proc[p].copy \in Row
      BY <1>1, <2>2 DEF HandleFailure, Holds, ctVars, Process
    <3>2. row.container = proc[p].copy.container
      BY <3>1 DEF Failed, Row
    <3>3. CASE Leave(p, "raised") /\ UNCHANGED records
      BY <1>4, <3>1, <3>3
    <3>4. CASE /\ Leave(p, "done")
               /\ records' = [records EXCEPT ![proc[p].target] = row]
      <4>1. proc' = [proc EXCEPT ![p] = Left(p, "done")]
        BY <3>4 DEF Leave
      <4> HIDE DEF row
      <4> QED
        BY <3>1, <3>2, <3>4, <4>1, LeftHoldsNothing, InstanceSaved, FreshKept
    <3> QED
      BY <2>2, <3>3, <3>4 DEF HandleFailure
  <2>3. ASSUME NEW p \in Procs, Crash(p) \/ Kill(p) PROVE NamesApart' /\ FreshRows'
    BY <1>3, <2>3, LeftHoldsNothing DEF Crash, Kill, dbVars, ctVars
  <2>4. Workers \subseteq Procs
    BY DEF Procs
  <2>5. CASE UNCHANGED <<proc, records, containers>>
    BY <1>2, <2>5
  <2> QED
    BY <1>7, <2>1, <2>2, <2>3, <2>4, <2>5
       DEF Environment, Install, InstallCommits, UninstallProduct, UpgradeProduct,
           ViewInfra, RetryRequest, HealthCheck, dbVars, ctVars
<1>8. CASE UNCHANGED vars
  BY <1>2, <1>8 DEF vars, dbVars, ctVars
<1> QED
  BY <1>5, <1>6, <1>7, <1>8 DEF Next

(* The inductive invariant about names, on which other proofs rest too.    *)
THEOREM NamesStayApart == Spec => [](NamesApart /\ FreshRows)
<1>1. Init => NamesApart /\ FreshRows
  <2> SUFFICES ASSUME Init PROVE NamesApart /\ FreshRows
    OBVIOUS
  <2>1. \A p \in Procs : proc[p].pc = "idle"
    BY DEF Init, Idle
  <2>2. \A r \in Ids : records[r].container = 0
    BY DEF Init, NoRow
  <2>3. \A r \in Ids, c \in Nat \ {0} : ~Names(r, c)
    BY <2>1, <2>2 DEF Names, Holds
  <2> QED
    BY <2>1, <2>3 DEF NamesApart, FreshRows
<1> QED
  BY <1>1, Typing, ContainersStep, PTL DEF Spec

(* No two deployments ever name the same container: not even when a stale  *)
(* instance is saved over a newer row.                                     *)
THEOREM ContainersStayApart == Spec => []ContainersNotShared
<1>1. IInv /\ NamesApart => ContainersNotShared
  <2> SUFFICES ASSUME IInv, NamesApart, NEW r \in Ids, NEW q \in Ids, r # q,
                      records[r].container # 0
               PROVE  records[r].container # records[q].container
    BY DEF ContainersNotShared
  <2>1. records[r].container \in Nat \ {0}
    BY DEF IInv, TypeOK, Row
  <2> QED
    BY <2>1 DEF NamesApart, Names
<1> QED
  BY <1>1, Typing, NamesStayApart, PTL
=============================================================================
