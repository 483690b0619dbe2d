----------------------- MODULE DeploymentPromisesProofs -----------------------
(***************************************************************************)
(* What DeploymentEngine keeps of its promises across operations, for every*)
(* value of its constants: an ACTIVE subscription was deployed, a RUNNING  *)
(* deployment is up, and the retry of a failed one is never lost.          *)
(***************************************************************************)
EXTENDS DeploymentRowsProofs, DeploymentClaims

-----------------------------------------------------------------------------
(* What a step of one process does to that process.                        *)
Elsewhere(p) == \A q \in Procs \ {p} : proc'[q] = proc[q]

LEMMA Moves ==
  ASSUME IInv, NEW p \in Procs, NEW me, proc' = [proc EXCEPT ![p] = me]
  PROVE  proc'[p] = me /\ Elsewhere(p)
BY DEF IInv, TypeOK, Elsewhere

LEMMA Leaves ==
  ASSUME IInv, NEW p \in Procs, NEW phase \in {"raised", "done"}, Leave(p, phase)
  PROVE  proc'[p].pc \in {"idle", "raised", "done"} /\ Elsewhere(p)
BY LeftHoldsNothing, Moves DEF Leave

LEMMA Stops ==
  ASSUME IInv, NEW p \in Procs, Crash(p) \/ Kill(p) \/ Acknowledge(p)
  PROVE  proc'[p].pc = "idle" /\ Elsewhere(p)
BY LeftHoldsNothing, Moves DEF Crash, Kill, Acknowledge

(* An operation in its transaction goes on with the same row.              *)
Continues(p) ==
  /\ proc[p].pc \in {"update", "driver"} /\ proc'[p].pc \in {"driver", "commit"}
  /\ proc'[p].task = proc[p].task /\ proc'[p].op = proc[p].op
  /\ proc'[p].target = proc[p].target
  /\ proc'[p].copy.sub = proc[p].copy.sub /\ proc'[p].copy.retries = proc[p].copy.retries
  /\ Elsewhere(p)
  /\ UNCHANGED <<records, created, broker, subStatus, failedRuns, used>>

LEMMA CopyReplaced ==
  ASSUME IInv, NEW p \in Procs, NEW row, NEW phase \in {"driver", "commit"},
         row.sub = proc[p].copy.sub, row.retries = proc[p].copy.retries,
         proc[p].pc \in {"update", "driver"},
         proc' = [proc EXCEPT ![p] = [proc[p] EXCEPT !.copy = row, !.pc = phase]],
         UNCHANGED <<records, created, broker, subStatus, failedRuns, used>>
  PROVE  Continues(p) /\ proc'[p].copy = row /\ proc'[p].pc = phase
<1> DEFINE me == [proc[p] EXCEPT !.copy = row, !.pc = phase]
<1>1. proc[p] \in Process
  BY DEF IInv, TypeOK
<1>2. /\ me.pc = phase /\ me.copy = row /\ me.task = proc[p].task /\ me.op = proc[p].op
      /\ me.target = proc[p].target
  BY <1>1 DEF Process
<1> HIDE DEF me
<1>3. proc'[p] = me /\ Elsewhere(p)
  BY Moves DEF me
<1> QED
  BY <1>2, <1>3 DEF Continues

LEMMA LockEffect ==
  ASSUME IInv, NEW p \in Procs, LockRow(p)
  PROVE  /\ Continues(p) /\ live' = live /\ proc'[p].pc = "driver"
         /\ proc'[p].copy.status \in {"PROVISIONING", "UPGRADING", "ROLLBACK", "STOPPING"}
         /\ proc'[p].copy.status = CASE proc[p].op = "execute"  -> "PROVISIONING"
                                     [] proc[p].op = "upgrade"  -> "UPGRADING"
                                     [] proc[p].op = "rollback" -> "ROLLBACK"
                                     [] proc[p].op = "decommission" -> "STOPPING"
<1> DEFINE me  == proc[p]
           row == FirstTransition(me.op, me.copy, me.task.ver)
<1>1. /\ proc \in [Procs -> Process] /\ me \in Process /\ me.copy \in Row
      /\ me.op \in {"execute", "upgrade", "rollback", "decommission"}
  BY DEF LockRow, IInv, TypeOK, Process, PhasesOK, WellFormed, Shape
<1>2. /\ row.status \in {"PROVISIONING", "UPGRADING", "ROLLBACK", "STOPPING"}
      /\ row.sub = me.copy.sub /\ row.retries = me.copy.retries
      /\ row.status = CASE me.op = "execute"  -> "PROVISIONING"
                        [] me.op = "upgrade"  -> "UPGRADING"
                        [] me.op = "rollback" -> "ROLLBACK"
                        [] me.op = "decommission" -> "STOPPING"
  BY <1>1 DEF FirstTransition, Row
<1>3. proc' = [proc EXCEPT ![p] = [me EXCEPT !.copy = row, !.pc = "driver"]]
  BY <1>1 DEF LockRow
<1>4. /\ me.pc = "update" /\ live' = live
      /\ UNCHANGED <<records, created, broker, subStatus, failedRuns, used>>
  BY DEF LockRow, dbVars, ctVars
<1> HIDE DEF row
<1> QED
  BY <1>2, <1>3, <1>4, CopyReplaced

LEMMA NextStageEffect ==
  ASSUME IInv, NEW p \in Procs, NextStage(p)
  PROVE  /\ Continues(p) /\ live' = live /\ proc[p].pc = "driver"
         /\ proc'[p].copy.status # "RUNNING"
         /\ proc[p].copy.status = "STOPPED" => proc'[p].copy.status = "DECOMMISSIONED"
         /\ proc[p].copy.status # "DECOMMISSIONED" /\ UNCHANGED rowLock
         /\ proc[p].copy.status \in DOMAIN NextStatus
         /\ proc'[p].copy.status = NextStatus[proc[p].copy.status]
         /\ proc'[p].pc = "commit" => proc[p].copy.status = "STOPPED"
<1> DEFINE me     == proc[p]
           status == me.copy.status
           row    == [me.copy EXCEPT !.status = NextStatus[status]]
           phase  == IF status = "STOPPED" THEN "commit" ELSE "driver"
<1>1. proc \in [Procs -> Process] /\ me \in Process /\ me.copy \in Row
  BY DEF IInv, TypeOK, Process
<1>2. /\ me.pc = "driver" /\ status \in DOMAIN NextStatus /\ live' = live
      /\ UNCHANGED <<records, created, broker, subStatus, failedRuns, used, rowLock>>
  BY DEF NextStage, dbVars, ctVars
<1>3. proc' = [proc EXCEPT ![p] = [me EXCEPT !.copy = row, !.pc = phase]]
  BY <1>1, <1>2 DEF NextStage, Process
<1>4. /\ row.status = NextStatus[status] /\ row.sub = me.copy.sub
      /\ row.retries = me.copy.retries
  BY <1>1 DEF Row
<1>5. /\ NextStatus[status] # "RUNNING" /\ status # "DECOMMISSIONED"
      /\ status = "STOPPED" => NextStatus[status] = "DECOMMISSIONED"
  BY <1>2 DEF NextStatus
<1>6. phase \in {"driver", "commit"} /\ (phase = "commit" => status = "STOPPED")
  OBVIOUS
<1> HIDE DEF row, phase
<1>7. Continues(p) /\ proc'[p].copy = row /\ proc'[p].pc = phase
  BY <1>2, <1>3, <1>4, <1>6, CopyReplaced
<1> QED
  BY <1>2, <1>4, <1>5, <1>6, <1>7

LEMMA StartEffect ==
  ASSUME IInv, NEW p \in Procs, StartContainer(p)
  PROVE  /\ Continues(p) /\ live \subseteq live'
         /\ proc[p].copy.status \in Starting /\ proc'[p].copy.container \in live'
         /\ proc'[p].copy.status = "RUNNING" /\ proc[p].pc = "driver" /\ UNCHANGED rowLock
<1> DEFINE me   == proc[p]
           next == containers + 1
           row  == [me.copy EXCEPT !.status = "RUNNING", !.container = next]
<1>1. proc \in [Procs -> Process] /\ me \in Process /\ me.copy \in Row
  BY DEF IInv, TypeOK, Process
<1>2. proc' = [proc EXCEPT ![p] = [me EXCEPT !.copy = row, !.pc = "commit"]]
  BY <1>1 DEF StartContainer, Process
<1>3. /\ row.container = next /\ row.sub = me.copy.sub /\ row.retries = me.copy.retries
      /\ row.status = "RUNNING"
  BY <1>1 DEF Row
<1>4. /\ me.pc = "driver" /\ me.copy.status \in Starting /\ live' = live \cup {next}
      /\ UNCHANGED <<records, created, broker, subStatus, failedRuns, used, rowLock>>
  BY DEF StartContainer, dbVars
<1> HIDE DEF row, next
<1>5. Continues(p) /\ proc'[p].copy = row
  BY <1>2, <1>3, <1>4, CopyReplaced
<1> QED
  BY <1>3, <1>4, <1>5

LEMMA StopEffect ==
  ASSUME IInv, NEW p \in Procs, StopContainer(p)
  PROVE  /\ Continues(p) /\ live' = live \ {proc[p].copy.container}
         /\ proc[p].pc = "driver" /\ proc'[p].copy.status = "STOPPED"
         /\ proc[p].copy.status = "STOPPING"
         /\ proc'[p].pc = "driver" /\ UNCHANGED rowLock
<1> DEFINE me  == proc[p]
           row == [me.copy EXCEPT !.status = "STOPPED"]
<1>1. proc \in [Procs -> Process] /\ me \in Process /\ me.copy \in Row
  BY DEF IInv, TypeOK, Process
<1>2. proc' = [proc EXCEPT ![p] = [me EXCEPT !.copy = row, !.pc = "driver"]]
  BY <1>1 DEF StopContainer, Process
<1>3. row.status = "STOPPED" /\ row.sub = me.copy.sub /\ row.retries = me.copy.retries
  BY <1>1 DEF Row
<1>4. /\ me.pc = "driver" /\ me.copy.status = "STOPPING"
      /\ live' = live \ {me.copy.container}
      /\ UNCHANGED <<records, created, broker, subStatus, failedRuns, used, rowLock>>
  BY DEF StopContainer, dbVars
<1> HIDE DEF row
<1>5. Continues(p) /\ proc'[p].copy = row /\ proc'[p].pc = "driver"
  BY <1>2, <1>3, <1>4, CopyReplaced
<1> QED
  BY <1>3, <1>4, <1>5

(* What is fetched to be decommissioned reads RUNNING.                     *)
Retirable(p) ==
  proc'[p].pc = "fetch" /\ proc'[p].op = "decommission" =>
    records[proc'[p].target].status = "RUNNING"

(* Before its transaction an operation touches no row but the one it adds. *)
Prepares(p) ==
  /\ proc[p].pc \in {"create", "find", "insert", "insert_infra"}
  /\ proc'[p].pc \in {"insert", "insert_infra", "find", "fetch", "idle", "raised", "done"}
  /\ proc[p].task.kind # "execute"
  /\ proc'[p].pc \in {"insert", "insert_infra", "find", "fetch"} =>
       proc'[p].task.kind # "execute"
  /\ Elsewhere(p)
  /\ UNCHANGED <<broker, subStatus, live, failedRuns, used>>

LEMMA Prepared ==
  ASSUME IInv, NEW p \in Procs,
         proc[p].pc \in {"create", "find", "insert", "insert_infra"},
         UNCHANGED <<broker, subStatus, live, failedRuns, used>>,
         \/ Leave(p, "raised") \/ Leave(p, "done")
         \/ /\ proc'[p].pc \in {"insert", "insert_infra", "find", "fetch"}
            /\ proc'[p].task = proc[p].task /\ Elsewhere(p)
  PROVE  Prepares(p)
<1>1. proc[p].task.kind # "execute"
  BY DEF IInv, PhasesOK, WellFormed, Shape
<1>2. CASE Leave(p, "raised") \/ Leave(p, "done")
  BY <1>1, <1>2, Leaves DEF Prepares
<1> QED
  BY <1>1, <1>2 DEF Prepares

LEMMA CreateEffect ==
  ASSUME IInv, NEW p \in Procs, CreateDeployment(p)
  PROVE  Prepares(p) /\ UNCHANGED <<records, created, rowLock>> /\ proc'[p].pc # "fetch"
<1>1. /\ proc[p].pc = "create"
      /\ UNCHANGED <<records, created, broker, subStatus, live, failedRuns, used, rowLock>>
  BY DEF CreateDeployment, dbVars, ctVars
<1>2. ASSUME NEW phase \in {"insert", "insert_infra"},
             proc' = [proc EXCEPT ![p].copy = NewRow(proc[p].task), ![p].pc = phase]
      PROVE  Prepares(p) /\ proc'[p].pc # "fetch"
  <2> DEFINE row == NewRow(proc[p].task)
             me  == [proc[p] EXCEPT !.copy = row, !.pc = phase]
  <2> HIDE DEF row
  <2>1. proc \in [Procs -> Process] /\ proc[p] \in Process
    BY DEF IInv, TypeOK
  <2>2. proc' = [proc EXCEPT ![p] = me]
    BY <1>2, <2>1 DEF row
  <2>3. me.pc = phase /\ me.task = proc[p].task
    BY <2>1 DEF Process
  <2> HIDE DEF me
  <2>4. proc'[p] = me /\ Elsewhere(p)
    BY <2>2, Moves
  <2> QED
    BY <1>1, <2>3, <2>4, Prepared
<1> QED
  BY <1>1, <1>2, Prepared, Leaves DEF CreateDeployment

LEMMA FindEffect ==
  ASSUME IInv, NEW p \in Procs, FindActive(p)
  PROVE  Prepares(p) /\ UNCHANGED <<records, created, rowLock>> /\ Retirable(p)
<1>1. /\ proc[p].pc = "find"
      /\ UNCHANGED <<records, created, broker, subStatus, live, failedRuns, used, rowLock>>
  BY DEF FindActive, dbVars, ctVars
<1>2. ASSUME NEW me, proc' = [proc EXCEPT ![p] = me], me.pc = "fetch",
             me.task = proc[p].task,
             me.op = "decommission" => records[me.target].status = "RUNNING"
      PROVE  Prepares(p) /\ Retirable(p)
  <2>1. proc'[p] = me /\ Elsewhere(p)
    BY <1>2, Moves
  <2> QED
    BY <1>1, <1>2, <2>1, Prepared DEF Retirable
<1>3. proc \in [Procs -> Process] /\ proc[p] \in Process
  BY DEF IInv, TypeOK
<1>4. CASE proc' = [proc EXCEPT ![p].pc = "fetch", ![p].op = "execute"]
  <2> DEFINE me == [proc[p] EXCEPT !.pc = "fetch", !.op = "execute"]
  <2>1. proc' = [proc EXCEPT ![p] = me]
    BY <1>3, <1>4
  <2>2. me.pc = "fetch" /\ me.task = proc[p].task /\ me.op = "execute"
    BY <1>3 DEF Process
  <2> HIDE DEF me
  <2> QED
    BY <1>1, <1>2, <2>1, <2>2
<1>5. ASSUME NEW r \in ActiveDeployment(proc[p].task.arg),
             proc' = [proc EXCEPT ![p].pc = "fetch", ![p].op = proc[p].task.kind,
                                  ![p].target = r]
      PROVE  Prepares(p) /\ Retirable(p)
  <2> DEFINE me == [proc[p] EXCEPT !.pc = "fetch", !.op = proc[p].task.kind, !.target = r]
  <2>1. proc' = [proc EXCEPT ![p] = me]
    BY <1>3, <1>5
  <2>2. me.pc = "fetch" /\ me.task = proc[p].task /\ me.target = r
    BY <1>3 DEF Process
  <2>3. records[r].status = "RUNNING"
    BY <1>5 DEF ActiveDeployment, RunningRows
  <2> HIDE DEF me
  <2> QED
    BY <1>2, <2>1, <2>2, <2>3
<1> QED
  BY <1>1, <1>4, <1>5, Prepared, Leaves DEF FindActive, Retirable

LEMMA InsertEffect ==
  ASSUME IInv, NEW p \in Procs, InsertRecord(p)
  PROVE  /\ Prepares(p) /\ created < MaxRecords /\ UNCHANGED rowLock
         /\ proc[p].pc \in {"insert", "insert_infra"}
         /\ proc'[p].pc = "fetch" => proc'[p].op = "execute"
         /\ \/ UNCHANGED <<records, created>>
            \/ /\ records' = [records EXCEPT ![created + 1] = proc[p].copy]
               /\ created' = created + 1
<1>1. /\ proc[p].pc \in {"insert", "insert_infra"} /\ created < MaxRecords
      /\ UNCHANGED <<broker, subStatus, live, failedRuns, used, rowLock>>
  BY DEF InsertRecord, ctVars
<1>2. CASE Leave(p, "raised") /\ UNCHANGED <<records, created>>
  BY <1>1, <1>2, Prepared, Leaves
<1>3. CASE /\ records' = [records EXCEPT ![created + 1] = proc[p].copy]
           /\ created' = created + 1
           /\ proc'    = [proc EXCEPT ![p] = Inserted(@, created + 1)]
  <2> DEFINE me == Inserted(proc[p], created + 1)
  <2>1. proc[p] \in Process
    BY DEF IInv, TypeOK
  <2>2. /\ me.pc \in {"find", "fetch"} /\ me.task = proc[p].task
        /\ me.pc = "fetch" => me.op = "execute"
    BY <2>1 DEF Inserted, Process
  <2>3. proc' = [proc EXCEPT ![p] = me]
    BY <1>3
  <2> HIDE DEF me
  <2>4. proc'[p] = me /\ Elsewhere(p)
    BY <2>3, Moves
  <2> QED
    BY <1>1, <1>3, <2>2, <2>4, Prepared
<1> QED
  BY <1>2, <1>3 DEF InsertRecord

(* get_by_id: the instance is the committed row, or the operation is over. *)
LEMMA FetchEffect ==
  ASSUME IInv, NEW p \in Procs, FetchRecord(p)
  PROVE  /\ proc[p].pc = "fetch" /\ Elsewhere(p)
         /\ UNCHANGED <<records, created, broker, subStatus, live, failedRuns, used, rowLock>>
         /\ \/ /\ records[proc[p].target].status \in Admitted[proc[p].op]
               /\ proc'[p].pc = "update" /\ proc'[p].copy = records[proc[p].target]
               /\ proc'[p].task = proc[p].task /\ proc'[p].op = proc[p].op
               /\ proc'[p].target = proc[p].target
            \/ /\ records[proc[p].target].status \notin Admitted[proc[p].op]
               /\ proc'[p].pc \in {"idle", "raised", "done"}
<1> DEFINE row == records[proc[p].target]
           op  == proc[p].op
<1>1. /\ proc[p].pc = "fetch"
      /\ UNCHANGED <<records, created, broker, subStatus, live, failedRuns, used, rowLock>>
  BY DEF FetchRecord, dbVars, ctVars
<1>2. CASE /\ row.status \in Admitted[op]
           /\ proc' = [proc EXCEPT ![p].copy = row, ![p].pc = "update"]
  <2> DEFINE me == [proc[p] EXCEPT !.copy = row, !.pc = "update"]
  <2>1. proc \in [Procs -> Process] /\ proc[p] \in Process
    BY DEF IInv, TypeOK
  <2>2. proc' = [proc EXCEPT ![p] = me]
    BY <1>2, <2>1
  <2>3. /\ me.pc = "update" /\ me.copy = row /\ me.task = proc[p].task
        /\ me.op = op /\ me.target = proc[p].target
    BY <2>1 DEF Process
  <2> HIDE DEF me
  <2>4. proc'[p] = me /\ Elsewhere(p)
    BY <2>2, Moves
  <2> QED
    BY <1>1, <1>2, <2>3, <2>4
<1>3. CASE row.status \notin Admitted[op] /\ (Leave(p, "done") \/ Leave(p, "raised"))
  BY <1>1, <1>3, Leaves
<1> QED
  BY <1>2, <1>3 DEF FetchRecord

(* The two ends of a transaction that write the row.                       *)
Saves(p, row) ==
  /\ proc[p].pc \in {"driver", "commit"} /\ proc'[p].pc \in {"idle", "raised", "done"}
  /\ proc[p].target \in Ids /\ proc[p].target <= created
  /\ records' = [records EXCEPT ![proc[p].target] = row]
  /\ row.sub = proc[p].copy.sub /\ row.status \in Settled \ {"QUEUED"}
  /\ Elsewhere(p)
  /\ UNCHANGED <<created, live>>

LEMMA CommitEffect ==
  ASSUME IInv, RowInv, NEW p \in Procs, Commit(p)
  PROVE  /\ Saves(p, proc[p].copy) /\ proc[p].pc = "commit"
         /\ UNCHANGED <<broker, failedRuns, used>> /\ rowLock' = Unlocked(p)
         /\ subStatus' = IF proc[p].op = "execute"
                         THEN [subStatus EXCEPT ![proc[p].copy.sub] = "ACTIVE"] ELSE subStatus
<1>1. proc[p].pc = "commit" /\ proc[p].target \in Ids
  BY DEF Commit, IInv, PhasesOK, WellFormed, Shape
<1>2. /\ proc[p].target <= created /\ Sound(proc[p].copy, live)
      /\ proc[p].copy.status # "QUEUED"
  BY <1>1 DEF RowInv, InstancesFit, Fits
<1>3. Leave(p, "done")
  BY DEF Commit
<1>4. proc'[p].pc \in {"idle", "raised", "done"} /\ Elsewhere(p)
  BY <1>3, Leaves
<1> QED
  BY <1>1, <1>2, <1>4 DEF Commit, Saves, Sound, ctVars

LEMMA FailureEffect ==
  ASSUME IInv, RowInv, NEW p \in Procs, HandleFailure(p)
  PROVE  /\ proc[p].pc = "driver" /\ proc[p].copy.status \in DriverStatuses
         /\ proc[p].target \in Ids /\ proc[p].target <= created
         /\ proc'[p].pc \in {"idle", "raised", "done"} /\ Elsewhere(p)
         /\ UNCHANGED <<created, live, subStatus>> /\ Spend("failure")
         /\ rowLock' = Unlocked(p)
         /\ IF CanRetry(Failed(proc[p].copy)) THEN Send(Execute(proc[p].target))
            ELSE UNCHANGED broker
         /\ \/ /\ proc[p].op = "execute" /\ UNCHANGED records
               /\ failedRuns' = [failedRuns EXCEPT ![proc[p].target] = @ + 1]
            \/ /\ proc[p].op # "execute" /\ UNCHANGED failedRuns
               /\ Saves(p, Failed(proc[p].copy)) /\ Failed(proc[p].copy).status = "FAILED"
<1>1. /\ proc[p].pc = "driver" /\ proc[p].target \in Ids /\ proc[p].copy \in Row
      /\ proc[p].copy.status \in DriverStatuses
  BY DEF HandleFailure, IInv, TypeOK, Process, PhasesOK, WellFormed, Shape
<1>2. proc[p].target <= created
  BY <1>1 DEF RowInv, InstancesFit, Fits
<1>3. Leave(p, "raised") \/ Leave(p, "done")
  BY DEF HandleFailure
<1>4. proc'[p].pc \in {"idle", "raised", "done"} /\ Elsewhere(p)
  BY <1>3, Leaves
<1>5. /\ Failed(proc[p].copy).status = "FAILED"
      /\ Failed(proc[p].copy).sub = proc[p].copy.sub
  BY <1>1 DEF Failed, Row
<1>6. UNCHANGED <<created, live, subStatus>> /\ rowLock' = Unlocked(p)
  BY DEF HandleFailure, ctVars
<1>7. IF proc[p].op = "execute"
      THEN /\ failedRuns' = [failedRuns EXCEPT ![proc[p].target] = @ + 1]
           /\ UNCHANGED records
      ELSE /\ records' = [records EXCEPT ![proc[p].target] = Failed(proc[p].copy)]
           /\ UNCHANGED failedRuns
  BY DEF HandleFailure
<1>8. proc[p].op # "execute" => Saves(p, Failed(proc[p].copy))
  BY <1>1, <1>2, <1>4, <1>5, <1>6, <1>7 DEF Saves, Settled
<1>9. /\ Spend("failure")
      /\ IF CanRetry(Failed(proc[p].copy)) THEN Send(Execute(proc[p].target))
         ELSE UNCHANGED broker
  BY DEF HandleFailure
<1> QED
  BY <1>1, <1>2, <1>4, <1>5, <1>6, <1>7, <1>8, <1>9

-----------------------------------------------------------------------------
(* An instance belongs to the subscription of the row it will be saved to. *)
SubsFit ==
  \A p \in Procs : Holds(p) => proc[p].copy.sub = records[proc[p].target].sub

ActInv == SubsFit /\ ActiveWasDeployed

(* Some deployment of subscription s has left the queue for good.          *)
Deployed(s) ==
  \E r \in Ids : records[r].sub = s /\ records[r].status \in Settled \ {"QUEUED"}

(* No subscription is activated; the rows of instances keep their owner.   *)
LEMMA ActStep ==
  ASSUME IInv, ActInv, NEW p \in Procs, Elsewhere(p),
         \A s \in Subs : subStatus'[s] = "ACTIVE" => subStatus[s] = "ACTIVE",
         \A r \in Ids : r <= created => records'[r].sub = records[r].sub,
         \A q \in Procs : Holds(q) => proc[q].target \in Ids /\ proc[q].target <= created,
         \A s \in Subs : Deployed(s) => Deployed(s)',
         Holds(p)' => proc'[p].copy.sub = records'[proc'[p].target].sub
  PROVE  ActInv'
<1>1. SubsFit'
  <2> SUFFICES ASSUME NEW q \in Procs, Holds(q)'
               PROVE  proc'[q].copy.sub = records'[proc'[q].target].sub
    BY DEF SubsFit
  <2>1. CASE q = p
    BY <2>1
  <2>2. CASE q # p
    <3>1. proc'[q] = proc[q]
      BY <2>2 DEF Elsewhere
    <3>2. Holds(q)
      BY <3>1 DEF Holds
    <3> QED
      BY <3>1, <3>2 DEF ActInv, SubsFit
  <2> QED
    BY <2>1, <2>2
<1>2. ActiveWasDeployed'
  BY DEF ActInv, ActiveWasDeployed, Deployed
<1> QED
  BY <1>1, <1>2 DEF ActInv

LEMMA TargetsExist ==
  ASSUME IInv, RowInv
  PROVE  \A q \in Procs : Holds(q) => proc[q].target \in Ids /\ proc[q].target <= created
BY DEF IInv, PhasesOK, WellFormed, Shape, RowInv, InstancesFit, Fits, Holds

LEMMA ActQuiet ==
  ASSUME IInv, RowInv, ActInv, NEW p \in Procs, Elsewhere(p), UNCHANGED records,
         \A s \in Subs : subStatus'[s] = "ACTIVE" => subStatus[s] = "ACTIVE",
         Holds(p)' => proc'[p].copy.sub = records'[proc'[p].target].sub
  PROVE  ActInv'
<1>1. \A s \in Subs : Deployed(s) => Deployed(s)'
  BY DEF Deployed
<1> QED
  BY <1>1, TargetsExist, ActStep

LEMMA ActPrepares ==
  ASSUME IInv, RowInv, ActInv, NEW p \in Procs, Prepares(p), created < MaxRecords,
         \/ UNCHANGED <<records, created>>
         \/ records' = [records EXCEPT ![created + 1] = proc[p].copy] /\ created' = created + 1
  PROVE  ActInv'
<1>1. ~Holds(p)' /\ Elsewhere(p) /\ UNCHANGED subStatus
  BY DEF Prepares, Holds
<1>2. CASE UNCHANGED records
  BY <1>1, <1>2, ActQuiet
<1>3. CASE records' = [records EXCEPT ![created + 1] = proc[p].copy]
  <2>1. created \in Nat /\ records \in [Ids -> Row]
    BY DEF IInv, TypeOK
  <2>2. \A r \in Ids : r <= created => records'[r] = records[r]
    BY <1>3, <2>1 DEF Ids
  <2>3. \A s \in Subs : Deployed(s) => Deployed(s)'
    <3>1. ASSUME NEW r \in Ids, records[r].status \in Settled PROVE r <= created
      BY <3>1 DEF RowInv, SoundRows, Settled
    <3> QED
      BY <2>2, <3>1 DEF Deployed
  <2> QED
    BY <1>1, <2>2, <2>3, TargetsExist, ActStep
<1> QED
  BY <1>2, <1>3

(* A row that is written stays its subscription's, and out of the queue.   *)
LEMMA DeployedStays ==
  ASSUME IInv, ActInv, NEW p \in Procs, NEW row, Saves(p, row)
  PROVE  /\ \A r \in Ids : records'[r].sub = records[r].sub
         /\ \A s \in Subs : Deployed(s) => Deployed(s)'
         /\ Deployed(row.sub)'
<1>1. /\ proc[p].target \in Ids /\ records \in [Ids -> Row]
      /\ records' = [records EXCEPT ![proc[p].target] = row]
      /\ row.sub = proc[p].copy.sub /\ row.status \in Settled \ {"QUEUED"}
  BY DEF Saves, IInv, TypeOK
<1>2. proc[p].copy.sub = records[proc[p].target].sub
  BY DEF ActInv, SubsFit, Saves, Holds
<1>3. \A r \in Ids : records'[r] = IF r = proc[p].target THEN row ELSE records[r]
  BY <1>1
<1>4. \A r \in Ids : records'[r].sub = records[r].sub
  BY <1>1, <1>2, <1>3
<1>5. \A s \in Subs : Deployed(s) => Deployed(s)'
  BY <1>1, <1>3, <1>4 DEF Deployed
<1>6. Deployed(row.sub)'
  BY <1>1, <1>3 DEF Deployed
<1> QED
  BY <1>4, <1>5, <1>6

LEMMA ActCommits ==
  ASSUME IInv, RowInv, ActInv, NEW p \in Procs, Commit(p)
  PROVE  ActInv'
<1> PICK row : row = proc[p].copy
  OBVIOUS
<1>1. /\ Saves(p, row)
      /\ subStatus' = IF proc[p].op = "execute"
                      THEN [subStatus EXCEPT ![row.sub] = "ACTIVE"] ELSE subStatus
  BY CommitEffect
<1>2. subStatus \in [Subs -> SubStatuses]
  BY DEF IInv, TypeOK
<1>3. /\ \A r \in Ids : records'[r].sub = records[r].sub
      /\ \A s \in Subs : Deployed(s) => Deployed(s)'
      /\ Deployed(row.sub)'
  BY <1>1, DeployedStays
<1>4. SubsFit'
  <2> SUFFICES ASSUME NEW q \in Procs, Holds(q)'
               PROVE  proc'[q].copy.sub = records'[proc'[q].target].sub
    BY DEF SubsFit
  <2>1. q # p /\ proc'[q] = proc[q]
    BY <1>1 DEF Saves, Holds, Elsewhere
  <2>2. Holds(q) /\ proc[q].target \in Ids
    BY <2>1, TargetsExist DEF Holds
  <2> QED
    BY <1>3, <2>1, <2>2 DEF ActInv, SubsFit
<1>5. ActiveWasDeployed'
  <2> SUFFICES ASSUME NEW s \in Subs, subStatus'[s] = "ACTIVE" PROVE Deployed(s)'
    BY DEF ActiveWasDeployed, Deployed
  <2>1. CASE s = row.sub
    BY <1>3, <2>1
  <2>2. CASE s # row.sub
    <3>1. subStatus[s] = "ACTIVE"
      BY <1>1, <1>2, <2>2
    <3> QED
      BY <1>3, <3>1 DEF ActInv, ActiveWasDeployed, Deployed
  <2> QED
    BY <2>1, <2>2
<1> QED
  BY <1>4, <1>5 DEF ActInv

LEMMA ActFails ==
  ASSUME IInv, RowInv, ActInv, NEW p \in Procs, HandleFailure(p)
  PROVE  ActInv'
<1>1. ~Holds(p)' /\ Elsewhere(p) /\ UNCHANGED subStatus
  BY FailureEffect DEF Holds
<1>2. CASE UNCHANGED records
  BY <1>1, <1>2, ActQuiet
<1>3. CASE Saves(p, Failed(proc[p].copy))
  <2>1. /\ \A r \in Ids : records'[r].sub = records[r].sub
        /\ \A s \in Subs : Deployed(s) => Deployed(s)'
    BY <1>3, DeployedStays
  <2> QED
    BY <1>1, <2>1, TargetsExist, ActStep
<1> QED
  BY <1>2, <1>3, FailureEffect

(* Steps of no process.                                                    *)
LEMMA ActElsewhere ==
  ASSUME ActInv, UNCHANGED <<proc, records>>,
         \A s \in Subs : subStatus'[s] = "ACTIVE" => subStatus[s] = "ACTIVE"
  PROVE  ActInv'
BY DEF ActInv, SubsFit, ActiveWasDeployed, Holds

LEMMA ActKept ==
  ASSUME IInv, RowInv, ActInv, [Next]_vars
  PROVE  ActInv'
<1>1. ASSUME NEW w \in Workers, NEW m \in Messages, Deliver(w, m) PROVE ActInv'
  <2>1. Entered(m).pc \in {"create", "find", "fetch"}
    <3>1. m.kind \in TaskKinds /\ Entered(m).pc = FirstPhase[m.kind]
      BY MessageFields DEF Entered, Idle
    <3> QED
      BY <3>1 DEF FirstPhase, TaskKinds
  <2>2. w \in Procs /\ UNCHANGED <<records, subStatus>>
        /\ proc' = [proc EXCEPT ![w] = Entered(m)]
    BY <1>1 DEF Deliver, Procs, dbVars
  <2>3. ~Holds(w)' /\ Elsewhere(w)
    BY <2>1, <2>2, Moves DEF Holds
  <2> QED
    BY <2>2, <2>3, ActQuiet
<1>2. ASSUME NEW p \in Procs, Operate(p) PROVE ActInv'
  <2>1. CASE CreateDeployment(p) \/ FindActive(p)
    <3>1. ~Holds(p)' /\ Elsewhere(p) /\ UNCHANGED <<records, subStatus>>
      BY <2>1, CreateEffect, FindEffect DEF Prepares, Holds
    <3> QED
      BY <3>1, ActQuiet
  <2>2. CASE InsertRecord(p)
    BY <2>2, InsertEffect, ActPrepares
  <2>3. CASE FetchRecord(p)
    <3>1. Elsewhere(p) /\ UNCHANGED <<records, subStatus>>
          /\ (Holds(p)' => proc'[p].copy.sub = records'[proc'[p].target].sub)
      BY <2>3, FetchEffect DEF Holds
    <3> QED
      BY <3>1, ActQuiet
  <2>4. CASE LockRow(p) \/ NextStage(p) \/ StartContainer(p) \/ StopContainer(p)
    <3>1. Continues(p)
      BY <2>4, LockEffect, NextStageEffect, StartEffect, StopEffect
    <3>2. Elsewhere(p) /\ UNCHANGED <<records, subStatus>>
          /\ proc'[p].copy.sub = records'[proc'[p].target].sub
      BY <3>1 DEF Continues, ActInv, SubsFit, Holds
    <3> QED
      BY <3>2, ActQuiet
  <2>5. CASE Commit(p)
    BY <2>5, ActCommits
  <2>6. CASE RetryTask(p) \/ Acknowledge(p)
    <3>1. Leave(p, "done") \/ Acknowledge(p)
      BY <2>6 DEF RetryTask
    <3>2. ~Holds(p)' /\ Elsewhere(p) /\ UNCHANGED <<records, subStatus>>
      BY <2>6, <3>1, Leaves, Stops DEF Holds, RetryTask, Acknowledge, dbVars
    <3> QED
      BY <3>2, ActQuiet
  <2> QED
    BY <1>2, <2>1, <2>2, <2>3, <2>4, <2>5, <2>6 DEF Operate
<1>3. CASE Environment
  <2>1. Workers \subseteq Procs /\ Requests \subseteq Procs
    BY DEF Procs
  <2>2. ASSUME NEW p \in Procs, HandleFailure(p) PROVE ActInv'
    BY <2>2, ActFails
  <2>3. ASSUME NEW p \in Procs, Crash(p) \/ Kill(p) PROVE ActInv'
    <3>1. ~Holds(p)' /\ Elsewhere(p) /\ UNCHANGED <<records, subStatus>>
      BY <2>3, Stops DEF Holds, Crash, Kill, dbVars
    <3> QED
      BY <3>1, ActQuiet
  <2>4. ASSUME NEW p \in Requests, NEW r \in Ids, NEW v \in Versions, RollbackRequest(p, r, v)
        PROVE  ActInv'
    <3> DEFINE me == [pc |-> "update", op |-> "rollback", target |-> r, copy |-> records[r],
                      task |-> [kind |-> "rollback", arg |-> r, ver |-> v, tries |-> 0]]
    <3>1. p \in Procs /\ proc' = [proc EXCEPT ![p] = me] /\ UNCHANGED <<records, subStatus>>
      BY <2>1, <2>4 DEF RollbackRequest, dbVars
    <3>2. me.target = r /\ me.copy = records[r]
      OBVIOUS
    <3> HIDE DEF me
    <3>3. proc'[p] = me /\ Elsewhere(p)
      BY <3>1, Moves
    <3> QED
      BY <3>1, <3>2, <3>3, ActQuiet
  <2>5. ASSUME NEW s \in Subs, Install(s) \/ InstallCommits(s) \/ UninstallProduct(s)
        PROVE  ActInv'
    <3>1. subStatus \in [Subs -> SubStatuses] /\ UNCHANGED <<proc, records>>
      BY <2>5 DEF Install, InstallCommits, UninstallProduct, IInv, TypeOK
    <3>2. \A z \in Subs : subStatus'[z] = "ACTIVE" => subStatus[z] = "ACTIVE"
      BY <2>5, <3>1 DEF Install, InstallCommits, UninstallProduct
    <3> QED
      BY <3>1, <3>2, ActElsewhere
  <2>6. CASE UNCHANGED <<proc, records, subStatus>>
    BY <2>6, ActElsewhere
  <2> QED
    BY <1>3, <2>1, <2>2, <2>3, <2>4, <2>5, <2>6
       DEF Environment, UpgradeProduct, ViewInfra, RetryRequest, HealthCheck, dbVars
<1>4. CASE UNCHANGED vars
  BY <1>4, ActElsewhere DEF vars, dbVars
<1> QED
  BY <1>1, <1>2, <1>3, <1>4 DEF Next

(* An ACTIVE subscription was deployed: whichever task activates it has    *)
(* saved one of its deployments in the same transaction, and no save, be it*)
(* of a stale instance, gives that row to another subscription or requeues *)
(* it.                                                                     *)
THEOREM ActiveSubscriptionsAreDeployed == Spec => []ActiveWasDeployed
<1>1. Init => ActInv
  BY DEF Init, ActInv, SubsFit, ActiveWasDeployed, Holds, Idle
<1>2. ActInv => ActiveWasDeployed
  BY DEF ActInv
<1> QED
  BY <1>1, <1>2, ActKept, Typing, RowsStaySound, PTL DEF Spec

-----------------------------------------------------------------------------
(* A decommission has stopped the container and goes on to say so.         *)
Retires(me, r) ==
  /\ me.pc \in {"driver", "commit"} /\ me.target = r
  /\ me.copy.status \in {"STOPPED", "DECOMMISSIONED"}

NoDeath == used["crash"] + used["kill"] = 0

(* What a RUNNING row names is up, or the process that stopped it is about *)
(* to commit; what an instance about to become one names is up.            *)
UpOrRetired ==
  \A r \in Ids : records[r].status = "RUNNING" =>
    records[r].container \in live \/ \E p \in Procs : Retires(proc[p], r)
StartedIsUp ==
  \A p \in Procs : proc[p].pc = "commit" /\ proc[p].copy.status = "RUNNING" =>
    proc[p].copy.container \in live

LiveInv == NoDeath => UpOrRetired /\ StartedIsUp

(* The budget is only ever spent.                                          *)
LEMMA DeathIsFinal ==
  ASSUME IInv, NEW k \in EnvKinds, Spend(k) \/ UNCHANGED used
  PROVE  /\ used["crash"] \in Nat /\ used["kill"] \in Nat
         /\ used'["kill"] = 0 => used["kill"] = 0
         /\ NoDeath' => NoDeath
<1>1. used \in [EnvKinds -> Nat] /\ {"crash", "kill"} \subseteq EnvKinds
  BY DEF IInv, TypeOK, EnvKinds
<1>2. used["crash"] \in Nat /\ used["kill"] \in Nat /\ used[k] \in Nat
  BY <1>1
<1>3. CASE UNCHANGED used
  BY <1>2, <1>3 DEF NoDeath
<1>4. CASE used' = [used EXCEPT ![k] = @ + 1]
  <2>1. /\ used'["crash"] = IF k = "crash" THEN used["crash"] + 1 ELSE used["crash"]
        /\ used'["kill"] = IF k = "kill" THEN used["kill"] + 1 ELSE used["kill"]
    BY <1>1, <1>4
  <2> QED
    BY <1>2, <2>1 DEF NoDeath
<1> QED
  BY <1>3, <1>4 DEF Spend

(* No container is stopped; no row becomes RUNNING unless its container is *)
(* up; a process that retires a row goes on to, or has saved it.           *)
LEMMA LiveStep ==
  ASSUME IInv, LiveInv, NEW p \in Procs, Elsewhere(p), live \subseteq live',
         NoDeath' => NoDeath,
         \A r \in Ids : records'[r].status = "RUNNING" =>
           \/ records'[r] = records[r]
                /\ (Retires(proc[p], r) => Retires(proc[p], r)')
           \/ records'[r].container \in live',
         NoDeath => (proc'[p].pc = "commit" /\ proc'[p].copy.status = "RUNNING" =>
                       proc'[p].copy.container \in live')
  PROVE  LiveInv'
<1> SUFFICES ASSUME NoDeath, UpOrRetired, StartedIsUp PROVE UpOrRetired' /\ StartedIsUp'
  BY DEF LiveInv
<1>1. UpOrRetired'
  <2> SUFFICES ASSUME NEW r \in Ids, records'[r].status = "RUNNING",
                      records'[r].container \notin live'
               PROVE  \E q \in Procs : Retires(proc'[q], r)
    BY DEF UpOrRetired, Retires
  <2>1. records'[r] = records[r] /\ (Retires(proc[p], r) => Retires(proc[p], r)')
    OBVIOUS
  <2>2. PICK q \in Procs : Retires(proc[q], r)
    BY <2>1 DEF UpOrRetired
  <2>3. CASE q = p
    BY <2>1, <2>2, <2>3 DEF Retires
  <2>4. CASE q # p
    BY <2>2, <2>4 DEF Elsewhere
  <2> QED
    BY <2>3, <2>4
<1>2. StartedIsUp'
  BY DEF StartedIsUp, Elsewhere
<1> QED
  BY <1>1, <1>2

(* A step of a process that retires nothing, before or after.              *)
LEMMA LiveQuiet ==
  ASSUME IInv, LiveInv, NEW p \in Procs, Elsewhere(p), live' = live, NoDeath' => NoDeath,
         \A r \in Ids : records'[r].status = "RUNNING" => records'[r] = records[r],
         proc[p].pc \notin {"driver", "commit"}, proc'[p].pc \notin {"driver", "commit"}
  PROVE  LiveInv'
<1>1. \A r \in Ids : ~Retires(proc[p], r)
  BY DEF Retires
<1> QED
  BY <1>1, LiveStep

LEMMA LiveElsewhere ==
  ASSUME LiveInv, UNCHANGED <<proc, records, live>>, NoDeath' => NoDeath
  PROVE  LiveInv'
BY DEF LiveInv, UpOrRetired, StartedIsUp, Retires

LEMMA StartIsUp ==
  ASSUME IInv, LiveInv, NEW p \in Procs, StartContainer(p)
  PROVE  LiveInv'
<1>1. /\ Continues(p) /\ live \subseteq live'
      /\ proc[p].copy.status \in Starting /\ proc'[p].copy.container \in live'
  BY StartEffect
<1>2. \A r \in Ids : ~Retires(proc[p], r)
  BY <1>1 DEF Retires, Starting
<1>3. Elsewhere(p) /\ UNCHANGED <<records, used>>
  BY <1>1 DEF Continues
<1>4. NoDeath' => NoDeath
  BY <1>3 DEF NoDeath
<1> QED
  BY <1>1, <1>2, <1>3, <1>4, LiveStep

LEMMA StagesAreUp ==
  ASSUME IInv, LiveInv, NEW p \in Procs, LockRow(p) \/ NextStage(p)
  PROVE  LiveInv'
<1>1. /\ Elsewhere(p) /\ live' = live /\ UNCHANGED <<records, used>>
      /\ proc'[p].target = proc[p].target /\ proc'[p].pc \in {"driver", "commit"}
      /\ proc'[p].copy.status # "RUNNING" \/ proc'[p].pc # "commit"
  BY LockEffect, NextStageEffect DEF Continues
<1>2. ASSUME NEW r \in Ids, Retires(proc[p], r) PROVE Retires(proc[p], r)'
  <2>1. proc[p].pc \in {"driver", "commit"} /\ proc[p].target = r
        /\ proc[p].copy.status \in {"STOPPED", "DECOMMISSIONED"}
    BY <1>2 DEF Retires
  <2>2. ~LockRow(p)
    BY <2>1 DEF LockRow
  <2>3. proc'[p].copy.status = "DECOMMISSIONED"
    BY <2>1, <2>2, NextStageEffect
  <2> QED
    BY <1>1, <2>1, <2>3 DEF Retires
<1>3. NoDeath' => NoDeath
  BY <1>1 DEF NoDeath
<1> QED
  BY <1>1, <1>2, <1>3, LiveStep

LEMMA StartedHasNumber ==
  \A n \in Nat : \A S : S \subseteq 1..n => \A c \in S : c \in Nat \ {0}
OBVIOUS

(* driver.stop stops a container of the row whose lock the process holds,  *)
(* and so of no RUNNING deployment but the one that is being retired.      *)
LEMMA StopsItsOwn ==
  ASSUME IInv, NamesApart, LocksHeld, LiveInv, NEW p \in Procs, StopContainer(p)
  PROVE  LiveInv'
<1> DEFINE r == proc[p].target
           c == proc[p].copy.container
<1>1. /\ Continues(p) /\ live' = live \ {c} /\ proc[p].pc = "driver"
      /\ proc'[p].copy.status = "STOPPED"
  BY StopEffect
<1>2. /\ Elsewhere(p) /\ UNCHANGED <<records, used>> /\ proc'[p].target = r
      /\ proc'[p].pc \in {"driver", "commit"}
  BY <1>1 DEF Continues
<1>3. r \in Ids /\ live \subseteq 1..containers /\ containers \in Nat
  BY <1>1 DEF IInv, TypeOK, PhasesOK, WellFormed, Shape
<1>4. Names(r, c)
  BY <1>1 DEF Names, Holds
<1>5. NoDeath' => NoDeath
  BY <1>2 DEF NoDeath
<1> SUFFICES ASSUME NoDeath, UpOrRetired, StartedIsUp PROVE UpOrRetired' /\ StartedIsUp'
  BY <1>5 DEF LiveInv
<1>6. UpOrRetired'
  <2> SUFFICES ASSUME NEW z \in Ids, records[z].status = "RUNNING",
                      records[z].container \notin live'
               PROVE  \E q \in Procs : Retires(proc'[q], z)
    BY <1>2 DEF UpOrRetired, Retires
  <2>1. CASE records[z].container \in live
    <3>1. records[z].container = c /\ c \in live
      BY <1>1, <2>1
    <3>2. c \in Nat \ {0}
      BY <1>3, <3>1, StartedHasNumber
    <3>3. z = r
      BY <1>3, <1>4, <3>1, <3>2 DEF NamesApart, Names
    <3> QED
      BY <1>1, <1>2, <3>3 DEF Retires
  <2>2. CASE records[z].container \notin live
    <3>1. PICK q \in Procs : Retires(proc[q], z)
      BY <2>2 DEF UpOrRetired
    <3>2. CASE q = p
      BY <1>1, <1>2, <3>1, <3>2 DEF Retires
    <3>3. CASE q # p
      BY <1>2, <3>1, <3>3 DEF Elsewhere
    <3> QED
      BY <3>2, <3>3
  <2> QED
    BY <2>1, <2>2
<1>7. StartedIsUp'
  <2> SUFFICES ASSUME NEW q \in Procs, proc'[q].pc = "commit",
                      proc'[q].copy.status = "RUNNING"
               PROVE  proc'[q].copy.container \in live'
    BY DEF StartedIsUp
  <2>1. q # p /\ proc'[q] = proc[q]
    BY <1>1, <1>2 DEF Elsewhere
  <2>2. proc[q].copy.container \in live
    BY <2>1 DEF StartedIsUp
  <2>3. proc[q].copy.container # c
    <3> SUFFICES ASSUME proc[q].copy.container = c PROVE FALSE
      OBVIOUS
    <3>1. c \in Nat \ {0}
      <4>1. c \in live
        BY <2>2
      <4> QED
        BY <1>3, <4>1, StartedHasNumber
    <3>2. proc[q].target \in Ids
      BY <2>1 DEF IInv, PhasesOK, WellFormed, Shape
    <3>3. Names(proc[q].target, c)
      BY <2>1 DEF Names, Holds
    <3>4. proc[q].target = r
      BY <1>3, <1>4, <3>1, <3>2, <3>3 DEF NamesApart
    <3>5. rowLock[r] = p /\ rowLock[r] = q
      BY <1>1, <2>1, <3>4 DEF LocksHeld, UsesDriver
    <3> QED
      BY <2>1, <3>5
  <2> QED
    BY <1>1, <2>1, <2>2, <2>3
<1> QED
  BY <1>6, <1>7

LEMMA SavedIsUp ==
  ASSUME IInv, LiveInv, NEW p \in Procs, NEW row, Saves(p, row), NoDeath' => NoDeath,
         NoDeath => (row.status = "RUNNING" => row.container \in live)
  PROVE  LiveInv'
<1>1. /\ proc[p].target \in Ids /\ records \in [Ids -> Row] /\ Elsewhere(p)
      /\ records' = [records EXCEPT ![proc[p].target] = row] /\ live' = live
      /\ proc'[p].pc \notin {"driver", "commit"}
  BY DEF Saves, IInv, TypeOK
<1>2. \A r \in Ids : records'[r] = IF r = proc[p].target THEN row ELSE records[r]
  BY <1>1
<1>3. \A r \in Ids : Retires(proc[p], r) => r = proc[p].target
  BY DEF Retires
<1> SUFFICES ASSUME NoDeath' PROVE LiveInv'
  BY DEF LiveInv
<1> QED
  BY <1>1, <1>2, <1>3, LiveStep

LEMMA FailureIsUp ==
  ASSUME IInv, RowInv, LiveInv, NEW p \in Procs, HandleFailure(p)
  PROVE  LiveInv'
<1>1. /\ proc[p].pc = "driver" /\ proc[p].copy.status \in DriverStatuses
      /\ proc'[p].pc \in {"idle", "raised", "done"} /\ Elsewhere(p) /\ live' = live
      /\ Spend("failure")
  BY FailureEffect
<1>2. NoDeath' => NoDeath
  BY <1>1, DeathIsFinal DEF EnvKinds
<1>3. CASE UNCHANGED records
  <2>1. \A r \in Ids : ~Retires(proc[p], r)
    BY <1>1 DEF Retires, DriverStatuses, Starting
  <2> QED
    BY <1>1, <1>2, <1>3, <2>1, LiveStep
<1>4. CASE Saves(p, Failed(proc[p].copy)) /\ Failed(proc[p].copy).status = "FAILED"
  <2> PICK row : row = Failed(proc[p].copy)
    OBVIOUS
  <2> QED
    BY <1>2, <1>4, SavedIsUp
<1> QED
  BY <1>3, <1>4, FailureEffect

LEMMA LiveKept ==
  ASSUME IInv, NamesApart, LocksHeld, RowInv, LiveInv, [Next]_vars
  PROVE  LiveInv'
<1>1. ASSUME UNCHANGED used PROVE NoDeath' => NoDeath
  BY <1>1 DEF NoDeath
<1>2. ASSUME NEW w \in Workers, NEW m \in Messages, Deliver(w, m) PROVE LiveInv'
  <2>1. Entered(m).pc \in {"create", "find", "fetch"}
    <3>1. m.kind \in TaskKinds /\ Entered(m).pc = FirstPhase[m.kind]
      BY MessageFields DEF Entered, Idle
    <3> QED
      BY <3>1 DEF FirstPhase, TaskKinds
  <2>2. /\ w \in Procs /\ UNCHANGED <<records, live, used>> /\ proc[w].pc = "idle"
        /\ proc' = [proc EXCEPT ![w] = Entered(m)]
    BY <1>2 DEF Deliver, Procs, dbVars, ctVars
  <2>3. Elsewhere(w) /\ proc'[w].pc \notin {"driver", "commit"}
    BY <2>1, <2>2, Moves
  <2> QED
    BY <1>1, <2>2, <2>3, LiveQuiet
<1>3. ASSUME NEW p \in Procs, Operate(p) PROVE LiveInv'
  <2>1. CASE CreateDeployment(p) \/ FindActive(p)
    <3>1. /\ Elsewhere(p) /\ UNCHANGED <<records, live, used>>
          /\ proc[p].pc \notin {"driver", "commit"} /\ proc'[p].pc \notin {"driver", "commit"}
      BY <2>1, CreateEffect, FindEffect DEF Prepares
    <3> QED
      BY <1>1, <3>1, LiveQuiet
  <2>2. CASE InsertRecord(p)
    <3>1. /\ Elsewhere(p) /\ UNCHANGED <<live, used>>
          /\ proc[p].pc \notin {"driver", "commit"} /\ proc'[p].pc \notin {"driver", "commit"}
      BY <2>2, InsertEffect DEF Prepares
    <3>2. proc[p].copy.status = "QUEUED"
      BY <2>2 DEF InsertRecord, RowInv, InstancesFit, Fits
    <3>3. records \in [Ids -> Row]
      BY DEF IInv, TypeOK
    <3>4. \A r \in Ids : records'[r].status = "RUNNING" => records'[r] = records[r]
      BY <2>2, <3>2, <3>3, InsertEffect
    <3> QED
      BY <1>1, <3>1, <3>4, LiveQuiet
  <2>3. CASE FetchRecord(p)
    <3>1. /\ Elsewhere(p) /\ UNCHANGED <<records, live, used>>
          /\ proc[p].pc \notin {"driver", "commit"} /\ proc'[p].pc \notin {"driver", "commit"}
      BY <2>3, FetchEffect
    <3> QED
      BY <1>1, <3>1, LiveQuiet
  <2>4. CASE LockRow(p) \/ NextStage(p) \/ StartContainer(p) \/ StopContainer(p)
    BY <2>4, StagesAreUp, StartIsUp, StopsItsOwn
  <2>5. CASE Commit(p)
    <3>1. Saves(p, proc[p].copy) /\ proc[p].pc = "commit" /\ UNCHANGED used
      BY <2>5, CommitEffect
    <3>2. NoDeath => (proc[p].copy.status = "RUNNING" => proc[p].copy.container \in live)
      BY <3>1 DEF LiveInv, StartedIsUp
    <3>3. NoDeath' => NoDeath
      BY <1>1, <3>1
    <3> QED
      BY <3>1, <3>2, <3>3, SavedIsUp
  <2>6. CASE RetryTask(p) \/ Acknowledge(p)
    <3>1. Leave(p, "done") \/ Acknowledge(p)
      BY <2>6 DEF RetryTask
    <3>2. /\ Elsewhere(p) /\ UNCHANGED <<records, live, used>>
          /\ proc[p].pc \notin {"driver", "commit"} /\ proc'[p].pc \notin {"driver", "commit"}
      BY <2>6, <3>1, Leaves, Stops DEF RetryTask, Acknowledge, dbVars, ctVars
    <3> QED
      BY <1>1, <3>2, LiveQuiet
  <2> QED
    BY <1>3, <2>1, <2>2, <2>3, <2>4, <2>5, <2>6 DEF Operate
<1>4. CASE Environment
  <2>1. Workers \subseteq Procs /\ Requests \subseteq Procs
    BY DEF Procs
  <2>2. ASSUME NEW p \in Procs, HandleFailure(p) PROVE LiveInv'
    BY <2>2, FailureIsUp
  <2>3. ASSUME NEW p \in Procs, Crash(p) \/ Kill(p) PROVE LiveInv'
    <3>1. used \in [EnvKinds -> Nat] /\ {"crash", "kill"} \subseteq EnvKinds
      BY DEF IInv, TypeOK, EnvKinds
    <3>2. \/ used' = [used EXCEPT !["crash"] = @ + 1]
          \/ used' = [used EXCEPT !["kill"] = @ + 1]
      BY <2>3 DEF Crash, Kill, Spend
    <3>3. ~NoDeath'
      BY <3>1, <3>2 DEF NoDeath
    <3> QED
      BY <3>3 DEF LiveInv
  <2>4. ASSUME NEW p \in Requests, NEW r \in Ids, NEW v \in Versions, RollbackRequest(p, r, v)
        PROVE  LiveInv'
    <3> DEFINE me == [pc |-> "update", op |-> "rollback", target |-> r, copy |-> records[r],
                      task |-> [kind |-> "rollback", arg |-> r, ver |-> v, tries |-> 0]]
    <3>1. /\ p \in Procs /\ proc' = [proc EXCEPT ![p] = me] /\ UNCHANGED <<records, live>>
          /\ proc[p].pc = "idle" /\ Spend("rollback")
      BY <2>1, <2>4 DEF RollbackRequest, dbVars, ctVars
    <3>2. me.pc = "update"
      OBVIOUS
    <3> HIDE DEF me
    <3>3. proc'[p] = me /\ Elsewhere(p)
      BY <3>1, Moves
    <3>4. NoDeath' => NoDeath
      BY <3>1, DeathIsFinal DEF EnvKinds
    <3> QED
      BY <3>1, <3>2, <3>3, <3>4, LiveQuiet
  <2>5. ASSUME UNCHANGED <<proc, records, live>>, NEW k \in EnvKinds, Spend(k) \/ UNCHANGED used
        PROVE  LiveInv'
    BY <2>5, DeathIsFinal, LiveElsewhere
  <2>6. {"upgrade", "uninstall", "retry", "check"} \subseteq EnvKinds
    BY DEF EnvKinds
  <2> QED
    BY <1>4, <2>1, <2>2, <2>3, <2>4, <2>5, <2>6
       DEF Environment, Install, InstallCommits, UninstallProduct, UpgradeProduct, ViewInfra,
           RetryRequest, HealthCheck, dbVars, ctVars
<1>5. CASE UNCHANGED vars
  BY <1>1, <1>5, LiveElsewhere DEF vars, dbVars, ctVars
<1> QED
  BY <1>2, <1>3, <1>4, <1>5 DEF Next

(* Unless a process died, a deployment that reads RUNNING while nobody     *)
(* changes it is up: the row lock keeps one operation's stop from another's*)
(* start, and no two rows name one container.                              *)
THEOREM RunningDeploymentsAreLive == Spec => []RunningIsLive
<1>1. Init => LocksHeld /\ LiveInv
  <2> SUFFICES ASSUME Init PROVE LocksHeld /\ LiveInv
    OBVIOUS
  <2>1. \A p \in Procs : proc[p].pc = "idle"
    BY DEF Init, Idle
  <2>2. \A r \in Ids : records[r].status # "RUNNING"
    BY DEF Init, NoRow
  <2> QED
    BY <2>1, <2>2 DEF LocksHeld, UsesDriver, LiveInv, UpOrRetired, StartedIsUp
<1>2. IInv /\ LocksHeld /\ LiveInv => RunningIsLive
  <2> SUFFICES ASSUME IInv, LocksHeld, LiveInv, NoDeath, NEW r \in Ids,
                      records[r].status = "RUNNING", rowLock[r] = None,
                      records[r].container \notin live
               PROVE  FALSE
    BY DEF RunningIsLive, NoDeath
  <2>1. PICK p \in Procs : Retires(proc[p], r)
    BY DEF LiveInv, UpOrRetired
  <2>2. rowLock[r] = p
    BY <2>1 DEF Retires, LocksHeld, UsesDriver
  <2> QED
    BY <2>2, ConstantsAssumption
<1> QED
  BY <1>1, <1>2, LiveKept, LocksHeldStep, Typing, NamesStayApart, RowsStaySound, PTL DEF Spec
-----------------------------------------------------------------------------
(* An execution of record r: one that is queued, one that a worker runs.   *)
Asked(r) == \E m \in Messages : m.kind = "execute" /\ m.arg = r /\ broker[m] > 0
Works(me, r) ==
  /\ me.pc \in {"fetch", "update", "driver", "commit"}
  /\ me.task.kind = "execute" /\ me.task.arg = r
Sure(r) == Asked(r) \/ \E p \in Procs : Works(proc[p], r)

(* An execute task runs its own record's execution, and an instance that   *)
(* is being executed has its retries ahead of it.                          *)
ExecFits(me) ==
  /\ me.task.kind = "execute" /\ me.pc \notin {"idle", "raised", "done"} =>
       /\ me.op = "execute" /\ me.target = me.task.arg
       /\ me.pc \in {"fetch", "update", "driver", "commit"}
  /\ me.op = "execute" /\ me.pc \in {"update", "driver", "commit"} => me.copy.retries = 0
ExecsFit == \A p \in Procs : ExecFits(proc[p])

RunsOfRows == \A r \in Ids : failedRuns[r] > 0 => r <= created
Retriable  == used["kill"] = 0 /\ MaxRetries > 1
Retried    ==
  Retriable => \A r \in Ids : records[r].status = "QUEUED" /\ failedRuns[r] > 0 => Sure(r)

RetryInv == ExecsFit /\ RunsOfRows /\ Retried

(* One process moves; whatever it gives up is asked for again, or needs no *)
(* execution any more.                                                     *)
LEMMA RetryStep ==
  ASSUME RetryInv, NEW p \in Procs, Elsewhere(p), ExecFits(proc'[p]), RunsOfRows',
         used'["kill"] = 0 => used["kill"] = 0,
         \A r \in Ids :
           Retriable' /\ records'[r].status = "QUEUED" /\ failedRuns'[r] > 0 =>
             \/ Asked(r)' \/ Works(proc'[p], r)
             \/ /\ records[r].status = "QUEUED" /\ failedRuns[r] > 0
                /\ Asked(r) => Asked(r)'
                /\ ~Works(proc[p], r)
  PROVE  RetryInv'
<1>1. ExecsFit'
  BY DEF RetryInv, ExecsFit, Elsewhere
<1>2. ASSUME Retriable', NEW r \in Ids, records'[r].status = "QUEUED", failedRuns'[r] > 0
      PROVE  Sure(r)'
  <2>1. CASE Asked(r)' \/ Works(proc'[p], r)
    BY <2>1 DEF Sure
  <2>2. CASE /\ records[r].status = "QUEUED" /\ failedRuns[r] > 0
             /\ Asked(r) => Asked(r)'
             /\ ~Works(proc[p], r)
    <3>1. Sure(r)
      BY <1>2, <2>2 DEF RetryInv, Retried, Retriable
    <3>2. CASE Asked(r)
      BY <2>2, <3>2 DEF Sure
    <3>3. CASE \E q \in Procs : Works(proc[q], r)
      <4>1. PICK q \in Procs : Works(proc[q], r)
        BY <3>3
      <4>2. q # p /\ proc'[q] = proc[q]
        BY <2>2, <4>1 DEF Elsewhere
      <4> QED
        BY <4>1, <4>2 DEF Sure
    <3> QED
      BY <3>1, <3>2, <3>3 DEF Sure
  <2> QED
    BY <1>2, <2>1, <2>2
<1>3. Retried'
  BY <1>2 DEF Retried
<1> QED
  BY <1>1, <1>3 DEF RetryInv

(* One process moves and writes no row.                                    *)
LEMMA RetryQuiet ==
  ASSUME RetryInv, NEW p \in Procs, Elsewhere(p), ExecFits(proc'[p]),
         UNCHANGED <<records, created, failedRuns>>,
         used'["kill"] = 0 => used["kill"] = 0,
         \A r \in Ids : Asked(r) => Asked(r)' \/ Works(proc'[p], r),
         \A r \in Ids : Works(proc[p], r) /\ records[r].status = "QUEUED" =>
           used'["kill"] # 0 \/ Asked(r)' \/ Works(proc'[p], r)
  PROVE  RetryInv'
<1>1. RunsOfRows'
  BY DEF RetryInv, RunsOfRows
<1>2. ASSUME NEW r \in Ids, Retriable', records'[r].status = "QUEUED", failedRuns'[r] > 0
      PROVE  \/ Asked(r)' \/ Works(proc'[p], r)
             \/ /\ records[r].status = "QUEUED" /\ failedRuns[r] > 0
                /\ Asked(r) => Asked(r)'
                /\ ~Works(proc[p], r)
  BY <1>2 DEF Retriable
<1> QED
  BY <1>1, <1>2, RetryStep

LEMMA RetryElsewhere ==
  ASSUME RetryInv, UNCHANGED <<proc, records, created, failedRuns>>,
         used'["kill"] = 0 => used["kill"] = 0, \A r \in Ids : Asked(r) => Asked(r)'
  PROVE  RetryInv'
BY DEF RetryInv, ExecsFit, RunsOfRows, Retried, Retriable, Sure

LEMMA AskedStays == ASSUME UNCHANGED broker PROVE \A r \in Ids : Asked(r) => Asked(r)'
BY DEF Asked

LEMMA SendAsks ==
  ASSUME IInv, NEW m \in Messages, Send(m)
  PROVE  /\ \A r \in Ids : Asked(r) => Asked(r)'
         /\ m.kind = "execute" => Asked(m.arg)'
<1>1. broker \in [Messages -> Nat]
  BY DEF IInv, TypeOK
<1>2. \A k \in Messages : broker'[k] = IF k = m THEN broker[k] + 1 ELSE broker[k]
  BY <1>1 DEF Send
<1>3. broker'[m] > 0 /\ \A k \in Messages : broker[k] > 0 => broker'[k] > 0
  BY <1>1, <1>2
<1> QED
  BY <1>3 DEF Asked

LEMMA RetryDelivers ==
  ASSUME IInv, RetryInv, NEW w \in Workers, NEW m \in Messages, Deliver(w, m)
  PROVE  RetryInv'
<1> DEFINE me == Entered(m)
<1>1. /\ w \in Procs /\ proc[w].pc = "idle" /\ proc' = [proc EXCEPT ![w] = me]
      /\ broker' = [broker EXCEPT ![m] = @ - 1]
      /\ UNCHANGED <<records, created, failedRuns, used>>
  BY DEF Deliver, Procs, dbVars
<1>2. /\ me.task = m /\ me.pc = FirstPhase[m.kind] /\ m.kind \in TaskKinds
      /\ m.kind = "execute" => me.op = "execute" /\ me.target = m.arg
  BY MessageFields DEF Entered, Idle
<1>3. me.pc \in {"create", "find", "fetch"} /\ (m.kind = "execute" => me.pc = "fetch")
  BY <1>2 DEF FirstPhase, TaskKinds
<1> HIDE DEF me
<1>4. proc'[w] = me /\ Elsewhere(w)
  BY <1>1, Moves
<1>5. ExecFits(proc'[w])
  BY <1>2, <1>3, <1>4 DEF ExecFits
<1>6. ASSUME NEW r \in Ids, Asked(r) PROVE Asked(r)' \/ Works(proc'[w], r)
  <2>1. PICK k \in Messages : k.kind = "execute" /\ k.arg = r /\ broker[k] > 0
    BY <1>6 DEF Asked
  <2>2. CASE k = m
    BY <1>2, <1>3, <1>4, <2>1, <2>2 DEF Works
  <2>3. CASE k # m
    <3>1. broker'[k] = broker[k]
      BY <1>1, <2>3 DEF IInv, TypeOK
    <3> QED
      BY <2>1, <3>1 DEF Asked
  <2> QED
    BY <2>2, <2>3
<1>7. \A r \in Ids : ~Works(proc[w], r)
  BY <1>1 DEF Works
<1> QED
  BY <1>1, <1>4, <1>5, <1>6, <1>7, RetryQuiet

LEMMA RetryPrepares ==
  ASSUME IInv, RetryInv, NEW p \in Procs, Prepares(p), created < MaxRecords,
         \/ UNCHANGED <<records, created>>
         \/ records' = [records EXCEPT ![created + 1] = proc[p].copy] /\ created' = created + 1
  PROVE  RetryInv'
<1>1. /\ Elsewhere(p) /\ UNCHANGED <<broker, failedRuns, used>>
      /\ \A r \in Ids : ~Works(proc[p], r)
  BY DEF Prepares, Works
<1>2. ExecFits(proc'[p])
  BY DEF Prepares, ExecFits
<1>3. CASE UNCHANGED <<records, created>>
  BY <1>1, <1>2, <1>3, AskedStays, RetryQuiet
<1>4. CASE records' = [records EXCEPT ![created + 1] = proc[p].copy] /\ created' = created + 1
  <2>1. created \in Nat /\ records \in [Ids -> Row]
    BY DEF IInv, TypeOK
  <2>2. \A r \in Ids : r <= created => r <= created' /\ records'[r] = records[r]
    BY <1>4, <2>1 DEF Ids
  <2>3. \A r \in Ids : failedRuns'[r] > 0 => failedRuns[r] > 0 /\ r <= created
    BY <1>1 DEF RetryInv, RunsOfRows
  <2>4. RunsOfRows'
    BY <2>2, <2>3 DEF RunsOfRows
  <2> QED
    BY <1>1, <1>2, <2>2, <2>3, <2>4, AskedStays, RetryStep
<1> QED
  BY <1>3, <1>4

LEMMA RetryFetches ==
  ASSUME IInv, RowInv, RetryInv, NEW p \in Procs, FetchRecord(p)
  PROVE  RetryInv'
<1> DEFINE row == records[proc[p].target]
           op  == proc[p].op
<1>1. /\ proc[p].pc = "fetch" /\ Elsewhere(p)
      /\ UNCHANGED <<records, created, broker, failedRuns, used>>
      /\ proc[p].target \in Ids /\ ExecFits(proc[p])
  BY FetchEffect DEF IInv, PhasesOK, WellFormed, Shape, RetryInv, ExecsFit
<1>2. op = "execute" /\ row.status \in Admitted[op] => row.status = "QUEUED"
  BY <1>1 DEF RowInv, SoundRows, Sound, Settled, Admitted
<1>3. row.status = "QUEUED" => row.retries = 0
  BY <1>1 DEF RowInv, SoundRows, Sound
<1>4. op = "execute" /\ row.status = "QUEUED" => row.status \in Admitted[op]
  BY DEF Admitted
<1>5. ExecFits(proc'[p])
  BY <1>1, <1>2, <1>3, FetchEffect DEF ExecFits
<1>6. ASSUME NEW r \in Ids, Works(proc[p], r), records[r].status = "QUEUED"
      PROVE  Works(proc'[p], r)
  <2>1. op = "execute" /\ proc[p].target = r
    BY <1>1, <1>6 DEF Works, ExecFits
  <2> QED
    BY <1>4, <1>6, <2>1, FetchEffect DEF Works
<1> QED
  BY <1>1, <1>5, <1>6, AskedStays, RetryQuiet

LEMMA RetryContinues ==
  ASSUME RetryInv, NEW p \in Procs, Continues(p)
  PROVE  RetryInv'
<1>1. ExecFits(proc'[p])
  BY DEF RetryInv, ExecsFit, ExecFits, Continues
<1>2. \A r \in Ids : Works(proc[p], r) => Works(proc'[p], r)
  BY DEF Works, Continues
<1> QED
  BY <1>1, <1>2, AskedStays, RetryQuiet DEF Continues

(* A row that is saved needs its execution no more.                        *)
LEMMA RetrySaves ==
  ASSUME IInv, RetryInv, NEW p \in Procs, NEW row, Saves(p, row),
         UNCHANGED failedRuns, used'["kill"] = 0 => used["kill"] = 0,
         \A r \in Ids : Asked(r) => Asked(r)'
  PROVE  RetryInv'
<1>1. /\ proc[p].target \in Ids /\ records \in [Ids -> Row] /\ Elsewhere(p)
      /\ records' = [records EXCEPT ![proc[p].target] = row] /\ row.status # "QUEUED"
      /\ proc[p].pc \in {"driver", "commit"} /\ UNCHANGED created
      /\ proc'[p].pc \in {"idle", "raised", "done"} /\ ExecFits(proc[p])
  BY DEF Saves, IInv, TypeOK, RetryInv, ExecsFit
<1>2. \A r \in Ids : records'[r] = IF r = proc[p].target THEN row ELSE records[r]
  BY <1>1
<1>3. ExecFits(proc'[p])
  BY <1>1 DEF ExecFits
<1>4. \A r \in Ids : Works(proc[p], r) => r = proc[p].target
  BY <1>1 DEF Works, ExecFits
<1>5. RunsOfRows'
  BY <1>1 DEF RetryInv, RunsOfRows
<1> QED
  BY <1>1, <1>2, <1>3, <1>4, <1>5, RetryStep

(* _handle_failure of an execution: the first of its retries is scheduled, *)
(* as the exception takes back the failure that was counted on the row.    *)
LEMMA RetryFails ==
  ASSUME IInv, RowInv, RetryInv, NEW p \in Procs, HandleFailure(p)
  PROVE  RetryInv'
<1> PICK t : t = proc[p].target
  OBVIOUS
<1>1. /\ proc[p].pc = "driver" /\ t \in Ids /\ t <= created /\ ExecFits(proc[p])
      /\ proc[p].copy \in Row /\ proc'[p].pc \in {"idle", "raised", "done"} /\ Elsewhere(p)
      /\ Spend("failure") /\ UNCHANGED created
  BY FailureEffect DEF IInv, TypeOK, Process, RetryInv, ExecsFit
<1>2. used'["kill"] = 0 => used["kill"] = 0
  BY <1>1, DeathIsFinal DEF EnvKinds
<1>3. Execute(t) \in Messages /\ Execute(t).kind = "execute" /\ Execute(t).arg = t
  BY <1>1, SentMessages DEF Execute
<1>4. CanRetry(Failed(proc[p].copy)) => Send(Execute(t))
  BY FailureEffect
<1>5. Send(Execute(t)) \/ UNCHANGED broker
  BY FailureEffect
<1>6. \A r \in Ids : Asked(r) => Asked(r)'
  BY <1>3, <1>5, SendAsks, AskedStays
<1>7. CASE /\ proc[p].op = "execute" /\ UNCHANGED records
           /\ failedRuns' = [failedRuns EXCEPT ![t] = @ + 1]
  <2>1. failedRuns \in [Ids -> Nat]
    BY DEF IInv, TypeOK
  <2>2. \A r \in Ids : r # t => failedRuns'[r] = failedRuns[r]
    BY <1>7, <2>1
  <2>3. RunsOfRows'
    BY <1>1, <2>2 DEF RetryInv, RunsOfRows
  <2>4. ASSUME Retriable' PROVE Asked(t)'
    <3>1. proc[p].copy.retries = 0 /\ MaxRetries > 1
      BY <1>1, <1>7, <2>4 DEF ExecFits, Retriable
    <3>2. /\ Failed(proc[p].copy).status = "FAILED"
          /\ Failed(proc[p].copy).retries = proc[p].copy.retries + 1
      BY <1>1 DEF Failed, Row
    <3>3. Failed(proc[p].copy).retries < MaxRetries
      <4> PICK n : n = Failed(proc[p].copy).retries
        OBVIOUS
      <4>1. n = 1
        BY <3>1, <3>2
      <4> QED
        BY <3>1, <4>1, ConstantsAssumption
    <3>4. CanRetry(Failed(proc[p].copy))
      BY <3>2, <3>3 DEF CanRetry
    <3> QED
      BY <1>3, <1>4, <3>4, SendAsks
  <2>5. \A r \in Ids : Works(proc[p], r) => r = t
    BY <1>1 DEF Works, ExecFits
  <2>6. ExecFits(proc'[p])
    BY <1>1 DEF ExecFits
  <2> QED
    BY <1>1, <1>2, <1>6, <1>7, <2>2, <2>3, <2>4, <2>5, <2>6, RetryStep
<1>8. CASE Saves(p, Failed(proc[p].copy)) /\ UNCHANGED failedRuns
  <2> PICK row : row = Failed(proc[p].copy)
    OBVIOUS
  <2> QED
    BY <1>2, <1>6, <1>8, RetrySaves
<1> QED
  BY <1>7, <1>8, FailureEffect

(* A task that dies with its node is delivered again (acks_late).          *)
LEMMA RetryDies ==
  ASSUME IInv, RetryInv, NEW p \in Procs, Crash(p) \/ Kill(p)
  PROVE  RetryInv'
<1>1. /\ Elsewhere(p) /\ ExecFits(proc'[p])
      /\ UNCHANGED <<records, created, failedRuns>>
  BY Stops DEF Crash, Kill, dbVars, ExecFits
<1>2. CASE Kill(p)
  <2>1. used'["kill"] # 0
    <3>1. used \in [EnvKinds -> Nat] /\ "kill" \in EnvKinds
      BY DEF IInv, TypeOK, EnvKinds
    <3> QED
      BY <1>2, <3>1 DEF Kill, Spend
  <2>2. UNCHANGED broker
    BY <1>2 DEF Kill
  <2> QED
    BY <1>1, <2>1, <2>2, AskedStays, RetryQuiet
<1>3. CASE Crash(p)
  <2> PICK m : m = proc[p].task
    OBVIOUS
  <2>1. /\ Spend("crash")
        /\ IF m.kind \in AcksLate THEN Send(m) ELSE UNCHANGED broker
    BY <1>3 DEF Crash
  <2>2. used'["kill"] = 0 => used["kill"] = 0
    BY <2>1, DeathIsFinal DEF EnvKinds
  <2>3. m.kind \in AcksLate => m \in Messages
    <3>1. m \in Messages \/ m = NoTask \/ m \in RollbackCalls
      BY DEF IInv, TypeOK, Process
    <3>2. NoTask.kind \notin AcksLate /\ \A c \in RollbackCalls : c.kind \notin AcksLate
      BY DEF NoTask, RollbackCalls, AcksLate
    <3> QED
      BY <3>1, <3>2
  <2>4. \A r \in Ids : Asked(r) => Asked(r)'
    BY <2>1, <2>3, SendAsks, AskedStays
  <2>5. ASSUME NEW r \in Ids, Works(proc[p], r) PROVE Asked(r)'
    <3>1. m.kind = "execute" /\ m.arg = r /\ m.kind \in AcksLate
      BY <2>5 DEF Works, AcksLate
    <3> QED
      BY <2>1, <2>3, <3>1, SendAsks
  <2> QED
    BY <1>1, <2>2, <2>4, <2>5, RetryQuiet
<1> QED
  BY <1>2, <1>3

LEMMA RetryKept ==
  ASSUME IInv, RowInv, RetryInv, [Next]_vars
  PROVE  RetryInv'
<1>1. ASSUME NEW p \in Procs, Operate(p) PROVE RetryInv'
  <2>1. CASE CreateDeployment(p) \/ FindActive(p)
    <3>1. Prepares(p) /\ UNCHANGED <<records, created, failedRuns, used, broker>> /\ Elsewhere(p)
      BY <2>1, CreateEffect, FindEffect DEF Prepares
    <3>2. ExecFits(proc'[p]) /\ \A r \in Ids : ~Works(proc[p], r)
      BY <3>1 DEF Prepares, ExecFits, Works
    <3> QED
      BY <3>1, <3>2, AskedStays, RetryQuiet
  <2>2. CASE InsertRecord(p)
    BY <2>2, InsertEffect, RetryPrepares
  <2>3. CASE FetchRecord(p)
    BY <2>3, RetryFetches
  <2>4. CASE LockRow(p) \/ NextStage(p) \/ StartContainer(p) \/ StopContainer(p)
    BY <2>4, LockEffect, NextStageEffect, StartEffect, StopEffect, RetryContinues
  <2>5. CASE Commit(p)
    <3> PICK row : row = proc[p].copy
      OBVIOUS
    <3>1. Saves(p, row) /\ UNCHANGED <<broker, failedRuns, used>>
      BY <2>5, CommitEffect
    <3> QED
      BY <3>1, AskedStays, RetrySaves
  <2>6. CASE RetryTask(p) \/ Acknowledge(p)
    <3>1. Leave(p, "done") \/ Acknowledge(p)
      BY <2>6 DEF RetryTask
    <3>2. /\ Elsewhere(p) /\ UNCHANGED <<records, created, failedRuns, used>>
          /\ proc[p].pc \in {"raised", "done"} /\ proc'[p].pc \in {"idle", "raised", "done"}
      BY <2>6, <3>1, Leaves, Stops DEF RetryTask, Acknowledge, dbVars
    <3>3. ExecFits(proc'[p]) /\ \A r \in Ids : ~Works(proc[p], r)
      BY <3>2 DEF ExecFits, Works
    <3>4. \A r \in Ids : Asked(r) => Asked(r)'
      <4>1. CASE UNCHANGED broker
        BY <4>1, AskedStays
      <4>2. CASE /\ proc[p].pc = "raised" /\ proc[p].task.tries < TaskRetries[proc[p].task.kind]
                 /\ Send([proc[p].task EXCEPT !.tries = @ + 1])
        <5>1. proc[p].task \in Messages
          BY <4>2 DEF IInv, PhasesOK, WellFormed, Shape
        <5>2. [proc[p].task EXCEPT !.tries = @ + 1] \in Messages
          BY <4>2, <5>1, RetriedMessage
        <5> QED
          BY <4>2, <5>2, SendAsks
      <4> QED
        BY <2>6, <4>1, <4>2 DEF RetryTask, Acknowledge
    <3> QED
      BY <3>2, <3>3, <3>4, RetryQuiet
  <2> QED
    BY <1>1, <2>1, <2>2, <2>3, <2>4, <2>5, <2>6 DEF Operate
<1>2. CASE Environment
  <2>1. Workers \subseteq Procs /\ Requests \subseteq Procs
    BY DEF Procs
  <2>2. ASSUME NEW p \in Procs, HandleFailure(p) \/ Crash(p) \/ Kill(p) PROVE RetryInv'
    BY <2>2, RetryFails, RetryDies
  <2>3. ASSUME NEW p \in Requests, NEW r \in Ids, NEW v \in Versions, RollbackRequest(p, r, v)
        PROVE  RetryInv'
    <3> DEFINE me == [pc |-> "update", op |-> "rollback", target |-> r, copy |-> records[r],
                      task |-> [kind |-> "rollback", arg |-> r, ver |-> v, tries |-> 0]]
    <3>1. /\ p \in Procs /\ proc' = [proc EXCEPT ![p] = me]
          /\ UNCHANGED <<records, created, broker, failedRuns>>
          /\ proc[p].pc = "idle" /\ Spend("rollback")
      BY <2>1, <2>3 DEF RollbackRequest, dbVars
    <3>2. me.op = "rollback" /\ me.task.kind = "rollback"
      OBVIOUS
    <3> HIDE DEF me
    <3>3. proc'[p] = me /\ Elsewhere(p)
      BY <3>1, Moves
    <3>4. ExecFits(proc'[p]) /\ \A z \in Ids : ~Works(proc[p], z)
      BY <3>1, <3>2, <3>3 DEF ExecFits, Works
    <3>5. used'["kill"] = 0 => used["kill"] = 0
      BY <3>1, DeathIsFinal DEF EnvKinds
    <3> QED
      BY <3>1, <3>3, <3>4, <3>5, AskedStays, RetryQuiet
  <2>4. ASSUME UNCHANGED <<proc, records, created, failedRuns>>,
               NEW k \in EnvKinds, Spend(k) \/ UNCHANGED used,
               NEW m \in Messages, Send(m) \/ UNCHANGED broker
        PROVE  RetryInv'
    <3>1. used'["kill"] = 0 => used["kill"] = 0
      BY <2>4, DeathIsFinal
    <3>2. \A r \in Ids : Asked(r) => Asked(r)'
      BY <2>4, SendAsks, AskedStays
    <3> QED
      BY <2>4, <3>1, <3>2, RetryElsewhere
  <2>5. {"upgrade", "uninstall", "retry", "check"} \subseteq EnvKinds
    BY DEF EnvKinds
  <2>6. ASSUME NEW s \in Subs, Install(s) \/ UninstallProduct(s) PROVE RetryInv'
    BY <2>4, <2>5, <2>6, SentMessages DEF Install, UninstallProduct, dbVars
  <2>7. ASSUME NEW s \in Subs, NEW v \in Versions, UpgradeProduct(s, v) PROVE RetryInv'
    <3>1. UpgradeFrom(s, subVersion[s]) \in Messages
      BY SentMessages DEF IInv, TypeOK
    <3> QED
      BY <2>4, <2>5, <2>7, <3>1 DEF UpgradeProduct
  <2>8. ASSUME NEW r \in Ids, RetryRequest(r) \/ HealthCheck(r) PROVE RetryInv'
    BY <2>4, <2>5, <2>8, SentMessages DEF RetryRequest, HealthCheck, dbVars
  <2>9. CASE ViewInfra \/ \E s \in Subs : InstallCommits(s)
    BY <2>9, AskedStays, RetryElsewhere DEF ViewInfra, InstallCommits
  <2> QED
    BY <1>2, <2>1, <2>2, <2>3, <2>6, <2>7, <2>8, <2>9 DEF Environment
<1>3. CASE UNCHANGED vars
  BY <1>3, AskedStays, RetryElsewhere DEF vars, dbVars
<1> QED
  BY <1>1, <1>2, <1>3, RetryDelivers DEF Next

(* A deployment that failed and is QUEUED again has an execution in the    *)
(* queue or in a worker, however many nodes crash, unless a worker child is*)
(* killed on its own.                                                      *)
THEOREM RetriesAreNeverLost == Spec => []RetryNeverLost
<1>1. Init => RetryInv
  <2> SUFFICES ASSUME Init PROVE RetryInv
    OBVIOUS
  <2>1. ExecFits(Idle)
    BY DEF ExecFits, Idle
  <2>2. ExecsFit
    BY <2>1 DEF Init, ExecsFit
  <2>3. \A r \in Ids : ~(failedRuns[r] > 0)
    BY DEF Init
  <2> QED
    BY <2>2, <2>3 DEF RetryInv, RunsOfRows, Retried
<1>2. RetryInv => RetryNeverLost
  <2> SUFFICES ASSUME RetryInv, Retriable, NEW r \in Ids,
                      records[r].status = "QUEUED", failedRuns[r] > 0
               PROVE  Pending(r)
    BY DEF RetryNeverLost, Retriable
  <2>1. Sure(r)
    BY DEF RetryInv, Retried
  <2> QED
    BY <2>1 DEF Sure, Asked, Works, Pending
<1> QED
  BY <1>1, <1>2, RetryKept, Typing, RowsStaySound, PTL DEF Spec
-----------------------------------------------------------------------------
(* One worker and no rollback requests: the engine implements              *)
(* DeploymentLifecycle.                                                    *)
OneProcess == Requests = {} /\ \A v, w \in Workers : v = w

(* The only process has every lock, and an instance fresher than any save. *)
SerialFits(p) ==
  /\ \A r \in Ids : rowLock[r] = p => UsesDriver(p) /\ proc[p].target = r
  /\ proc[p].pc = "fetch" /\ proc[p].op = "decommission" =>
       records[proc[p].target].status = "RUNNING"
  /\ proc[p].pc = "update" =>
       /\ proc[p].op # "rollback"
       /\ records[proc[p].target].status = proc[p].copy.status
       /\ proc[p].copy.status = IF proc[p].op = "execute" THEN "QUEUED" ELSE "RUNNING"
  /\ proc[p].pc = "commit" => proc[p].copy.status \in {"RUNNING", "DECOMMISSIONED"}
SerialInv == \A p \in Procs : SerialFits(p)

LEMMA Alone ==
  ASSUME OneProcess, NEW p \in Procs
  PROVE  p \in Workers /\ \A q \in Procs : q = p
BY DEF OneProcess, Procs

LEMMA SerialAlone ==
  ASSUME OneProcess, NEW p \in Procs, SerialFits(p)'
  PROVE  SerialInv'
<1>1. \A q \in Procs : q = p
  BY Alone
<1> QED
  BY <1>1 DEF SerialInv

(* A step outside the transactions.                                        *)
LEMMA SerialAway ==
  ASSUME OneProcess, SerialInv, NEW p \in Procs, UNCHANGED rowLock, ~UsesDriver(p),
         proc'[p].pc \notin {"update", "driver", "commit"},
         proc'[p].pc = "fetch" /\ proc'[p].op = "decommission" =>
           records'[proc'[p].target].status = "RUNNING"
  PROVE  SerialInv'
<1>1. \A r \in Ids : rowLock[r] # p
  BY DEF SerialInv, SerialFits
<1> QED
  BY <1>1, SerialAlone DEF SerialFits, UsesDriver

(* A step within a transaction.                                            *)
LEMMA SerialGoesOn ==
  ASSUME OneProcess, SerialInv, NEW p \in Procs, UNCHANGED rowLock, Continues(p),
         proc[p].pc = "driver",
         proc'[p].pc = "commit" => proc'[p].copy.status \in {"RUNNING", "DECOMMISSIONED"}
  PROVE  SerialInv'
BY SerialAlone DEF SerialInv, SerialFits, Continues, UsesDriver

(* The end of a transaction.                                               *)
LEMMA SerialEnds ==
  ASSUME OneProcess, IInv, NEW p \in Procs, rowLock' = Unlocked(p),
         proc'[p].pc \in {"idle", "raised", "done"}
  PROVE  SerialInv'
<1>1. \A r \in Ids : rowLock'[r] # p
  BY ConstantsAssumption DEF Unlocked
<1> QED
  BY <1>1, SerialAlone DEF SerialFits

LEMMA SerialLocks ==
  ASSUME OneProcess, IInv, SerialInv, NEW p \in Procs, LockRow(p)
  PROVE  SerialInv'
<1>1. /\ proc[p].pc = "update" /\ rowLock' = [rowLock EXCEPT ![proc[p].target] = p]
      /\ rowLock \in [Ids -> Procs \cup {None}]
  BY DEF LockRow, IInv, TypeOK
<1>2. proc'[p].pc = "driver" /\ proc'[p].target = proc[p].target
  BY LockEffect DEF Continues
<1>3. \A r \in Ids : rowLock[r] # p
  BY <1>1 DEF SerialInv, SerialFits, UsesDriver
<1>4. \A r \in Ids : rowLock'[r] = p => r = proc[p].target
  BY <1>1, <1>3
<1> QED
  BY <1>2, <1>4, SerialAlone DEF SerialFits, UsesDriver

LEMMA SerialFetches ==
  ASSUME OneProcess, IInv, RowInv, SerialInv, NEW p \in Procs, FetchRecord(p)
  PROVE  SerialInv'
<1> DEFINE row == records[proc[p].target]
           op  == proc[p].op
<1>1. /\ proc[p].pc = "fetch" /\ proc[p].target \in Ids
      /\ op \in {"execute", "upgrade", "decommission"}
      /\ UNCHANGED <<records, rowLock>>
  BY FetchEffect DEF IInv, PhasesOK, WellFormed, Shape
<1>2. \A r \in Ids : rowLock'[r] # p
  BY <1>1 DEF SerialInv, SerialFits, UsesDriver
<1>3. CASE proc'[p].pc \in {"idle", "raised", "done"}
  BY <1>2, <1>3, SerialAlone DEF SerialFits
<1>4. CASE /\ row.status \in Admitted[op]
           /\ proc'[p].pc = "update" /\ proc'[p].copy = row
           /\ proc'[p].op = op /\ proc'[p].target = proc[p].target
  <2>1. op = "decommission" => row.status = "RUNNING"
    BY <1>1 DEF SerialInv, SerialFits
  <2>2. op = "execute" => row.status = "QUEUED"
    BY <1>1, <1>4 DEF RowInv, SoundRows, Sound, Settled, Admitted
  <2>3. op = "upgrade" => row.status = "RUNNING"
    BY <1>4 DEF Admitted
  <2>4. row.status = IF op = "execute" THEN "QUEUED" ELSE "RUNNING"
    BY <1>1, <2>1, <2>2, <2>3
  <2>5. records' = records
    BY <1>1
  <2> QED
    BY <1>1, <1>2, <1>4, <2>4, <2>5, SerialAlone DEF SerialFits
<1> QED
  BY <1>3, <1>4, FetchEffect

LEMMA SerialDelivers ==
  ASSUME OneProcess, IInv, SerialInv, NEW w \in Workers, NEW m \in Messages, Deliver(w, m)
  PROVE  SerialInv'
<1>1. /\ w \in Procs /\ proc[w].pc = "idle" /\ proc' = [proc EXCEPT ![w] = Entered(m)]
      /\ UNCHANGED <<records, rowLock>>
  BY DEF Deliver, Procs, dbVars
<1>2. Entered(m).op \in {"none", "execute"} /\ Entered(m).pc \in {"create", "find", "fetch"}
  <2>1. m.kind \in TaskKinds /\ Entered(m).pc = FirstPhase[m.kind]
    BY MessageFields DEF Entered, Idle
  <2> QED
    BY <2>1 DEF FirstPhase, TaskKinds, Entered, Idle
<1>3. proc'[w] = Entered(m)
  BY <1>1, Moves
<1> QED
  BY <1>1, <1>2, <1>3, SerialAway DEF UsesDriver

LEMMA SerialKept ==
  ASSUME OneProcess, IInv, RowInv, SerialInv, [Next]_vars
  PROVE  SerialInv'
<1>1. ASSUME NEW p \in Procs, Operate(p) PROVE SerialInv'
  <2>1. CASE CreateDeployment(p) \/ FindActive(p)
    <3>1. Prepares(p) /\ UNCHANGED <<records, rowLock>> /\ Retirable(p)
      BY <2>1, CreateEffect, FindEffect DEF Retirable
    <3>2. records' = records
      BY <3>1
    <3> QED
      BY <3>1, <3>2, SerialAway DEF Prepares, UsesDriver, Retirable
  <2>2. CASE InsertRecord(p)
    BY <2>2, InsertEffect, SerialAway DEF Prepares, UsesDriver
  <2>3. CASE FetchRecord(p)
    BY <2>3, SerialFetches
  <2>4. CASE LockRow(p)
    BY <2>4, SerialLocks
  <2>5. CASE NextStage(p)
    BY <2>5, NextStageEffect, SerialGoesOn
  <2>6. CASE StartContainer(p)
    BY <2>6, StartEffect, SerialGoesOn
  <2>7. CASE StopContainer(p)
    BY <2>7, StopEffect, SerialGoesOn
  <2>8. CASE Commit(p)
    BY <2>8, CommitEffect, SerialEnds DEF Saves
  <2>9. CASE RetryTask(p) \/ Acknowledge(p)
    <3>1. Leave(p, "done") \/ Acknowledge(p)
      BY <2>9 DEF RetryTask
    <3>2. /\ UNCHANGED rowLock /\ proc[p].pc \in {"raised", "done"}
          /\ proc'[p].pc \in {"idle", "raised", "done"}
      BY <2>9, <3>1, Leaves, Stops DEF RetryTask, Acknowledge
    <3> QED
      BY <3>2, SerialAway DEF UsesDriver
  <2> QED
    BY <1>1, <2>1, <2>2, <2>3, <2>4, <2>5, <2>6, <2>7, <2>8, <2>9 DEF Operate
<1>2. ASSUME UNCHANGED <<proc, records, rowLock>> PROVE SerialInv'
  BY <1>2 DEF SerialInv, SerialFits, UsesDriver
<1>3. CASE Environment
  <2>1. Workers \subseteq Procs /\ Requests = {}
    BY DEF Procs, OneProcess
  <2>2. ASSUME NEW p \in Procs, HandleFailure(p) PROVE SerialInv'
    BY <2>2, FailureEffect, SerialEnds
  <2>3. ASSUME NEW p \in Procs, Crash(p) \/ Kill(p) PROVE SerialInv'
    <3>1. rowLock' = Unlocked(p)
      BY <2>3 DEF Crash, Kill
    <3> QED
      BY <2>3, <3>1, Stops, SerialEnds
  <2> QED
    BY <1>2, <1>3, <2>1, <2>2, <2>3
       DEF Environment, Install, InstallCommits, UninstallProduct, UpgradeProduct, ViewInfra,
           RetryRequest, HealthCheck, dbVars
<1>4. CASE UNCHANGED vars
  BY <1>2, <1>4 DEF vars, dbVars
<1> QED
  BY <1>1, <1>3, <1>4, SerialDelivers DEF Next

(* What the abstract specification sees of the engine.                     *)
Shown ==
  \A p \in Procs, r \in Ids :
    /\ Kept[r] = records[r].status
    /\ Seen[r] = IF UsesDriver(p) /\ proc[p].target = r THEN proc[p].copy.status
                 ELSE records[r].status

LEMMA SeenNow == ASSUME OneProcess, IInv, LocksHeld, SerialInv PROVE Shown
<1> SUFFICES ASSUME NEW p \in Procs, NEW r \in Ids
             PROVE  /\ Kept[r] = records[r].status
                    /\ Seen[r] = IF UsesDriver(p) /\ proc[p].target = r
                                 THEN proc[p].copy.status ELSE records[r].status
  BY DEF Shown
<1>1. rowLock[r] \in {None, p} /\ p # None
  BY Alone, ConstantsAssumption DEF IInv, TypeOK
<1>2. rowLock[r] = p <=> UsesDriver(p) /\ proc[p].target = r
  BY DEF LocksHeld, SerialInv, SerialFits
<1> QED
  BY <1>1, <1>2 DEF Seen, Kept

LEMMA SeenNext == ASSUME OneProcess, IInv', LocksHeld', SerialInv' PROVE Shown'
<1> SUFFICES ASSUME NEW p \in Procs, NEW r \in Ids
             PROVE  /\ Kept'[r] = records'[r].status
                    /\ Seen'[r] = IF UsesDriver(p)' /\ proc'[p].target = r
                                  THEN proc'[p].copy.status ELSE records'[r].status
  BY DEF Shown
<1>1. rowLock'[r] \in {None, p} /\ p # None
  BY Alone, ConstantsAssumption DEF IInv, TypeOK
<1>2. rowLock'[r] = p <=> UsesDriver(p)' /\ proc'[p].target = r
  BY DEF LocksHeld, SerialInv, SerialFits
<1> QED
  BY <1>1, <1>2 DEF Seen, Kept

LEMMA SeenAt ==
  ASSUME NEW t \in Ids, NEW s, \A r \in Ids : Seen'[r] = IF r = t THEN s ELSE Seen[r]
  PROVE  Seen' = [Seen EXCEPT ![t] = s]
BY DEF Seen

LEMMA KeptAt ==
  ASSUME NEW t \in Ids, NEW s, \A r \in Ids : Kept'[r] = IF r = t THEN s ELSE Kept[r]
  PROVE  Kept' = [Kept EXCEPT ![t] = s]
BY DEF Kept

LEMMA SameSeen == (\A r \in Ids : Seen'[r] = Seen[r]) => Seen' = Seen
BY DEF Seen

LEMMA SameKept == UNCHANGED records => Kept' = Kept
BY DEF Kept

(* Outside the transactions nothing but the INSERT is seen.                *)
LEMMA AwayUnseen ==
  ASSUME Shown, Shown', NEW p \in Procs, ~UsesDriver(p), ~UsesDriver(p)', UNCHANGED records
  PROVE  UNCHANGED <<Seen, Kept>>
BY SameSeen, SameKept DEF Shown

(* Each stage is a documented transition.                                  *)
LEMMA StageMoves ==
  ASSUME IInv, Shown, Shown', NEW p \in Procs, Continues(p),
         proc[p].pc = "update" => records[proc[p].target].status = proc[p].copy.status,
         <<proc[p].copy.status, proc'[p].copy.status>> \in Lifecycle!Documented
  PROVE  Lifecycle!Next
<1> PICK t : t = proc[p].target
  OBVIOUS
<1> PICK from, to : from = proc[p].copy.status /\ to = proc'[p].copy.status
  OBVIOUS
<1>1. t \in Ids /\ records' = records /\ UsesDriver(p)' /\ proc'[p].target = t
  BY DEF Continues, UsesDriver, IInv, PhasesOK, WellFormed, Shape
<1>2. Seen[t] = from
  BY <1>1 DEF Shown, Continues, UsesDriver
<1>3. \A r \in Ids : Seen'[r] = IF r = t THEN to ELSE Seen[r]
  BY <1>1 DEF Shown
<1>4. Seen' = [Seen EXCEPT ![t] = to] /\ Kept' = Kept
  BY <1>1, <1>3, SeenAt, SameKept
<1>5. <<from, to>> \in Lifecycle!Documented /\ <<from, to>>[1] = from /\ <<from, to>>[2] = to
  OBVIOUS
<1>6. Lifecycle!Move(t)
  BY <1>2, <1>4, <1>5 DEF Lifecycle!Move
<1> QED
  BY <1>1, <1>6 DEF Lifecycle!Next

LEMMA OperationMoves ==
  ASSUME OneProcess, IInv, SerialInv, Shown, Shown', NEW p \in Procs,
         LockRow(p) \/ NextStage(p) \/ StartContainer(p) \/ StopContainer(p)
  PROVE  Lifecycle!Next
<1>1. Continues(p)
  BY LockEffect, NextStageEffect, StartEffect, StopEffect
<1>2. proc[p].pc = "update" => records[proc[p].target].status = proc[p].copy.status
  BY DEF SerialInv, SerialFits
<1>3. CASE LockRow(p)
  <2>1. proc[p].pc = "update" /\ proc[p].op \in {"execute", "upgrade", "decommission"}
    BY <1>3 DEF LockRow, SerialInv, SerialFits, IInv, PhasesOK, WellFormed, Shape
  <2>2. proc[p].copy.status = IF proc[p].op = "execute" THEN "QUEUED" ELSE "RUNNING"
    BY <2>1 DEF SerialInv, SerialFits
  <2>3. <<proc[p].copy.status, proc'[p].copy.status>> \in
          {<<"QUEUED", "PROVISIONING">>, <<"RUNNING", "UPGRADING">>, <<"RUNNING", "STOPPING">>}
    BY <1>3, <2>1, <2>2, LockEffect
  <2> QED
    BY <1>1, <1>2, <2>3, StageMoves DEF Lifecycle!Documented
<1>4. CASE NextStage(p)
  <2>1. <<proc[p].copy.status, proc'[p].copy.status>> \in
          {<<"PROVISIONING", "PULLING_IMAGE">>, <<"PULLING_IMAGE", "CONFIGURING">>,
           <<"CONFIGURING", "STARTING">>, <<"STOPPED", "DECOMMISSIONED">>}
    BY <1>4, NextStageEffect DEF NextStatus
  <2> QED
    BY <1>1, <1>2, <2>1, StageMoves DEF Lifecycle!Documented
<1>5. CASE StartContainer(p)
  <2>1. <<proc[p].copy.status, proc'[p].copy.status>> \in
          {<<"STARTING", "RUNNING">>, <<"UPGRADING", "RUNNING">>, <<"ROLLBACK", "RUNNING">>}
    BY <1>5, StartEffect DEF Starting
  <2> QED
    BY <1>1, <1>2, <2>1, StageMoves DEF Lifecycle!Documented
<1>6. CASE StopContainer(p)
  <2>1. <<proc[p].copy.status, proc'[p].copy.status>> = <<"STOPPING", "STOPPED">>
    BY <1>6, StopEffect
  <2> QED
    BY <1>1, <1>2, <2>1, StageMoves DEF Lifecycle!Documented
<1> QED
  BY <1>3, <1>4, <1>5, <1>6

(* The INSERT creates a QUEUED row.                                        *)
LEMMA InsertCreates ==
  ASSUME IInv, RowInv, Shown, Shown', NEW p \in Procs, InsertRecord(p)
  PROVE  Lifecycle!Next \/ UNCHANGED <<Seen, Kept>>
<1>1. /\ ~UsesDriver(p) /\ ~UsesDriver(p)' /\ created < MaxRecords
      /\ proc[p].pc \in {"insert", "insert_infra"}
  BY InsertEffect DEF Prepares, UsesDriver
<1>2. CASE UNCHANGED records
  BY <1>1, <1>2, AwayUnseen
<1>3. CASE records' = [records EXCEPT ![created + 1] = proc[p].copy]
  <2> PICK t : t = created + 1
    OBVIOUS
  <2>1. created \in Nat /\ records \in [Ids -> Row]
    BY DEF IInv, TypeOK
  <2>2. t \in Ids /\ ~(t <= created)
    <3> PICK n \in Nat : n = created
      BY <2>1
    <3>1. n < MaxRecords /\ t = n + 1 /\ MaxRecords \in Nat
      BY <1>1, ConstantsAssumption
    <3>2. t \in 1..MaxRecords /\ ~(t <= n)
      BY <3>1
    <3> QED
      BY <3>2 DEF Ids
  <2>3. records[t].status = "ABSENT" /\ proc[p].copy.status = "QUEUED"
    BY <1>1, <2>2 DEF RowInv, SoundRows, InstancesFit, Fits
  <2>4. \A r \in Ids : records'[r] = IF r = t THEN proc[p].copy ELSE records[r]
    BY <1>3, <2>1, <2>2
  <2>5. \A r \in Ids : /\ Seen'[r] = IF r = t THEN "QUEUED" ELSE Seen[r]
                       /\ Kept'[r] = IF r = t THEN "QUEUED" ELSE Kept[r]
    BY <1>1, <2>3, <2>4 DEF Shown
  <2>6. Seen' = [Seen EXCEPT ![t] = "QUEUED"] /\ Kept' = [Kept EXCEPT ![t] = "QUEUED"]
    BY <2>2, <2>5, SeenAt, KeptAt
  <2>7. Kept[t] = "ABSENT"
    BY <2>2, <2>3 DEF Shown
  <2> QED
    BY <2>2, <2>6, <2>7 DEF Lifecycle!Next, Lifecycle!Create
<1> QED
  BY <1>2, <1>3, InsertEffect

(* A commit settles what was seen; a failure that is saved fails.          *)
LEMMA CommitSettles ==
  ASSUME IInv, RowInv, SerialInv, Shown, Shown', NEW p \in Procs, Commit(p)
  PROVE  Lifecycle!Next
<1> PICK t : t = proc[p].target
  OBVIOUS
<1> PICK s : s = proc[p].copy.status
  OBVIOUS
<1>1. /\ t \in Ids /\ records \in [Ids -> Row]
      /\ records' = [records EXCEPT ![t] = proc[p].copy]
      /\ UsesDriver(p) /\ ~UsesDriver(p)' /\ s \in {"RUNNING", "DECOMMISSIONED"}
  BY CommitEffect DEF Saves, UsesDriver, IInv, TypeOK, SerialInv, SerialFits
<1>2. \A r \in Ids : records'[r] = IF r = t THEN proc[p].copy ELSE records[r]
  BY <1>1
<1>3. \A r \in Ids : Seen'[r] = Seen[r] /\ Kept'[r] = IF r = t THEN s ELSE Kept[r]
  BY <1>1, <1>2 DEF Shown
<1>4. Seen' = Seen /\ Kept' = [Kept EXCEPT ![t] = s] /\ Seen[t] = s
  <2>1. \A r \in Ids : Seen'[r] = Seen[r]
    BY <1>3
  <2>2. \A r \in Ids : Kept'[r] = IF r = t THEN s ELSE Kept[r]
    BY <1>3
  <2>3. Seen[t] = s
    BY <1>1 DEF Shown
  <2>4. Kept' = [Kept EXCEPT ![t] = s]
    BY <1>1, <2>2, KeptAt
  <2> QED
    BY <2>1, <2>3, <2>4, SameSeen
<1>5. Lifecycle!Settle(t)
  BY <1>1, <1>4 DEF Lifecycle!Settle, Lifecycle!Resting
<1> QED
  BY <1>1, <1>5 DEF Lifecycle!Next

(* A transaction that is rolled back.                                      *)
LEMMA UndoneAborts ==
  ASSUME IInv, Shown, Shown', NEW p \in Procs, UNCHANGED records, ~UsesDriver(p)'
  PROVE  Lifecycle!Next \/ UNCHANGED <<Seen, Kept>>
<1>1. CASE ~UsesDriver(p)
  BY <1>1, AwayUnseen
<1>2. CASE UsesDriver(p)
  <2> PICK t : t = proc[p].target
    OBVIOUS
  <2>1. t \in Ids
    BY <1>2 DEF UsesDriver, IInv, PhasesOK, WellFormed, Shape
  <2>2. \A r \in Ids : Seen'[r] = IF r = t THEN Kept[t] ELSE Seen[r]
    BY <1>2, <2>1 DEF Shown
  <2>3. Seen' = [Seen EXCEPT ![t] = Kept[t]] /\ Kept' = Kept
    BY <2>1, <2>2, SeenAt, SameKept
  <2> QED
    BY <2>1, <2>3 DEF Lifecycle!Next, Lifecycle!Abort
<1> QED
  BY <1>1, <1>2

LEMMA FailureFails ==
  ASSUME IInv, RowInv, Shown, Shown', NEW p \in Procs, HandleFailure(p)
  PROVE  Lifecycle!Next \/ UNCHANGED <<Seen, Kept>>
<1> PICK t : t = proc[p].target
  OBVIOUS
<1>1. /\ t \in Ids /\ UsesDriver(p) /\ ~UsesDriver(p)'
      /\ proc[p].copy.status \in DriverStatuses
  BY FailureEffect DEF UsesDriver
<1>2. CASE UNCHANGED records
  BY <1>1, <1>2, UndoneAborts
<1>3. CASE Saves(p, Failed(proc[p].copy)) /\ Failed(proc[p].copy).status = "FAILED"
  <2> PICK row : row = Failed(proc[p].copy)
    OBVIOUS
  <2>1. records \in [Ids -> Row] /\ records' = [records EXCEPT ![t] = row]
    BY <1>3 DEF Saves, IInv, TypeOK
  <2>2. \A r \in Ids : records'[r] = IF r = t THEN row ELSE records[r]
    BY <1>1, <2>1
  <2>3. row.status = "FAILED"
    BY <1>3
  <2>4. \A r \in Ids : /\ Seen'[r] = IF r = t THEN "FAILED" ELSE Seen[r]
                       /\ Kept'[r] = IF r = t THEN "FAILED" ELSE Kept[r]
    BY <1>1, <2>2, <2>3 DEF Shown
  <2>5. Seen' = [Seen EXCEPT ![t] = "FAILED"] /\ Kept' = [Kept EXCEPT ![t] = "FAILED"]
    BY <1>1, <2>4, SeenAt, KeptAt
  <2>6. Seen[t] # "ABSENT"
    BY <1>1 DEF Shown, DriverStatuses, Starting
  <2> QED
    BY <1>1, <2>5, <2>6 DEF Lifecycle!Next, Lifecycle!Fail
<1> QED
  BY <1>2, <1>3, FailureEffect

LEMMA StepRefines ==
  ASSUME OneProcess, IInv, RowInv, LocksHeld, SerialInv, [Next]_vars
  PROVE  Lifecycle!Next \/ UNCHANGED <<Seen, Kept>>
<1>1. Shown /\ Shown'
  <2>1. IInv' /\ LocksHeld' /\ SerialInv'
    BY StepTyped, LocksHeldStep, SerialKept
  <2> QED
    BY <2>1, SeenNow, SeenNext
<1>2. ASSUME UNCHANGED <<proc, records, rowLock>> PROVE UNCHANGED <<Seen, Kept>>
  BY <1>2 DEF Seen, Kept
<1>3. ASSUME NEW w \in Workers, NEW m \in Messages, Deliver(w, m)
      PROVE  UNCHANGED <<Seen, Kept>>
  <2>1. /\ w \in Procs /\ proc[w].pc = "idle" /\ proc' = [proc EXCEPT ![w] = Entered(m)]
        /\ UNCHANGED records
    BY <1>3 DEF Deliver, Procs, dbVars
  <2>2. Entered(m).pc \in {"create", "find", "fetch"}
    <3>1. m.kind \in TaskKinds /\ Entered(m).pc = FirstPhase[m.kind]
      BY MessageFields DEF Entered, Idle
    <3> QED
      BY <3>1 DEF FirstPhase, TaskKinds
  <2>3. proc'[w] = Entered(m)
    BY <2>1, Moves
  <2>4. ~UsesDriver(w) /\ ~UsesDriver(w)'
    BY <2>1, <2>2, <2>3 DEF UsesDriver
  <2> QED
    BY <1>1, <2>1, <2>4, AwayUnseen
<1>4. ASSUME NEW p \in Procs, Operate(p) PROVE Lifecycle!Next \/ UNCHANGED <<Seen, Kept>>
  <2>1. CASE CreateDeployment(p) \/ FindActive(p)
    <3>1. ~UsesDriver(p) /\ ~UsesDriver(p)' /\ UNCHANGED records
      BY <2>1, CreateEffect, FindEffect DEF Prepares, UsesDriver
    <3> QED
      BY <1>1, <3>1, AwayUnseen
  <2>2. CASE InsertRecord(p)
    BY <1>1, <2>2, InsertCreates
  <2>3. CASE FetchRecord(p)
    <3>1. ~UsesDriver(p) /\ ~UsesDriver(p)' /\ UNCHANGED records
      BY <2>3, FetchEffect DEF UsesDriver
    <3> QED
      BY <1>1, <3>1, AwayUnseen
  <2>4. CASE LockRow(p) \/ NextStage(p) \/ StartContainer(p) \/ StopContainer(p)
    BY <1>1, <2>4, OperationMoves
  <2>5. CASE Commit(p)
    BY <1>1, <2>5, CommitSettles
  <2>6. CASE RetryTask(p) \/ Acknowledge(p)
    <3>1. Leave(p, "done") \/ Acknowledge(p)
      BY <2>6 DEF RetryTask
    <3>2. ~UsesDriver(p) /\ ~UsesDriver(p)' /\ UNCHANGED records
      BY <2>6, <3>1, Leaves, Stops DEF RetryTask, Acknowledge, dbVars, UsesDriver
    <3> QED
      BY <1>1, <3>2, AwayUnseen
  <2> QED
    BY <1>4, <2>1, <2>2, <2>3, <2>4, <2>5, <2>6 DEF Operate
<1>5. ASSUME Environment PROVE Lifecycle!Next \/ UNCHANGED <<Seen, Kept>>
  <2>1. Workers \subseteq Procs /\ Requests = {}
    BY DEF Procs, OneProcess
  <2>2. ASSUME NEW p \in Procs, HandleFailure(p)
        PROVE  Lifecycle!Next \/ UNCHANGED <<Seen, Kept>>
    BY <1>1, <2>2, FailureFails
  <2>3. ASSUME NEW p \in Procs, Crash(p) \/ Kill(p)
        PROVE  Lifecycle!Next \/ UNCHANGED <<Seen, Kept>>
    <3>1. ~UsesDriver(p)' /\ UNCHANGED records
      BY <2>3, Stops DEF UsesDriver, Crash, Kill, dbVars
    <3> QED
      BY <1>1, <3>1, UndoneAborts
  <2> QED
    BY <1>2, <1>5, <2>1, <2>2, <2>3
       DEF Environment, Install, InstallCommits, UninstallProduct, UpgradeProduct, ViewInfra,
           RetryRequest, HealthCheck, dbVars
<1>6. ASSUME UNCHANGED vars PROVE UNCHANGED <<Seen, Kept>>
  BY <1>2, <1>6 DEF vars, dbVars
<1> QED
  BY <1>3, <1>4, <1>5, <1>6 DEF Next

(* One worker without rollback requests takes every record along the       *)
(* transitions DeploymentRecord documents, each operation settled, failed  *)
(* or undone as a whole, whatever fails, crashes or is delivered again.    *)
THEOREM SerialEngineKeepsLifecycle ==
  ASSUME OneProcess
  PROVE  Spec => DocumentedLifecycle
<1>1. Init => LocksHeld /\ SerialInv /\ Lifecycle!Init
  <2> SUFFICES ASSUME Init PROVE LocksHeld /\ SerialInv /\ Lifecycle!Init
    OBVIOUS
  <2>1. \A p \in Procs : proc[p].pc = "idle"
    BY DEF Init, Idle
  <2>2. \A r \in Ids : rowLock[r] = None /\ records[r].status = "ABSENT"
    BY DEF Init, NoRow
  <2>3. SerialInv
    BY <2>1, <2>2, ConstantsAssumption DEF SerialInv, SerialFits
  <2>4. Lifecycle!Init
    BY <2>2 DEF Lifecycle!Init, Seen, Kept
  <2> QED
    BY <2>1, <2>3, <2>4 DEF LocksHeld, UsesDriver
<1>2. IInv /\ RowInv /\ LocksHeld /\ SerialInv /\ [Next]_vars =>
        LocksHeld' /\ SerialInv' /\ [Lifecycle!Next]_<<Seen, Kept>>
  BY LocksHeldStep, SerialKept, StepRefines
<1> QED
  BY <1>1, <1>2, Typing, RowsStaySound, PTL DEF Spec, DocumentedLifecycle, Lifecycle!Spec
=============================================================================
