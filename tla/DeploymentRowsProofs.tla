------------------------ MODULE DeploymentRowsProofs ------------------------
(***************************************************************************)
(* What the committed rows of DeploymentEngine may hold, for every value   *)
(* of its constants: no deployment is stuck half way, a QUEUED one has     *)
(* touched nothing, a DECOMMISSIONED one is stopped.                       *)
(***************************************************************************)
EXTENDS DeploymentEngineProofs

-----------------------------------------------------------------------------
(* A row that may be committed while the containers in L are live.         *)
Sound(row, L) ==
  /\ row.status \in Settled
  /\ row.status = "QUEUED" => row.container = 0 /\ row.retries = 0
  /\ row.status = "DECOMMISSIONED" => row.container \notin L
  /\ row.status = "RUNNING" => row.container # 0

(* A process whose instance is, or becomes, one: n deployments exist.      *)
Fits(me, n, L) ==
  /\ me.pc \in {"insert", "insert_infra"} =>
       me.copy.status = "QUEUED" /\ me.copy.container = 0 /\ me.copy.retries = 0
  /\ me.pc = "driver" /\ me.copy.status = "STOPPED" => me.copy.container \notin L
  /\ me.pc = "commit" => me.copy.status # "QUEUED" /\ Sound(me.copy, L)
  /\ me.pc = "fetch" /\ me.op = "decommission" => me.target <= n
  /\ me.pc \in {"update", "driver", "commit"} => me.target <= n

InstancesFit == \A p \in Procs : Fits(proc[p], created, live)
SoundRows ==
  \A r \in Ids : IF r <= created THEN Sound(records[r], live)
                 ELSE records[r].status = "ABSENT"

RowInv == InstancesFit /\ SoundRows

(* Stopping containers and inserting deployments spoils nothing.           *)
LEMMA SoundKept ==
  ASSUME NEW row, NEW L, NEW K, K \subseteq L, Sound(row, L)
  PROVE  Sound(row, K)
BY DEF Sound

LEMMA FitsKept ==
  ASSUME NEW me \in Process, NEW n \in Nat, NEW k \in Nat, n <= k,
         NEW L, NEW K, K \subseteq L, Fits(me, n, L)
  PROVE  Fits(me, k, K)
<1>1. me.target \in Nat
  <2>1. me.target \in {0} \cup Ids
    BY DEF Process
  <2> QED
    BY <2>1 DEF Ids
<1>2. me.target <= n => me.target <= k
  BY <1>1
<1>3. me.pc \in {"insert", "insert_infra"} =>
        me.copy.status = "QUEUED" /\ me.copy.container = 0 /\ me.copy.retries = 0
  BY DEF Fits
<1>4. me.pc = "driver" /\ me.copy.status = "STOPPED" => me.copy.container \notin K
  BY DEF Fits
<1>5. me.pc = "commit" => me.copy.status # "QUEUED" /\ Sound(me.copy, K)
  BY SoundKept DEF Fits
<1>6. me.pc = "fetch" /\ me.op = "decommission" => me.target <= k
  BY <1>2 DEF Fits
<1>7. me.pc \in {"update", "driver", "commit"} => me.target <= k
  BY <1>2 DEF Fits
<1> QED
  BY <1>3, <1>4, <1>5, <1>6, <1>7 DEF Fits

(* One process moves on, and at most stops a container.                    *)
LEMMA OneMoves ==
  ASSUME IInv, InstancesFit, NEW p \in Procs, NEW me,
         proc' = [proc EXCEPT ![p] = me], created' \in Nat, created <= created',
         live' \subseteq live, Fits(me, created', live')
  PROVE  InstancesFit'
<1> SUFFICES ASSUME NEW q \in Procs PROVE Fits(proc'[q], created', live')
  BY DEF InstancesFit
<1>1. created \in Nat /\ proc \in [Procs -> Process]
  BY DEF IInv, TypeOK
<1>2. CASE q = p
  BY <1>1, <1>2
<1>3. CASE q # p
  <2>1. proc'[q] = proc[q] /\ proc[q] \in Process
    BY <1>1, <1>3
  <2>2. Fits(proc[q], created, live)
    BY DEF InstancesFit
  <2> QED
    BY <1>1, <2>1, <2>2, FitsKept
<1> QED
  BY <1>2, <1>3

(* A process between operations carries nothing.                           *)
LEMMA AtRestFits ==
  ASSUME NEW me, NEW n, NEW L, me.pc \in {"idle", "create", "find", "raised", "done"}
  PROVE  Fits(me, n, L)
BY DEF Fits

(* No row changes, or one existing row is replaced by a sound one.         *)
LEMMA RowsStand ==
  ASSUME SoundRows, UNCHANGED <<records, created>>, live' \subseteq live
  PROVE  SoundRows'
BY SoundKept DEF SoundRows

LEMMA RowSaved ==
  ASSUME IInv, SoundRows, UNCHANGED <<created, live>>, NEW r \in Ids, r <= created,
         NEW row, Sound(row, live), records' = [records EXCEPT ![r] = row]
  PROVE  SoundRows'
<1> SUFFICES ASSUME NEW q \in Ids
             PROVE  IF q <= created THEN Sound(records'[q], live)
                    ELSE records'[q].status = "ABSENT"
  BY DEF SoundRows
<1>1. records \in [Ids -> Row]
  BY DEF IInv, TypeOK
<1>2. CASE q = r
  BY <1>1, <1>2
<1>3. CASE q # r
  <2>1. records'[q] = records[q]
    BY <1>1, <1>3
  <2> QED
    BY <2>1 DEF SoundRows
<1> QED
  BY <1>2, <1>3

-----------------------------------------------------------------------------
(* The steps that change no row and start no container.                    *)
LEMMA QuietStep ==
  ASSUME IInv, RowInv, NEW p \in Procs, NEW me, proc' = [proc EXCEPT ![p] = me],
         UNCHANGED <<records, created>>, live' \subseteq live, Fits(me, created, live')
  PROVE  RowInv'
<1>1. created \in Nat /\ created' = created /\ created <= created'
  BY DEF IInv, TypeOK
<1>2. InstancesFit /\ SoundRows
  BY DEF RowInv
<1>3. created' \in Nat /\ Fits(me, created', live')
  BY <1>1
<1>4. InstancesFit'
  BY <1>1, <1>2, <1>3, OneMoves
<1>5. SoundRows'
  BY <1>2, RowsStand
<1> QED
  BY <1>4, <1>5 DEF RowInv

LEMMA LeaveStep ==
  ASSUME IInv, RowInv, NEW p \in Procs, NEW phase \in {"raised", "done"},
         Leave(p, phase), UNCHANGED <<records, created, live>>
  PROVE  RowInv'
<1>1. Fits(Left(p, phase), created, live')
  BY LeftHoldsNothing, AtRestFits
<1> QED
  BY <1>1, QuietStep DEF Leave

LEMMA SaveStep ==
  ASSUME IInv, RowInv, NEW p \in Procs, Leave(p, "done"), UNCHANGED <<created, live>>,
         NEW r \in Ids, r <= created, NEW row, Sound(row, live),
         records' = [records EXCEPT ![r] = row]
  PROVE  RowInv'
<1>1. Fits(Left(p, "done"), created', live')
  BY LeftHoldsNothing, AtRestFits
<1>2. created' \in Nat /\ created <= created' /\ live' \subseteq live
  BY DEF IInv, TypeOK
<1>3. InstancesFit /\ SoundRows
  BY DEF RowInv
<1>4. InstancesFit'
  BY <1>1, <1>2, <1>3, OneMoves DEF Leave
<1>5. SoundRows'
  BY <1>3, RowSaved
<1> QED
  BY <1>4, <1>5 DEF RowInv

LEMMA DeliverRows ==
  ASSUME IInv, RowInv, NEW w \in Workers, NEW m \in Messages, Deliver(w, m)
  PROVE  RowInv'
<1>1. m.kind \in TaskKinds
  BY MessageFields
<1>2. /\ Entered(m).pc = FirstPhase[m.kind]
      /\ Entered(m).op \in {"none", "execute"}
  BY DEF Entered, Idle
<1>3. FirstPhase[m.kind] \in {"create", "find", "fetch"}
  BY <1>1 DEF FirstPhase, TaskKinds
<1>4. Fits(Entered(m), created, live)
  BY <1>2, <1>3 DEF Fits
<1>5. w \in Procs /\ UNCHANGED <<records, created, live>>
  BY DEF Deliver, Procs, dbVars, ctVars
<1> QED
  BY <1>4, <1>5, QuietStep DEF Deliver

LEMMA CreateRows ==
  ASSUME IInv, RowInv, NEW p \in Procs, CreateDeployment(p)
  PROVE  RowInv'
<1>1. UNCHANGED <<records, created, live>>
  BY DEF CreateDeployment, dbVars, ctVars
<1>2. ASSUME NEW phase \in {"insert", "insert_infra"},
             proc' = [proc EXCEPT ![p].copy = NewRow(proc[p].task), ![p].pc = phase]
      PROVE  RowInv'
  <2> DEFINE row == NewRow(proc[p].task)
             new == [proc[p] EXCEPT !.copy = row, !.pc = phase]
  <2>1. proc \in [Procs -> Process] /\ proc[p] \in Process
    BY DEF IInv, TypeOK
  <2>2. row.status = "QUEUED" /\ row.container = 0 /\ row.retries = 0
    BY DEF NewRow, NoRow
  <2> HIDE DEF row
  <2>3. proc' = [proc EXCEPT ![p] = new]
    BY <1>2, <2>1 DEF row
  <2>4. new.pc = phase /\ new.copy = row
    BY <2>1 DEF Process
  <2> HIDE DEF new
  <2>5. Fits(new, created, live)
    BY <2>2, <2>4 DEF Fits
  <2> QED
    BY <1>1, <2>3, <2>5, QuietStep
<1> QED
  BY <1>1, <1>2, LeaveStep DEF CreateDeployment

LEMMA InsertRows ==
  ASSUME IInv, RowInv, NEW p \in Procs, InsertRecord(p)
  PROVE  RowInv'
<1>1. live' = live
  BY DEF InsertRecord, ctVars
<1>2. CASE Leave(p, "raised") /\ UNCHANGED <<records, created>>
  BY <1>1, <1>2, LeaveStep
<1>3. CASE /\ records' = [records EXCEPT ![created + 1] = proc[p].copy]
           /\ created' = created + 1
           /\ proc'    = [proc EXCEPT ![p] = Inserted(@, created + 1)]
  <2> DEFINE row == proc[p].copy
             new == Inserted(proc[p], created + 1)
  <2>1. /\ created \in Nat /\ created' \in Nat /\ created <= created'
        /\ proc[p] \in Process /\ records \in [Ids -> Row]
    BY <1>3 DEF IInv, TypeOK
  <2>2. Sound(row, live)
    BY DEF InsertRecord, RowInv, InstancesFit, Fits, Sound, Settled
  <2>3. new.pc \in {"find", "fetch"} /\ new.op \in {"none", "execute"}
    BY <2>1 DEF Inserted, Process
  <2>4. proc' = [proc EXCEPT ![p] = new]
    BY <1>3
  <2> HIDE DEF new
  <2>5. Fits(new, created', live')
    BY <2>3 DEF Fits
  <2>6. InstancesFit'
    BY <1>1, <2>1, <2>4, <2>5, OneMoves DEF RowInv
  <2>7. SoundRows'
    <3> SUFFICES ASSUME NEW q \in Ids
                 PROVE  IF q <= created + 1 THEN Sound(records'[q], live)
                        ELSE records'[q].status = "ABSENT"
      BY <1>1, <1>3 DEF SoundRows
    <3>1. CASE q = created + 1
      BY <1>3, <2>1, <2>2, <3>1
    <3>2. CASE q # created + 1
      <4>1. records'[q] = records[q]
        BY <1>3, <2>1, <3>2
      <4>2. q \in Nat
        BY DEF Ids
      <4>3. q <= created + 1 <=> q <= created
        BY <2>1, <3>2, <4>2
      <4> QED
        BY <4>1, <4>3 DEF RowInv, SoundRows
    <3> QED
      BY <3>1, <3>2
  <2> QED
    BY <2>6, <2>7 DEF RowInv
<1> QED
  BY <1>2, <1>3 DEF InsertRecord

LEMMA FindRows ==
  ASSUME IInv, RowInv, NEW p \in Procs, FindActive(p)
  PROVE  RowInv'
<1>1. UNCHANGED <<records, created, live>>
  BY DEF FindActive, dbVars, ctVars
<1>2. proc \in [Procs -> Process] /\ proc[p] \in Process
  BY DEF IInv, TypeOK
<1>3. CASE proc' = [proc EXCEPT ![p].pc = "fetch", ![p].op = "execute"]
  <2> DEFINE new == [proc[p] EXCEPT !.pc = "fetch", !.op = "execute"]
  <2>1. proc' = [proc EXCEPT ![p] = new]
    BY <1>2, <1>3
  <2>2. new.pc = "fetch" /\ new.op = "execute"
    BY <1>2 DEF Process
  <2> HIDE DEF new
  <2>3. Fits(new, created, live)
    BY <2>2 DEF Fits
  <2> QED
    BY <1>1, <2>1, <2>3, QuietStep
<1>4. ASSUME NEW r \in ActiveDeployment(proc[p].task.arg),
             proc' = [proc EXCEPT ![p].pc = "fetch", ![p].op = proc[p].task.kind,
                                  ![p].target = r]
      PROVE  RowInv'
  <2> DEFINE new == [proc[p] EXCEPT !.pc = "fetch", !.op = proc[p].task.kind, !.target = r]
  <2>1. proc' = [proc EXCEPT ![p] = new]
    BY <1>2, <1>4
  <2>2. new.pc = "fetch" /\ new.target = r
    BY <1>2 DEF Process
  <2>3. r \in Ids /\ records[r].status = "RUNNING"
    BY DEF ActiveDeployment, RunningRows
  <2>4. r <= created
    BY <2>3 DEF RowInv, SoundRows
  <2> HIDE DEF new
  <2>5. Fits(new, created, live)
    BY <2>2, <2>4 DEF Fits
  <2> QED
    BY <1>1, <2>1, <2>5, QuietStep
<1> QED
  BY <1>1, <1>3, <1>4, LeaveStep DEF FindActive

(* An operation that is admitted works on a deployment that exists.        *)
LEMMA FetchRows ==
  ASSUME IInv, RowInv, NEW p \in Procs, FetchRecord(p)
  PROVE  RowInv'
<1> DEFINE row == records[proc[p].target]
           op  == proc[p].op
<1>1. UNCHANGED <<records, created, live>>
  BY DEF FetchRecord, dbVars, ctVars
<1>2. /\ proc \in [Procs -> Process] /\ proc[p] \in Process /\ proc[p].pc = "fetch"
      /\ proc[p].target \in Ids /\ op \in {"execute", "upgrade", "decommission"}
  BY DEF FetchRecord, IInv, TypeOK, PhasesOK, WellFormed, Shape
<1>3. CASE /\ row.status \in Admitted[op]
           /\ proc' = [proc EXCEPT ![p].copy = row, ![p].pc = "update"]
  <2> DEFINE new == [proc[p] EXCEPT !.copy = row, !.pc = "update"]
  <2>1. proc' = [proc EXCEPT ![p] = new]
    BY <1>2, <1>3
  <2>2. new.pc = "update" /\ new.target = proc[p].target
    BY <1>2 DEF Process
  <2>3. proc[p].target <= created
    <3>1. CASE op = "decommission"
      BY <1>2, <3>1 DEF RowInv, InstancesFit, Fits
    <3>2. CASE op # "decommission"
      <4>1. row.status # "ABSENT"
        BY <1>2, <1>3, <3>2 DEF Admitted
      <4> QED
        BY <1>2, <4>1 DEF RowInv, SoundRows
    <3> QED
      BY <3>1, <3>2
  <2> HIDE DEF new
  <2>4. Fits(new, created, live)
    BY <2>2, <2>3 DEF Fits
  <2> QED
    BY <1>1, <2>1, <2>4, QuietStep
<1> QED
  BY <1>1, <1>3, LeaveStep DEF FetchRecord

-----------------------------------------------------------------------------
(* Steps of an operation that go on with another instance.                 *)
LEMMA StageRows ==
  ASSUME IInv, RowInv, NEW p \in Procs, proc[p].pc \in {"update", "driver"}, NEW row,
         NEW phase \in {"driver", "commit"},
         proc' = [proc EXCEPT ![p] = [proc[p] EXCEPT !.copy = row, !.pc = phase]],
         UNCHANGED <<records, created>>, live' \subseteq live,
         phase = "driver" /\ row.status = "STOPPED" => row.container \notin live',
         phase = "commit" => row.status # "QUEUED" /\ Sound(row, live')
  PROVE  RowInv'
<1> DEFINE new == [proc[p] EXCEPT !.copy = row, !.pc = phase]
<1>1. proc[p] \in Process
  BY DEF IInv, TypeOK
<1>2. new.pc = phase /\ new.copy = row /\ new.target = proc[p].target
  BY <1>1 DEF Process
<1>3. proc[p].target <= created
  BY DEF RowInv, InstancesFit, Fits
<1> HIDE DEF new
<1>4. Fits(new, created, live')
  BY <1>2, <1>3 DEF Fits
<1> QED
  BY <1>4, QuietStep DEF new

LEMMA LockRows ==
  ASSUME IInv, RowInv, NEW p \in Procs, LockRow(p)
  PROVE  RowInv'
<1> DEFINE me  == proc[p]
           row == FirstTransition(me.op, me.copy, me.task.ver)
<1>1. /\ proc \in [Procs -> Process] /\ me \in Process /\ me.copy \in Row
      /\ me.op \in {"execute", "upgrade", "rollback", "decommission"}
  BY DEF LockRow, IInv, TypeOK, Process, PhasesOK, WellFormed, Shape
<1>2. row.status # "STOPPED"
  BY <1>1 DEF FirstTransition, Row
<1>3. proc' = [proc EXCEPT ![p] = [me EXCEPT !.copy = row, !.pc = "driver"]]
  BY <1>1 DEF LockRow
<1>4. me.pc = "update" /\ UNCHANGED <<records, created, live>>
  BY DEF LockRow, dbVars, ctVars
<1> HIDE DEF row
<1> QED
  BY <1>2, <1>3, <1>4, StageRows

LEMMA NextStageRows ==
  ASSUME IInv, RowInv, NEW p \in Procs, NextStage(p)
  PROVE  RowInv'
<1> DEFINE me     == proc[p]
           status == me.copy.status
           row    == [me.copy EXCEPT !.status = NextStatus[status]]
           phase  == IF status = "STOPPED" THEN "commit" ELSE "driver"
<1>1. proc \in [Procs -> Process] /\ me \in Process /\ me.copy \in Row
  BY DEF IInv, TypeOK, Process
<1>2. me.pc = "driver" /\ status \in DOMAIN NextStatus
  BY DEF NextStage
<1>3. proc' = [proc EXCEPT ![p] = [me EXCEPT !.copy = row, !.pc = phase]]
  BY <1>1, <1>2 DEF NextStage, Process
<1>4. row.status = NextStatus[status] /\ row.container = me.copy.container
  BY <1>1 DEF Row
<1>5. NextStatus[status] # "STOPPED"
  BY <1>2 DEF NextStatus
<1>6. CASE status = "STOPPED"
  <2>1. row.status = "DECOMMISSIONED"
    BY <1>4, <1>6 DEF NextStatus
  <2>2. row.container \notin live
    BY <1>2, <1>4, <1>6 DEF RowInv, InstancesFit, Fits
  <2>3. Sound(row, live)
    BY <2>1, <2>2 DEF Sound, Settled
  <2>4. UNCHANGED <<records, created, live>>
    BY DEF NextStage, dbVars, ctVars
  <2> HIDE DEF row
  <2> QED
    BY <1>2, <1>3, <1>6, <2>1, <2>3, <2>4, StageRows
<1>7. CASE status # "STOPPED"
  <2>1. UNCHANGED <<records, created, live>>
    BY DEF NextStage, dbVars, ctVars
  <2>2. row.status # "STOPPED"
    BY <1>4, <1>5
  <2> HIDE DEF row
  <2> QED
    BY <1>2, <1>3, <1>7, <2>1, <2>2, StageRows
<1> QED
  BY <1>6, <1>7

LEMMA StopRows ==
  ASSUME IInv, RowInv, NEW p \in Procs, StopContainer(p)
  PROVE  RowInv'
<1> DEFINE me  == proc[p]
           row == [me.copy EXCEPT !.status = "STOPPED"]
<1>1. proc \in [Procs -> Process] /\ me \in Process /\ me.copy \in Row
  BY DEF IInv, TypeOK, Process
<1>2. proc' = [proc EXCEPT ![p] = [me EXCEPT !.copy = row, !.pc = "driver"]]
  BY <1>1 DEF StopContainer, Process
<1>3. row.container = me.copy.container
  BY <1>1 DEF Row
<1>4. /\ me.pc = "driver" /\ UNCHANGED <<records, created>>
      /\ live' \subseteq live /\ row.container \notin live'
  BY <1>3 DEF StopContainer, dbVars
<1> HIDE DEF row
<1> QED
  BY <1>2, <1>4, StageRows

-----------------------------------------------------------------------------
(* Starting a container: no row and no instance names the new one.         *)
LEMMA NamesBounded ==
  ASSUME IInv, NamesApart
  PROVE  /\ \A r \in Ids : records[r].container # containers + 1
         /\ \A p \in Procs : Holds(p) => proc[p].copy.container # containers + 1
<1> DEFINE next == containers + 1
<1>1. next \in Nat \ {0} /\ ~(next <= containers)
  BY DEF IInv, TypeOK
<1>2. \A r \in Ids : ~Names(r, next)
  <2> HIDE DEF next
  <2> QED
    BY <1>1 DEF NamesApart
<1>3. \A p \in Procs : Holds(p) => proc[p].target \in Ids
  BY DEF IInv, PhasesOK, WellFormed, Shape, Holds
<1> HIDE DEF next
<1>4. \A r \in Ids : records[r].container # next
  BY <1>2 DEF Names
<1>5. \A p \in Procs : Holds(p) => proc[p].copy.container # next
  BY <1>2, <1>3 DEF Names
<1> QED
  BY <1>4, <1>5 DEF next

LEMMA StartRows ==
  ASSUME IInv, NamesApart, RowInv, NEW p \in Procs, StartContainer(p)
  PROVE  RowInv'
<1> DEFINE me   == proc[p]
           next == containers + 1
           row  == [me.copy EXCEPT !.status = "RUNNING", !.container = next]
           new  == [me EXCEPT !.copy = row, !.pc = "commit"]
<1>1. proc \in [Procs -> Process] /\ me \in Process /\ me.copy \in Row
  BY DEF IInv, TypeOK, Process
<1>2. proc' = [proc EXCEPT ![p] = new]
  BY <1>1 DEF StartContainer, Process
<1>3. row.status = "RUNNING" /\ row.container = next
  BY <1>1 DEF Row
<1>4. next # 0
  BY DEF IInv, TypeOK
<1>5. new.pc = "commit" /\ new.copy = row /\ new.target = me.target
  BY <1>1 DEF Process
<1>6. me.pc = "driver" /\ UNCHANGED <<records, created>> /\ live' = live \cup {next}
  BY DEF StartContainer, dbVars
<1>7. me.target <= created
  BY <1>6 DEF RowInv, InstancesFit, Fits
<1>8. /\ \A r \in Ids : records[r].container # next
      /\ \A q \in Procs : Holds(q) => proc[q].copy.container # next
  BY NamesBounded
<1> HIDE DEF next, row, new
<1>9. Fits(new, created, live')
  <2>1. Sound(row, live')
    BY <1>3, <1>4 DEF Sound, Settled
  <2> QED
    BY <1>3, <1>5, <1>7, <2>1 DEF Fits
<1>10. InstancesFit'
  <2> SUFFICES ASSUME NEW q \in Procs PROVE Fits(proc'[q], created, live')
    BY <1>6 DEF InstancesFit
  <2>1. CASE q = p
    BY <1>1, <1>2, <1>9, <2>1
  <2>2. CASE q # p
    <3>1. proc'[q] = proc[q]
      BY <1>1, <1>2, <2>2
    <3>2. Fits(proc[q], created, live)
      BY DEF RowInv, InstancesFit
    <3>3. proc[q].pc \in {"driver", "commit"} => proc[q].copy.container # next
      BY <1>8 DEF Holds
    <3>4. Fits(proc[q], created, live')
      BY <1>6, <3>2, <3>3 DEF Fits, Sound
    <3> QED
      BY <3>1, <3>4
  <2> QED
    BY <2>1, <2>2
<1>11. SoundRows'
  BY <1>6, <1>8 DEF RowInv, SoundRows, Sound
<1> QED
  BY <1>10, <1>11 DEF RowInv

(* The ends of an operation.                                               *)
LEMMA CommitRows ==
  ASSUME IInv, RowInv, NEW p \in Procs, Commit(p)
  PROVE  RowInv'
<1> DEFINE me == proc[p]
<1>1. me.pc = "commit" /\ me.target \in Ids
  BY DEF Commit, IInv, PhasesOK, WellFormed, Shape
<1>2. me.target <= created /\ Sound(me.copy, live)
  BY <1>1 DEF RowInv, InstancesFit, Fits
<1>3. /\ Leave(p, "done") /\ UNCHANGED <<created, live>>
      /\ records' = [records EXCEPT ![me.target] = me.copy]
  BY DEF Commit, ctVars
<1> QED
  BY <1>1, <1>2, <1>3, SaveStep

LEMMA FailureRows ==
  ASSUME IInv, RowInv, NEW p \in Procs, HandleFailure(p)
  PROVE  RowInv'
<1> DEFINE me  == proc[p]
           row == Failed(me.copy)
<1>1. me.pc = "driver" /\ me.target \in Ids /\ me.copy \in Row
  BY DEF HandleFailure, IInv, TypeOK, Process, PhasesOK, WellFormed, Shape
<1>2. me.target <= created
  BY <1>1 DEF RowInv, InstancesFit, Fits
<1>3. row.status = "FAILED"
  BY <1>1 DEF Failed, Row
<1>4. UNCHANGED <<created, live>>
  BY DEF HandleFailure, ctVars
<1>5. CASE Leave(p, "raised") /\ UNCHANGED records
  BY <1>4, <1>5, LeaveStep
<1>6. CASE Leave(p, "done") /\ records' = [records EXCEPT ![me.target] = row]
  <2> HIDE DEF row
  <2>1. Sound(row, live)
    BY <1>3 DEF Sound, Settled
  <2> QED
    BY <1>1, <1>2, <1>4, <1>6, <2>1, SaveStep
<1> QED
  BY <1>5, <1>6 DEF HandleFailure

LEMMA RollbackRows ==
  ASSUME IInv, RowInv, NEW p \in Requests, NEW r \in Ids, NEW v \in Versions,
         RollbackRequest(p, r, v)
  PROVE  RowInv'
<1> DEFINE me == [pc |-> "update", op |-> "rollback", target |-> r, copy |-> records[r],
                  task |-> [kind |-> "rollback", arg |-> r, ver |-> v, tries |-> 0]]
<1>1. /\ p \in Procs /\ proc' = [proc EXCEPT ![p] = me] /\ r <= created
      /\ UNCHANGED <<records, created, live>>
  BY DEF RollbackRequest, Procs, dbVars, ctVars
<1>2. Fits(me, created, live)
  BY <1>1 DEF Fits
<1> HIDE DEF me
<1> QED
  BY <1>1, <1>2, QuietStep

LEMMA StopsDead ==
  ASSUME IInv, RowInv, NEW p \in Procs, Crash(p) \/ Kill(p) \/ Acknowledge(p)
  PROVE  RowInv'
<1>1. proc' = [proc EXCEPT ![p] = Idle] /\ UNCHANGED <<records, created, live>>
  BY DEF Crash, Kill, Acknowledge, dbVars, ctVars
<1>2. Fits(Idle, created, live')
  BY AtRestFits DEF Idle
<1> QED
  BY <1>1, <1>2, QuietStep

(* Every step keeps the rows sound.                                        *)
LEMMA RowStep ==
  ASSUME IInv, NamesApart, RowInv, [Next]_vars
  PROVE  RowInv'
<1>1. CASE UNCHANGED <<proc, records, created, live>>
  BY <1>1 DEF RowInv, InstancesFit, SoundRows
<1>2. ASSUME NEW p \in Procs, RetryTask(p) PROVE RowInv'
  BY <1>2, LeaveStep DEF RetryTask, dbVars, ctVars
<1>3. ASSUME NEW p \in Procs, Operate(p) PROVE RowInv'
  BY <1>2, <1>3, CreateRows, InsertRows, FindRows, FetchRows, LockRows, NextStageRows,
     StartRows, StopRows, CommitRows, StopsDead DEF Operate
<1>4. CASE Environment
  <2>1. Workers \subseteq Procs
    BY DEF Procs
  <2>2. ASSUME NEW p \in Procs, HandleFailure(p) \/ Crash(p) \/ Kill(p) PROVE RowInv'
    BY <2>2, FailureRows, StopsDead
  <2>3. ASSUME NEW p \in Requests, NEW r \in Ids, NEW v \in Versions, RollbackRequest(p, r, v)
        PROVE  RowInv'
    BY <2>3, RollbackRows
  <2> QED
    BY <1>1, <1>4, <2>1, <2>2, <2>3
       DEF Environment, Install, InstallCommits, UninstallProduct, UpgradeProduct,
           ViewInfra, RetryRequest, HealthCheck, dbVars, ctVars
<1>5. CASE UNCHANGED vars
  BY <1>1, <1>5 DEF vars, dbVars, ctVars
<1> QED
  BY <1>3, <1>4, <1>5, DeliverRows DEF Next

(* The invariant behind the three theorems below: every row was an instance*)
(* of some operation before its commit, so rows and instances go together. *)
THEOREM RowsStaySound == Spec => []RowInv
<1>1. Init => RowInv
  <2> SUFFICES ASSUME Init PROVE RowInv
    OBVIOUS
  <2>1. InstancesFit
    BY AtRestFits DEF Init, InstancesFit, Idle
  <2>2. created = 0 /\ \A r \in Ids : records[r].status = "ABSENT"
    BY DEF Init, NoRow
  <2>3. \A r \in Ids : ~(r <= 0)
    BY DEF Ids
  <2> QED
    BY <2>1, <2>2, <2>3 DEF RowInv, SoundRows
<1> QED
  BY <1>1, RowStep, Typing, NamesStayApart, PTL DEF Spec

(* @transaction.atomic on each operation: whatever fails or crashes half   *)
(* way, a committed row is QUEUED, RUNNING, FAILED or DECOMMISSIONED.      *)
THEOREM RowsAreSettled == Spec => []NeverStuckHalfway
<1>1. IInv /\ RowInv => NeverStuckHalfway
  <2> SUFFICES ASSUME IInv, RowInv, NEW r \in Ids
               PROVE  /\ records[r].status \in Settled \cup {"ABSENT"}
                      /\ records[r].status = "ABSENT" <=> r > created
    BY DEF NeverStuckHalfway
  <2>1. r \in Nat /\ created \in Nat
    BY DEF IInv, TypeOK, Ids
  <2>2. "ABSENT" \notin Settled
    BY DEF Settled
  <2>3. CASE r <= created
    BY <2>1, <2>2, <2>3 DEF RowInv, SoundRows, Sound
  <2>4. CASE ~(r <= created)
    BY <2>1, <2>4 DEF RowInv, SoundRows
  <2> QED
    BY <2>3, <2>4
<1> QED
  BY <1>1, Typing, RowsStaySound, PTL

(* A QUEUED deployment has neither started a container nor counted a retry,*)
(* so execute_deployment always begins from a fresh row.                   *)
THEOREM QueuedRowsArePristine == Spec => []QueuedIsPristine
<1>1. RowInv => QueuedIsPristine
  BY DEF RowInv, SoundRows, Sound, QueuedIsPristine
<1> QED
  BY <1>1, RowsStaySound, PTL

(* Decommissioning is only committed once the named container is stopped,  *)
(* and nothing starts it again.                                            *)
THEOREM DecommissionedRowsAreStopped == Spec => []DecommissionedIsStopped
<1>1. RowInv => DecommissionedIsStopped
  BY DEF RowInv, SoundRows, Sound, DecommissionedIsStopped
<1> QED
  BY <1>1, RowsStaySound, PTL
=============================================================================
