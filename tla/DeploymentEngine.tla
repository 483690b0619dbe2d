--------------------------- MODULE DeploymentEngine ---------------------------
(***************************************************************************)
(* The deployment engine of KAVAN (backend/apps/deployments): the Celery   *)
(* tasks, the DeploymentEngineService they call, the rollback and retry    *)
(* views, and the rows and messages they share.                            *)
(*                                                                         *)
(* A process is a Celery worker slot or a web request.  It reads rows of   *)
(* the last committed state (READ COMMITTED), keeps a model instance in    *)
(* memory (proc[p].copy), and every save() writes that whole instance: its *)
(* first save takes the row lock, later saves of the same transaction stay *)
(* invisible, the commit publishes the copy and an exception or a crash    *)
(* discards it.                                                            *)
(***************************************************************************)
EXTENDS Naturals

CONSTANTS
  Subs,         \* TenantProduct subscriptions, all of one tenant
  Workers,      \* slots of the Celery worker pool (--concurrency)
  Requests,     \* web threads that serve the rollback view
  Versions,     \* product version strings
  None,         \* no process, no subscription
  MaxRetries,   \* DeploymentRecord.max_retries (3 in the code)
  TaskRetries,  \* max_retries of each shared_task (3, 2, 2, 3 in the code)
  MaxRecords,   \* bound: deployment records ever created
  Budget        \* bound: how often the environment may act, by kind

Procs     == Workers \cup Requests
Ids       == 1..MaxRecords          \* in the order of queued_at
TaskKinds == {"provision", "upgrade", "decommission", "execute", "repair"}
(* Mutant: execute_deployment_task without acks_late.                      *)
AcksLateButExecute == {"provision", "upgrade", "decommission"}
AcksLate  == {"provision", "upgrade", "decommission", "execute"}
EnvKinds  == {"upgrade", "uninstall", "rollback", "retry", "check", "failure",
              "crash", "kill"}

ASSUME ConstantsAssumption ==
  /\ Workers \cap Requests = {}
  /\ None \notin Procs /\ None \notin Subs
  /\ "" \notin Versions
  /\ MaxRetries \in Nat /\ MaxRecords \in Nat
  /\ TaskRetries \in [TaskKinds -> Nat]
  /\ Budget \in [EnvKinds -> Nat]

Statuses ==
  {"ABSENT", "QUEUED", "PROVISIONING", "PULLING_IMAGE", "CONFIGURING",
   "STARTING", "RUNNING", "UPGRADING", "ROLLBACK", "STOPPING", "STOPPED",
   "DECOMMISSIONED", "FAILED"}
Settled     == {"QUEUED", "RUNNING", "FAILED", "DECOMMISSIONED"}
SubStatuses == {"ABSENT", "INSTALLING", "PENDING", "ACTIVE", "CANCELLED"}
Phases      == {"idle", "create", "insert", "insert_infra", "find", "fetch",
                "update", "driver", "commit", "raised", "done"}
Ops         == {"none", "execute", "upgrade", "rollback", "decommission"}

DeploymentType == [provision |-> "PROVISION", upgrade |-> "UPGRADE",
                   repair    |-> "HEALTH_REPAIR"]

Row == [sub       : Subs \cup {None},
        type      : {"PROVISION", "UPGRADE", "HEALTH_REPAIR"},
        status    : Statuses,
        from      : Versions \cup {""},
        to        : Versions \cup {""},
        container : Nat,                  \* 0: no container_id yet
        retries   : Nat]

NoRow == [sub |-> None, type |-> "PROVISION", status |-> "ABSENT",
          from |-> "", to |-> "", container |-> 0, retries |-> 0]

(* A message of the 'deployments' queue: its arguments and retry count.    *)
Message(kind, args, vers) ==
  [kind : {kind}, arg : args, ver : vers, tries : 0..TaskRetries[kind]]

Messages ==
  Message("provision", Subs, {""}) \cup Message("decommission", Subs, {""})
    \cup Message("upgrade", Subs, Versions)
    \cup Message("execute", Ids, {""}) \cup Message("repair", Ids, {""})

(* What the rollback view's thread runs, in the same form.                 *)
RollbackCalls == [kind : {"rollback"}, arg : Ids, ver : Versions, tries : {0}]

NoTask == [kind |-> "none", arg |-> None, ver |-> "", tries |-> 0]
Idle   == [pc |-> "idle", task |-> NoTask, op |-> "none", target |-> 0,
           copy |-> NoRow]

VARIABLES
  records,     \* committed DeploymentRecord rows
  created,     \* how many exist: rows 1..created
  infra,       \* the tenant's InfrastructureConfig row exists
  subStatus,   \* TenantProduct.status ("INSTALLING": inserted, not committed)
  subVersion,  \* committed TenantProduct.current_version
  broker,      \* how many copies of each message Redis holds
  proc,        \* each process: phase, task, operation, target row, instance
  rowLock,     \* the process whose open transaction wrote the row
  containers,  \* containers ever started
  live,        \* those started and not stopped
  failedRuns,  \* history: executions of a record that failed
  used         \* how much of Budget the environment has used

dbVars == <<records, created, infra, subStatus, subVersion>>
ctVars == <<containers, live>>
vars   == <<dbVars, broker, proc, rowLock, ctVars, failedRuns, used>>

Init ==
  /\ records    = [r \in Ids |-> NoRow]
  /\ created    = 0
  /\ infra      = FALSE
  /\ subStatus  = [s \in Subs |-> "ABSENT"]
  /\ subVersion \in [Subs -> Versions]
  /\ broker     = [m \in Messages |-> 0]
  /\ proc       = [p \in Procs |-> Idle]
  /\ rowLock    = [r \in Ids |-> None]
  /\ containers = 0
  /\ live       = {}
  /\ failedRuns = [r \in Ids |-> 0]
  /\ used       = [k \in EnvKinds |-> 0]

-----------------------------------------------------------------------------
Send(m)    == broker' = [broker EXCEPT ![m] = @ + 1]
Execute(r) == [kind |-> "execute", arg |-> r, ver |-> "", tries |-> 0]
Spend(k)   == used[k] < Budget[k] /\ used' = [used EXCEPT ![k] = @ + 1]

CanRetry(row) == row.status = "FAILED" /\ row.retries < MaxRetries

(* DeploymentRepository.get_active_deployment: the newest RUNNING row.     *)
RunningRows(s) ==
  {r \in Ids : records[r].sub = s /\ records[r].status = "RUNNING"}
ActiveDeployment(s) ==
  {r \in RunningRows(s) : \A q \in RunningRows(s) : q <= r}

(* Process p has left its operation: a web request is over, a task is      *)
(* still to be acknowledged ("done") or to be retried ("raised").          *)
Left(p, phase) ==
  IF p \in Requests THEN Idle
  ELSE [Idle EXCEPT !.pc = phase, !.task = proc[p].task]
Leave(p, phase) == proc' = [proc EXCEPT ![p] = Left(p, phase)]
Unlocked(p)     == [r \in Ids |-> IF rowLock[r] = p THEN None ELSE rowLock[r]]

-----------------------------------------------------------------------------
(* The environment: the marketplace, the tenant's administrators, and the  *)
(* services the drivers call.                                              *)

Provision(s)    == [kind |-> "provision", arg |-> s, ver |-> "", tries |-> 0]
Decommission(s) == [kind |-> "decommission", arg |-> s, ver |-> "", tries |-> 0]
UpgradeFrom(s, v) == [kind |-> "upgrade", arg |-> s, ver |-> v, tries |-> 0]
Installed(s)    == subStatus[s] \notin {"ABSENT", "INSTALLING"}

(* install_product inserts the subscription, once per tenant and product   *)
(* (unique_together), and calls delay() before its transaction commits:    *)
(* workers see the row only after InstallCommits, or never if it aborts.   *)
Install(s) ==
  /\ subStatus[s] = "ABSENT"
  /\ subStatus' = [subStatus EXCEPT ![s] = "INSTALLING"]
  /\ Send(Provision(s))
  /\ UNCHANGED <<records, created, infra, subVersion, proc, rowLock, ctVars,
                 failedRuns, used>>

(* Mutant: the subscription is created ACTIVE.                             *)
InstalledActive(s) ==
  /\ subStatus[s] = "INSTALLING"
  /\ subStatus' = [subStatus EXCEPT ![s] = "ACTIVE"]
  /\ UNCHANGED <<records, created, infra, subVersion, broker, proc, rowLock,
                 ctVars, failedRuns, used>>

InstallCommits(s) ==
  /\ subStatus[s] = "INSTALLING"
  /\ subStatus' = [subStatus EXCEPT ![s] = "PENDING"]
  /\ UNCHANGED <<records, created, infra, subVersion, broker, proc, rowLock,
                 ctVars, failedRuns, used>>

(* upgrade_product, for an ACTIVE subscription, to any supported version.  *)
UpgradeProduct(s, v) ==
  /\ subStatus[s] = "ACTIVE"
  /\ Spend("upgrade")
  /\ subVersion' = [subVersion EXCEPT ![s] = v]
  /\ Send(UpgradeFrom(s, subVersion[s]))
  /\ UNCHANGED <<records, created, infra, subStatus, proc, rowLock, ctVars,
                 failedRuns>>

(* uninstall_product cancels the subscription, whatever its status.        *)
UninstallProduct(s) ==
  /\ Installed(s)
  /\ Spend("uninstall")
  /\ subStatus' = [subStatus EXCEPT ![s] = "CANCELLED"]
  /\ Send(Decommission(s))
  /\ UNCHANGED <<records, created, infra, subVersion, proc, rowLock, ctVars,
                 failedRuns>>

(* The infrastructure view creates the tenant's row when it is missing.    *)
ViewInfra ==
  /\ ~infra
  /\ infra' = TRUE
  /\ UNCHANGED <<records, created, subStatus, subVersion, broker, proc, rowLock,
                 ctVars, failedRuns, used>>

(* The rollback view reads the row, whatever its status, and goes on to    *)
(* execute_rollback with that instance.                                    *)
RollbackRequest(p, r, v) ==
  /\ p \in Requests /\ proc[p].pc = "idle"
  /\ r <= created
  /\ Spend("rollback")
  /\ proc' = [proc EXCEPT ![p] =
       [pc |-> "update", op |-> "rollback", target |-> r, copy |-> records[r],
        task |-> [kind |-> "rollback", arg |-> r, ver |-> v, tries |-> 0]]]
  /\ UNCHANGED <<dbVars, broker, rowLock, ctVars, failedRuns>>

(* The retry view checks can_retry and queues the execution again.         *)
RetryRequest(r) ==
  /\ CanRetry(records[r])
  /\ Spend("retry")
  /\ Send(Execute(r))
  /\ UNCHANGED <<dbVars, proc, rowLock, ctVars, failedRuns>>

(* A periodic health check finds a RUNNING deployment UNHEALTHY.           *)
HealthCheck(r) ==
  /\ records[r].status = "RUNNING"
  /\ Spend("check")
  /\ Send([kind |-> "repair", arg |-> r, ver |-> "", tries |-> 0])
  /\ UNCHANGED <<dbVars, proc, rowLock, ctVars, failedRuns>>

-----------------------------------------------------------------------------
(* A worker slot takes a message and enters the task's function.           *)
FirstPhase == [provision |-> "create", upgrade |-> "create", repair |-> "create",
               decommission |-> "find", execute |-> "fetch"]

Entered(m) ==
  [Idle EXCEPT !.task = m, !.pc = FirstPhase[m.kind],
               !.op     = IF m.kind = "execute" THEN "execute" ELSE "none",
               !.target = IF m.kind = "execute" THEN m.arg ELSE 0]

Deliver(w, m) ==
  /\ proc[w].pc = "idle"
  /\ broker[m] > 0
  /\ broker' = [broker EXCEPT ![m] = @ - 1]
  /\ proc' = [proc EXCEPT ![w] = Entered(m)]
  /\ UNCHANGED <<dbVars, rowLock, ctVars, failedRuns, used>>

(* create_deployment up to its INSERT: it reads the subscription, the      *)
(* RUNNING deployment and the tenant's infrastructure row.                 *)
SubscriptionOf(m) == IF m.kind = "repair" THEN records[m.arg].sub ELSE m.arg

NewRow(m) ==
  [NoRow EXCEPT
     !.sub    = SubscriptionOf(m),
     !.type   = DeploymentType[m.kind],
     !.status = "QUEUED",
     !.from   = IF m.kind = "repair" THEN records[m.arg].to ELSE m.ver,
     !.to     = IF m.kind = "repair" THEN records[m.arg].to ELSE subVersion[m.arg]]

CreateDeployment(p) ==
  LET m       == proc[p].task
      s       == SubscriptionOf(m)
      skipped == m.kind = "provision" /\ ActiveDeployment(s) # {}
  IN
  /\ proc[p].pc = "create"
  /\ \/ ~Installed(s) /\ Leave(p, "raised")
     \/ Installed(s) /\ skipped /\ Leave(p, "done")
     \/ /\ Installed(s) /\ ~skipped
        /\ proc' = [proc EXCEPT ![p].copy = NewRow(m),
                                ![p].pc = IF infra THEN "insert" ELSE "insert_infra"]
  /\ UNCHANGED <<dbVars, broker, rowLock, ctVars, failedRuns, used>>

(* The INSERT and the commit.  If the infrastructure row was missing it is *)
(* inserted first: a OneToOne violation if another task was faster.        *)
Inserted(me, r) ==
  [me EXCEPT !.copy = NoRow, !.target = r,
             !.op = IF me.task.kind = "upgrade" THEN "none" ELSE "execute",
             !.pc = IF me.task.kind = "upgrade" THEN "find" ELSE "fetch"]

InsertRecord(p) ==
  /\ proc[p].pc \in {"insert", "insert_infra"}
  /\ created < MaxRecords
  /\ IF proc[p].pc = "insert_infra" /\ infra
     THEN Leave(p, "raised") /\ UNCHANGED <<records, created, infra>>
     ELSE /\ records' = [records EXCEPT ![created + 1] = proc[p].copy]
          /\ created' = created + 1
          /\ infra'   = TRUE
          /\ proc'    = [proc EXCEPT ![p] = Inserted(@, created + 1)]
  /\ UNCHANGED <<subStatus, subVersion, broker, rowLock, ctVars, failedRuns, used>>

(* The upgrade and decommission tasks look the RUNNING deployment up: none *)
(* sends an upgrade into the new record and a decommission home.           *)
FindActive(p) ==
  LET active == ActiveDeployment(proc[p].task.arg)
      kind   == proc[p].task.kind
  IN
  /\ proc[p].pc = "find"
  /\ \/ active = {} /\ kind = "decommission" /\ Leave(p, "done")
     \/ active = {} /\ kind = "upgrade"
        /\ proc' = [proc EXCEPT ![p].pc = "fetch", ![p].op = "execute"]
     \/ \E r \in active :
          proc' = [proc EXCEPT ![p].pc = "fetch", ![p].op = kind,
                               ![p].target = r]
  /\ UNCHANGED <<dbVars, broker, rowLock, ctVars, failedRuns, used>>

(* Mutant: a FAILED deployment may be executed.                            *)
AdmittedFailed == [execute      |-> {"QUEUED", "ROLLBACK", "FAILED"},
                   upgrade      |-> {"RUNNING"},
                   decommission |-> Statuses \ {"DECOMMISSIONED"}]

(* get_by_id and the status guard that opens each operation.               *)
Admitted == [execute      |-> {"QUEUED", "ROLLBACK"},
             upgrade      |-> {"RUNNING"},
             decommission |-> Statuses \ {"DECOMMISSIONED"}]

FetchRecord(p) ==
  LET row == records[proc[p].target]
      op  == proc[p].op
  IN
  /\ proc[p].pc = "fetch"
  /\ \/ row.status \in Admitted[op]
        /\ proc' = [proc EXCEPT ![p].copy = row, ![p].pc = "update"]
     \/ row.status \notin Admitted[op] /\ op = "decommission" /\ Leave(p, "done")
     \/ row.status \notin Admitted[op] /\ op # "decommission" /\ Leave(p, "raised")
  /\ UNCHANGED <<dbVars, broker, rowLock, ctVars, failedRuns, used>>

-----------------------------------------------------------------------------
(* The first transition_status of an operation: the save takes the row     *)
(* lock, or waits for the transaction that holds it.                       *)
FirstTransition(op, row, ver) ==
  CASE op = "execute"      -> [row EXCEPT !.status = "PROVISIONING"]
    [] op = "upgrade"      -> [row EXCEPT !.status = "UPGRADING", !.from = ver]
    [] op = "rollback"     -> [row EXCEPT !.status = "ROLLBACK",
                                          !.from = row.to, !.to = ver]
    [] op = "decommission" -> [row EXCEPT !.status = "STOPPING"]

(* Mutants: no @transaction.atomic, so each save commits; no row lock.     *)
LockRowAutocommit(p) ==
  LET me == proc[p]
      row == FirstTransition(me.op, me.copy, me.task.ver)
  IN
  /\ me.pc = "update"
  /\ rowLock[me.target] = None
  /\ rowLock' = [rowLock EXCEPT ![me.target] = p]
  /\ proc'    = [proc EXCEPT ![p].pc = "driver", ![p].copy = row]
  /\ records' = [records EXCEPT ![me.target] = row]
  /\ UNCHANGED <<created, infra, subStatus, subVersion, broker, ctVars,
                 failedRuns, used>>

LockRowUnguarded(p) ==
  LET me == proc[p] IN
  /\ me.pc = "update"
  /\ rowLock' = [rowLock EXCEPT ![me.target] = p]
  /\ proc' = [proc EXCEPT ![p].pc = "driver",
                          ![p].copy = FirstTransition(me.op, @, me.task.ver)]
  /\ UNCHANGED <<dbVars, broker, ctVars, failedRuns, used>>

LockRow(p) ==
  LET me == proc[p] IN
  /\ me.pc = "update"
  /\ rowLock[me.target] = None
  /\ rowLock' = [rowLock EXCEPT ![me.target] = p]
  /\ proc' = [proc EXCEPT ![p].pc = "driver",
                          ![p].copy = FirstTransition(me.op, @, me.task.ver)]
  /\ UNCHANGED <<dbVars, broker, ctVars, failedRuns, used>>

(* Later transitions of the instance, each after its driver call returned. *)
NextStatus == [PROVISIONING |-> "PULLING_IMAGE", PULLING_IMAGE |-> "CONFIGURING",
               CONFIGURING  |-> "STARTING",      STOPPED |-> "DECOMMISSIONED"]
Starting   == {"STARTING", "UPGRADING", "ROLLBACK"}

NextStage(p) ==
  LET status == proc[p].copy.status IN
  /\ proc[p].pc = "driver" /\ status \in DOMAIN NextStatus
  /\ proc' = [proc EXCEPT ![p].copy.status = NextStatus[status],
                          ![p].pc = IF status = "STOPPED" THEN "commit" ELSE @]
  /\ UNCHANGED <<dbVars, broker, rowLock, ctVars, failedRuns, used>>

(* Mutant: a container is named after the tenant, not afresh.              *)
StartTenantContainer(p) ==
  /\ proc[p].pc = "driver" /\ proc[p].copy.status \in Starting
  /\ containers' = 1
  /\ live'       = {1}
  /\ proc' = [proc EXCEPT ![p].copy.status = "RUNNING", ![p].pc = "commit",
                          ![p].copy.container = 1]
  /\ UNCHANGED <<dbVars, broker, rowLock, failedRuns, used>>

(* driver.start, upgrade and rollback return a container started afresh.   *)
StartContainer(p) ==
  /\ proc[p].pc = "driver" /\ proc[p].copy.status \in Starting
  /\ containers' = containers + 1
  /\ live'       = live \cup {containers + 1}
  /\ proc' = [proc EXCEPT ![p].copy.status = "RUNNING", ![p].pc = "commit",
                          ![p].copy.container = containers + 1]
  /\ UNCHANGED <<dbVars, broker, rowLock, failedRuns, used>>

(* Mutants: nothing is stopped; the container started last is.             *)
StopNothing(p) ==
  /\ proc[p].pc = "driver" /\ proc[p].copy.status = "STOPPING"
  /\ proc' = [proc EXCEPT ![p].copy.status = "STOPPED"]
  /\ UNCHANGED <<dbVars, broker, rowLock, ctVars, failedRuns, used>>

StopNewest(p) ==
  /\ proc[p].pc = "driver" /\ proc[p].copy.status = "STOPPING"
  /\ live' = live \ {containers}
  /\ proc' = [proc EXCEPT ![p].copy.status = "STOPPED"]
  /\ UNCHANGED <<dbVars, broker, rowLock, containers, failedRuns, used>>

(* driver.stop stops the container the instance names.                     *)
StopContainer(p) ==
  /\ proc[p].pc = "driver" /\ proc[p].copy.status = "STOPPING"
  /\ live' = live \ {proc[p].copy.container}
  /\ proc' = [proc EXCEPT ![p].copy.status = "STOPPED"]
  /\ UNCHANGED <<dbVars, broker, rowLock, containers, failedRuns, used>>

(* The commit.  execute_deployment has activated the subscription in the   *)
(* same transaction, whatever the subscription's status.                   *)
Commit(p) ==
  LET me == proc[p] IN
  /\ me.pc = "commit"
  /\ records' = [records EXCEPT ![me.target] = me.copy]
  /\ subStatus' = IF me.op = "execute"
                  THEN [subStatus EXCEPT ![me.copy.sub] = "ACTIVE"] ELSE subStatus
  /\ rowLock' = Unlocked(p)
  /\ Leave(p, "done")
  /\ UNCHANGED <<created, infra, subVersion, broker, ctVars, failedRuns, used>>

(* A driver call fails: _handle_failure writes FAILED and schedules a      *)
(* retry.  execute_deployment then raises, which undoes the write but not  *)
(* the message; the other operations return and commit it.                 *)
DriverStatuses == {"PROVISIONING", "PULLING_IMAGE", "CONFIGURING", "STOPPING"}
                    \cup Starting
(* Mutants: DEGRADED for FAILED; a failed deployment goes back to QUEUED.  *)
FailedDegraded(row) == [row EXCEPT !.status = "DEGRADED", !.retries = @ + 1]
FailedRequeued(row) == [row EXCEPT !.status = "QUEUED", !.retries = @ + 1]
Failed(row) == [row EXCEPT !.status = "FAILED", !.retries = @ + 1]

HandleFailure(p) ==
  LET me  == proc[p]
      row == Failed(me.copy)
  IN
  /\ me.pc = "driver" /\ me.copy.status \in DriverStatuses
  /\ Spend("failure")
  /\ IF CanRetry(row) THEN Send(Execute(me.target)) ELSE UNCHANGED broker
  /\ IF me.op = "execute"
     THEN /\ Leave(p, "raised")
          /\ failedRuns' = [failedRuns EXCEPT ![me.target] = @ + 1]
          /\ UNCHANGED records
     ELSE /\ Leave(p, "done")
          /\ records' = [records EXCEPT ![me.target] = row]
          /\ UNCHANGED failedRuns
  /\ rowLock' = Unlocked(p)
  /\ UNCHANGED <<created, infra, subStatus, subVersion, ctVars>>

-----------------------------------------------------------------------------
(* The except clause of a task: self.retry publishes the call again while  *)
(* its max_retries allow (the repair task, with none, just returns).       *)
(* Mutants: the retry does not count; there is no retry.                   *)
RetryTaskForever(w) ==
  /\ proc[w].pc = "raised"
  /\ Send(proc[w].task)
  /\ Leave(w, "done")
  /\ UNCHANGED <<dbVars, rowLock, ctVars, failedRuns, used>>

RetryTaskNever(w) ==
  /\ proc[w].pc = "raised"
  /\ Leave(w, "done")
  /\ UNCHANGED <<dbVars, broker, rowLock, ctVars, failedRuns, used>>

RetryTask(w) ==
  LET m == proc[w].task IN
  /\ proc[w].pc = "raised"
  /\ IF m.tries < TaskRetries[m.kind]
     THEN Send([m EXCEPT !.tries = @ + 1]) ELSE UNCHANGED broker
  /\ Leave(w, "done")
  /\ UNCHANGED <<dbVars, rowLock, ctVars, failedRuns, used>>

Acknowledge(w) ==
  /\ proc[w].pc = "done"
  /\ proc' = [proc EXCEPT ![w] = Idle]
  /\ UNCHANGED <<dbVars, broker, rowLock, ctVars, failedRuns, used>>

(* The node dies.  Its open transaction rolls back; an unacknowledged task *)
(* is delivered again, one acknowledged on receipt (health) is lost.       *)
Crash(p) ==
  /\ proc[p].pc # "idle"
  /\ Spend("crash")
  /\ IF proc[p].task.kind \in AcksLate
     THEN Send(proc[p].task) ELSE UNCHANGED broker
  /\ proc' = [proc EXCEPT ![p] = Idle]
  /\ rowLock' = Unlocked(p)
  /\ UNCHANGED <<dbVars, ctVars, failedRuns>>

(* The worker's child process alone is killed (CELERY_TASK_TIME_LIMIT, out *)
(* of memory): the parent acknowledges its task, which is lost.            *)
Kill(w) ==
  /\ proc[w].pc # "idle"
  /\ Spend("kill")
  /\ proc' = [proc EXCEPT ![w] = Idle]
  /\ rowLock' = Unlocked(w)
  /\ UNCHANGED <<dbVars, broker, ctVars, failedRuns>>

-----------------------------------------------------------------------------
(* What a process does once it has begun, failures aside.                  *)
Operate(p) ==
  \/ CreateDeployment(p) \/ InsertRecord(p) \/ FindActive(p) \/ FetchRecord(p)
  \/ LockRow(p) \/ NextStage(p) \/ StartContainer(p) \/ StopContainer(p)
  \/ Commit(p) \/ RetryTask(p) \/ Acknowledge(p)

Environment ==
  \/ \E s \in Subs : \/ Install(s) \/ InstallCommits(s) \/ UninstallProduct(s)
                     \/ \E v \in Versions : UpgradeProduct(s, v)
  \/ ViewInfra
  \/ \E r \in Ids : RetryRequest(r) \/ HealthCheck(r)
  \/ \E p \in Requests, r \in Ids, v \in Versions : RollbackRequest(p, r, v)
  \/ \E p \in Procs : HandleFailure(p) \/ Crash(p)
  \/ \E w \in Workers : Kill(w)

Next ==
  \/ \E w \in Workers, m \in Messages : Deliver(w, m)
  \/ \E p \in Procs : Operate(p)
  \/ Environment

Spec == Init /\ [][Next]_vars

(* Idle slots take messages, and what has begun goes on.                   *)
Fairness ==
  /\ \A w \in Workers : WF_vars(\E m \in Messages : Deliver(w, m))
  /\ \A p \in Procs : WF_vars(Operate(p))

FairSpec == Spec /\ Fairness
-----------------------------------------------------------------------------
(* What holds.                                                             *)

Process == [pc : Phases, task : Messages \cup {NoTask} \cup RollbackCalls, op : Ops,
            target : {0} \cup Ids, copy : Row]

(* Every variable has its type.                                            *)
TypeOK ==
  /\ records    \in [Ids -> Row]
  /\ created    \in 0..MaxRecords
  /\ infra      \in BOOLEAN
  /\ subStatus  \in [Subs -> SubStatuses]
  /\ subVersion \in [Subs -> Versions]
  /\ broker     \in [Messages -> Nat]
  /\ proc       \in [Procs -> Process]
  /\ rowLock    \in [Ids -> Procs \cup {None}]
  /\ containers \in Nat
  /\ live       \subseteq 1..containers
  /\ failedRuns \in [Ids -> Nat]
  /\ used       \in [EnvKinds -> Nat]

(* A row is only ever committed in a resting status: whatever fails or     *)
(* crashes between the stages of an operation, no reader and no later task *)
(* finds a deployment stuck half way (@transaction.atomic on each service  *)
(* operation).                                                             *)
NeverStuckHalfway ==
  \A r \in Ids : /\ records[r].status \in Settled \cup {"ABSENT"}
                 /\ records[r].status = "ABSENT" <=> r > created

(* The driver is never called for one deployment by two processes at once: *)
(* each operation saves its first transition, and so holds the row lock,   *)
(* before it calls the driver.                                             *)
UsesDriver(p) == proc[p].pc \in {"driver", "commit"}
DriverExclusion ==
  \A p, q \in Procs :
    p # q /\ UsesDriver(p) /\ UsesDriver(q) => proc[p].target # proc[q].target

(* No two deployments ever name the same container, whatever stale copies  *)
(* are written over newer rows: so stopping one cannot stop another.       *)
ContainersNotShared ==
  \A r, q \in Ids :
    r # q /\ records[r].container # 0 => records[r].container # records[q].container

(* The container a DECOMMISSIONED deployment names has been stopped, and a *)
(* RUNNING deployment names some container.                                *)
DecommissionedIsStopped ==
  \A r \in Ids :
    /\ records[r].status = "DECOMMISSIONED" => records[r].container \notin live
    /\ records[r].status = "RUNNING" => records[r].container # 0

(* An automatic retry is never lost: a deployment that failed and is still *)
(* QUEUED has its execution in the queue, or a worker that runs it or is   *)
(* about to publish it, even when nodes crash (acks_late), as long as no   *)
(* worker child is killed on its own.                                      *)
Pending(r) ==
  \/ \E m \in Messages : m.kind = "execute" /\ m.arg = r /\ broker[m] > 0
  \/ \E p \in Procs : /\ proc[p].task.kind = "execute"
                      /\ proc[p].task.arg = r /\ proc[p].pc # "done"
RetryNeverLost ==
  used["kill"] = 0 /\ MaxRetries > 1 =>
    \A r \in Ids : records[r].status = "QUEUED" /\ failedRuns[r] > 0 => Pending(r)

(* A QUEUED deployment has never touched anything: no container and no     *)
(* retry is counted on it, and no stale save makes such a row QUEUED again.*)
QueuedIsPristine ==
  \A r \in Ids : records[r].status = "QUEUED" =>
    records[r].container = 0 /\ records[r].retries = 0

(* Unless a node died in the middle of a decommission, a deployment that   *)
(* reads RUNNING while no transaction is changing it names a container     *)
(* that is up, however many operations on it were started from stale reads.*)
RunningIsLive ==
  used["crash"] + used["kill"] = 0 =>
    \A r \in Ids : records[r].status = "RUNNING" /\ rowLock[r] = None =>
                    records[r].container \in live

(* An ACTIVE subscription was deployed: some deployment of its own has     *)
(* left the queue for good.                                                *)
ActiveWasDeployed ==
  \A s \in Subs : subStatus[s] = "ACTIVE" =>
    \E r \in Ids : records[r].sub = s /\ records[r].status \in Settled \ {"QUEUED"}

(* All work comes to an end: once the environment stops, every message is  *)
(* consumed and every process gets out of its row-lock waits.              *)
Quiet == (\A m \in Messages : broker[m] = 0) /\ (\A p \in Procs : proc[p] = Idle)
AllWorkEnds == <>[]Quiet

(* Provisioning succeeds in the end, despite failures and crashes: if an   *)
(* install commits before its task's second retry (a minute later), the    *)
(* subscription becomes ACTIVE, be it by the task or by the execution that *)
(* _schedule_retry queued.                                                 *)
ProvisioningSucceeds ==
  \A s \in Subs :
    (subStatus[s] = "PENDING"
       /\ \E t \in 0..1 : broker[[Provision(s) EXCEPT !.tries = t]] > 0)
      ~> subStatus[s] = "ACTIVE"

=============================================================================
