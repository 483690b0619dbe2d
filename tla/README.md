# KAVAN: a verification development

KAVAN v6.0 is a multi-tenant platform: tenants subscribe to products of a
marketplace, and a deployment engine brings each subscription up as a running
container.  This directory holds TLA+ modules translated from the Django and
Celery code in `src/backend` - the deployment engine and its health checks, the
marketplace, authentication, the request pipeline and the health endpoints -,
the TLC configurations that check them, and proofs for TLAPS.

1. [The system](#1-the-system)
2. [The modules](#2-the-modules)
3. [How the models correspond to the code](#3-how-the-models-correspond-to-the-code)
4. [What the runs check](#4-what-the-runs-check)
5. [What is proved](#5-what-is-proved)
6. [Where code and documentation disagree](#6-where-code-and-documentation-disagree)
7. [Assumptions and limits](#7-assumptions-and-limits)
8. [Plan](#8-plan)

Paths below are relative to `src/backend` unless they begin with `src/`.

## 1. The system

| Component | State | Operations | Interacts with | Hard part | What makes it correct |
|---|---|---|---|---|---|
| Deployment engine (`apps/deployments/services.py`, `tasks.py`, `repositories.py`, `models.py`) | `DeploymentRecord` rows, the messages of the `deployments` queue | create, execute, upgrade, rollback, decommission, failure handling, retry | marketplace (messages), drivers (calls), views, broker, database | several workers and web threads on one row; nested transactions; two retry mechanisms; redelivery | no row left half way, one driver call at a time per deployment, containers not confused, no retry lost, all work ends |
| Health monitoring of deployments (`services.py:671`, `tasks.py:294`) | check snapshots | check all, check one, evaluate, repair | beat, engine | no transaction, no retry: every step may be the last; overlapping checks | repairs rest on a recorded verdict; the current status settles; an ill service is repaired |
| Infrastructure drivers (`drivers.py`) | containers | provision, pull, configure, start, stop, upgrade, rollback, metrics | engine, health monitoring | effects that no transaction undoes | decommissioned means stopped, running means up |
| Infrastructure configuration (`services.py:86`, `repositories.py:112`) | one row per tenant | get or create, update | engine, infrastructure view | check-then-insert, check-then-update | one row per tenant |
| Deployment views (`views.py`) | none | infrastructure, rollback, retry, lists | engine | run in request transactions beside the workers | as the engine |
| Product catalogue (`apps/marketplace/services.py:82`) | products, versions, prices | create, publish, archive, add version, set price | subscriptions | checks and writes of concurrent administrators | unique keys, a default plan is kept, published products have a version |
| Marketplace subscriptions (`apps/marketplace/services.py:300`) | `TenantProduct.status`, `current_version` | install, upgrade, uninstall | engine by messages; the engine calls `activate()` | message before commit; full-row saves; uniqueness per tenant and product | no row of which neither broker nor log knows, no activation undone, an ACTIVE subscription was deployed |
| Authentication (`apps/authentication`) | accounts, profiles, refresh tokens, the deny list in Redis | register, OAuth sign-in, login, rotate, log out | request transaction, cache | concurrent rotations; a reuse detected in a transaction that fails; callers without a transaction; Redis outside of it | one account per address, a successor only beside a revoked parent, a logout lasts |
| Request pipeline (`config/middleware`, `apps/tenants/middleware`, `apps/rbac/middleware.py`, `common/utils/exception_handler.py`) | thread-local identifiers and tenant, the answer under way | each middleware's way in and out, the view's transaction | every request | early returns and exceptions at every level; reused threads | nothing leaks between requests; who is barred is not served; a 500 leaves nothing behind; every answer is marked and its own |
| RBAC (`apps/rbac`) | role tables | check a permission | decorators, middleware | order of the checks | decisions follow the role tables |
| Health endpoints (`apps/health`, `monitoring/health_checks.py`) | a connection per thread, a probe value in Redis | seven endpoints, a periodic log | PostgreSQL, Redis, Celery | stale probe, broken connections, the request transaction around the check | honest answers, no false alarms, recovery |
| Tenant life cycle, quotas (`apps/tenants/services`) | tenant status, usage counters | activate, suspend, freeze, archive, restore; update usage | request pipeline | not runnable as they are (section 7) | |
| Rate limiter, throttles, metrics, service container | | nothing calls them, or they are off | | | |
| Profiles, devices, sessions, MFA, audit; helpers, settings, scripts, frontend | declarative models, pure helpers, configuration | | | | |

How the parts interact.  Every request passes the middleware of
`config/settings/base.py:96` to its view, whose database work is one transaction
(`ATOMIC_REQUESTS`, line 170).  A request of the marketplace writes the subscription and
publishes a task (`delay()`) inside that transaction, so the task may start before
the commit.  Celery worker slots take tasks from Redis.  A task creates a
`DeploymentRecord`, or finds the RUNNING one, and calls an operation of
`DeploymentEngineService`; each operation is one database transaction in which it
moves the record through its statuses and calls the infrastructure driver.  An
operation that fails writes FAILED and publishes an `execute_deployment` task with a
countdown; a task that raises publishes itself again.  `execute_deployment` also
activates the subscription.  Rollback requests run the engine inside a web request.
Beat publishes a fan-out every five minutes, which publishes a check per RUNNING
deployment, which may publish a repair.

`PROJECT.json` lists every component with its status and every hazard at its
line.

## 2. The modules

| Module | What it is |
|---|---|
| `DeploymentEngine` | The engine, its tasks and views, with the database, the broker, the drivers and the marketplace around it. |
| `DeploymentLifecycle` | Abstract specification: the transition rules `DeploymentRecord` documents (`apps/deployments/models.py:183`), for any number of records, with transactions that settle, fail or abort. |
| `DeploymentClaims` | The refinement mapping from the engine to `DeploymentLifecycle`, and a statement of a docstring that the code does not keep. |
| `DeploymentEngineProofs`, `DeploymentRowsProofs` | Theorems about the processes, the row locks, the containers and the committed rows of `DeploymentEngine`. |
| `DeploymentPromisesProofs` | Theorems about what the engine promises its callers: activation, running containers, retries, and the documented life cycle. |
| `DeploymentHealth` | Beat, fan-out, checks, snapshots and repairs, over deployments that come, go, and get better or worse. |
| `DeploymentHealthProofs` | Theorems about `DeploymentHealth`. |
| `MarketplaceProofs`, `AuthenticationProofs`, `RequestPipelineProofs`, `MonitoringProofs` | Theorems about the modules of those names. |
| `Marketplace` | The catalogue and the subscriptions as transactions of concurrent requests. |
| `Authentication` | Accounts, refresh tokens and the deny list, as transactions and as what Redis keeps of them. |
| `RequestPipeline` | The middleware chain, the view with its exception handler and transaction, and the thread-locals. |
| `Monitoring` | The health endpoints over services, connections and a process that fail and recover. |
| `MC...` | The instances TLC checks: sets, and budgets for what the environment may do. |

`DeploymentEngine` has the marketplace's messages and `Marketplace` has the
engine's activation; each takes the other's half as one step of its environment.
`DeploymentHealth` takes the engine likewise: a repair starts a deployment, a
decommissioning ends one.

## 3. How the models correspond to the code

### DeploymentEngine

**Processes.**  `Workers` are the slots of the Celery pool (`--concurrency=2` in
`src/docker-compose.yml`, 4 in `deployment/systemd/kavan-celery.service`),
`Requests` the web threads that serve a rollback.  `proc[p]` holds what a process
has in its local variables: the phase of its task, the task, the operation, the
record it works on and the model instance (`copy`).

| Phase | Where the code is |
|---|---|
| `create` | a task calls `create_deployment`, up to its INSERT |
| `insert`, `insert_infra` | the INSERT of the record, after that of a missing `InfrastructureConfig` |
| `find` | `get_active_deployment` of the upgrade and decommission tasks |
| `fetch` | `get_by_id` and the status guard of an operation |
| `update` | the first `transition_status`, which waits for the row lock |
| `driver` | between stages: the next step is a driver call with the transition that follows it |
| `commit` | all stages done, the transaction still open |
| `raised`, `done` | the task's `except` clause; the return, before the acknowledgement |

**Database.**  `records`, `infra`, `subStatus` and `subVersion` are the last
committed rows.  Reads see them (PostgreSQL READ COMMITTED).  `BaseRepository.update`
sets attributes and calls `save()` without `update_fields`, so a save writes the
whole instance; its first save in a transaction takes the row lock (`rowLock`),
later ones stay invisible, `Commit` publishes the instance, and an exception or a
crash discards it.  This is why `Commit` assigns `copy` to the row and not only a
status: an instance read before the lock was granted overwrites what was committed
in between.  `TenantProduct.activate` and `cancel` do use `update_fields`, so they
change the status alone.

**Failures.**  `HandleFailure` is a driver call that raises, at any stage, with
`_handle_failure` and `_schedule_retry`.  `execute_deployment` re-raises, so the
FAILED row and its retry count are rolled back although the message is sent; the
other operations return and commit them.  A soft time limit raises at the same
places.  `Crash` is the loss of a node (the open transaction rolls back, Redis
delivers an unacknowledged `acks_late` task again), `Kill` the loss of a worker
child (Celery acknowledges its task).

**Broker.**  `broker` is a bag: tasks are delivered in any order, which covers
countdowns and retry delays, and `tries` is Celery's retry count.

**Drivers.**  A container is a number; `start`, `upgrade` and `rollback` start one
under a fresh name (`uuid4`), `stop` stops the one the instance names.

**Marketplace.**  `Install` runs once per subscription, since the pair of tenant and
product is unique; between it and `InstallCommits` the message is out and the row is
not.  Upgrade and uninstall commit in one step, before any worker sees their message.

**What steps are merged, and why.**  The reads of `create_deployment` (subscription,
RUNNING deployment, infrastructure row) are one step; the INSERT is another.  A
driver call and the transition after it are one step: the transition is visible to
nobody until the commit.  The two health tasks are one step that finds a RUNNING
deployment unhealthy.  Timestamps, log rows, URLs, ports and images are left out:
no decision depends on them.

### Marketplace

A request is `idle`, `checked` (it has read committed rows and passed every check of
its service method; a refused request changes nothing and is no step), then
`written` (its statements are done, its locks held, its message out), and ends by
`Commit` or `Fail`.  `req[r].new` is the row to insert or, for `upgrade_product`, the
whole instance that its `save()` will write back; `ids` are the rows an UPDATE
changes.  `Write` waits for the open transaction that wrote the same row or inserted
the same key, as PostgreSQL does, and a unique violation ends the request.
`update_fields` saves touch one field of the row as it is at the commit (`Updated`).
`set_pricing`'s UPDATE matches again after it has got its locks (`Matched`).
`Fail` after `Write` is the case of a message that went out for a row that did not.
`Due` is the task a request owes the engine, `Trigger` the three `_trigger_` methods:
`delay()`, whose errors leave the service and roll the row back, or, if
`apps.deployments.tasks` cannot be imported, a warning that it was not queued
(`unqueued`) and a row that commits all the same.

### Authentication

A request goes the same way; `started` stands between its reads and its statements.
A reuse takes the snapshot of its UPDATE in a step of its own (`Start`), so a
rotation may commit before or after it.  `Misfit` tells which views' answers do not
fit `StandardResponse`: the view raises after the service has returned, and the
transaction is rolled back (`Rollback`).  The token such a view inserts is not given
a number, as nobody ever sees it.

`caller = "service"` is a caller without a request: `manage.py createsuperuser`
(`src/README.md:661`), a script.  Nothing in `auth_service.py` or `token_service.py`
is atomic, so what a view does in one transaction commits there statement by
statement.  `FollowUp` names the second statement of an operation that has two: the
profile that the `post_save` receiver makes after the user (`Rest`), the successor
inserted after its parent's revocation.  Between the two others may read and `Fail`
may strike.  OAuth's `get_or_create` is atomic by itself, its receiver included.

The views' serializers lower the whole address (`Presents`, `Lowered`); the manager's
`normalize_email` lowers the domain only (`Normal`), and that is what a script's
address goes through.  Redis is outside the transaction: `Logout` writes the deny list
first, `Evict` loses an entry.

### RequestPipeline

`th[t]` is where thread `t` is in the list `MIDDLEWARE`, on its way in or out.  A
middleware's early return turns the request round at that place; an exception is
answered at the next place outwards, by Django's `convert_exception_to_response`,
so that the middleware it left does nothing on the way out.  `local[t]` is what the
thread-locals hold, cleared by whom and when the code clears them.

`Paths` are the kinds of routes: views behind `tenant_permission` that filter by
`request.tenant` (`own`) or take the id of a row of anybody's (`row`), views behind
`platform_permission` that list the rows of all (`all`), logout (`auth`), and the two
prefixes `RBACMiddleware` guards, under which nothing is routed.  `read` are the
tenants whose rows the view's queries returned (`Reads`): no manager narrows them, as
only `Tenant` has the scoped one.  `kept` says that the view's transaction
committed and what it wrote may stay.  The view (`Serve`) returns, raises one of
three kinds of exceptions that end in different answers and transactions, returns a
500 itself (the rollback view, `apps/deployments/views.py:242`: its transaction
commits, the service's savepoint is undone), or passes over an error that has
broken its transaction (logout, `auth_service.py:75`); `Outcomes` and `Handled`.

`known` says that the lazy `request.user` has been read.  `RBACMiddleware` reads it for
`/api/v1/platform/`, every DRF view before its method, and else the logger, after the
response: `LogFails` is the database failing then, which makes the answer a 500 of
Django's without a log line.

### Monitoring

Between `Begin` and `Finish` each check is a step, a Redis check two (set, get).
`conn[t]` is the connection a thread keeps (`CONN_MAX_AGE`); it breaks while nobody
looks, and the middleware's first query finds out.  `probe` is the life of the one
value all threads write and read, `outage` for how long no write has succeeded,
both in ticks of the Redis socket timeout.  "failing" is a database that keeps
connections but fails statements, "readonly" a Redis replica or a full one.

### DeploymentHealth

A worker's task is its local variables: what the fan-out has still to publish, or the
deployment under check and the verdict.  Reading the row, asking the driver,
inserting the snapshot and publishing the repair are separate steps, since no
transaction or lock holds them together; an exception of any of the latter leads to
`RecordUnknown`, as the `except` clause does.  `latest` is what `get_latest` returns,
`condemned` what the summary view counts.  A message still in the queue is not
queued twice (duplicates would read the same data when they run).

## 4. What the runs check

Each kind of environment step has a budget, and records, retries and processes
are bounded by constants.  All safety runs have two workers: every race in
this code is between two transactions, and a third slot adds interleavings, not
kinds of conflict.  Three records are enough for a first provisioning, its retry
and one more operation.

| Run | Instance | What it shows |
|---|---|---|
| `EngineFaults` | 1 subscription, 2 workers; 1 upgrade, 1 uninstall, 1 failure, 1 crash | A failure or a crash at any stage leaves rows only in QUEUED, RUNNING, FAILED or DECOMMISSIONED; what is decommissioned is down; a failed execution that is still QUEUED always has its retry somewhere; no stale save makes a row QUEUED again. |
| `EngineRequests` | and a web thread; 1 upgrade, 1 uninstall, 1 rollback, 1 manual retry, 1 failure | Driver calls exclude each other, operations begun from stale reads never share a container, and without crashes a RUNNING row nobody is changing names a container that is up. |
| `EngineHealth` | 2 subscriptions, 2 workers; 1 unhealthy check, 1 uninstall, 1 killed child | The subscriptions of one tenant race for the infrastructure row, and a repair gives one a second deployment: what is decommissioned is down, and neither activates the other. |
| `EngineLiveness` | 2 workers, the retry limits of the code, 6 records; 1 failure, 1 crash | All work ends, and provisioning succeeds in spite of the failures. |
| `Serial` | 1 worker, no rollback; one of each other fault | The engine implements `DeploymentLifecycle`. |
| `Marketplace` | 2 threads, 4 requests (installs, versions and prices may come twice) on 2 product codes and version strings, 1 failure, 1 engine that cannot be imported, activations at any time | Keys stay unique, no committed subscription lacks its task unless the log says so, a published product has a version, a version keeps a default plan, an activation is not undone, requests end. |
| `Authentication` | 2 threads, 3 spellings of 2 addresses, 4 tokens, clock to 3, lifetimes of 2 | One account per address, whose profile is there, being made, or lost to a failure; a successor only beside a revoked parent, though a script commits them apart; a logged-out access token is refused to its end; a reuse whose caller returns revokes all it saw; requests end. |
| `RequestPipeline` | 2 threads, 2 requests of 6 kinds (a view that takes an id, an all-tenant one, logout, the two guarded prefixes; a tenant's host, another's domain, neither), 2 tenants, one archived in between | Thread-locals are the request's own, who is barred is not served, a 500 leaves no write and what stays has its log line; every request is answered, with its own id and the security headers. |
| `Monitoring` | 2 threads, 3 endpoints, a probe life of 2 ticks, 2 changes of PostgreSQL, Redis, Celery or the process | Answers are honest, there are no false alarms, and all recovers. |
| `DeploymentHealth` | 2 workers, 2 deployments of which one is started by a repair, metrics at the thresholds, 2 failures, crashes, stops or changes | Repairs rest on a recorded verdict, statuses settle, what stays ill is repaired again and again. |
| `ClaimUninstall`, `ClaimReuse` | as small as the counterexample allows; that of `Authentication` | See section 6. |

Two threads or workers are enough elsewhere too, since every conflict is between two
transactions or over one thread's own past.  Two requests on two threads include
both on one thread, one after the other, which is what leaks need.  In
`Authentication` a chain of three rotations and a clock past the life of both kinds
of tokens happen; in `Monitoring` two changes are an outage and its end, or the
failure of two services; in `DeploymentHealth` a change and a lost repair, or two
lost steps of one check.

**Fairness** (`FairSpec`): an idle slot that could take a message takes one (the
Celery consumer polls as long as it runs), and a process that has begun goes on
(`Operate`: driver calls return or raise, the time limits of
`config/settings/base.py:219` see to that; PostgreSQL grants a row lock once its
holder ends).  Nothing is assumed of the environment: installs need not commit,
requests need not come, failures need not stop except by their budget.  Weak
fairness is enough because an enabled step of a process stays enabled, save for a
lock that another process takes first, and that happens finitely often.

`ProvisioningSucceeds` assumes that the install commits before the task's second
retry, a minute later.  Without that the task exhausts its retries on a
subscription nobody can see, which is a request that hangs, not one that works.

The other modules assume of a thread or worker only that it goes on with what it
has begun.  Three assume more.  `Monitoring`: the probes keep coming, and gunicorn's
master replaces a worker that ended.  `DeploymentHealth`: beat keeps publishing, and
a message that is in the queue again and again is taken in the end (strong, since a
slot may always be busy with another one and a fan-out expires after two minutes;
the queue is served in order and tasks are bounded).  In `Marketplace` and
`Authentication` nobody has to begin a request: `RequestsEnd` says of those begun
that their waits end.  A request takes its locks in one step there, so what is covered
is a wait for an open transaction and a lock that is not let go of, not two requests
that each hold what the other wants (two `set_pricing` of one version may): PostgreSQL
aborts one of those, which is `Fail`.

`CHECK_DEADLOCK FALSE` where requests are bounded: when the queue is empty and the
budget spent there is nothing left to do.  `AllWorkEnds`, `RequestsEnd` and
`AnsweredAndMarked` are what rule out a real deadlock there.

Every property of a passing run has a mutant in `PROJECT.json`, a plausible bug
(no row lock, no transaction, no `acks_late`, a shared container name, an
unbounded retry...), under which the run must find it violated.

## 5. What is proved

Every invariant, action property and refinement that a run checks is proved as
well; what is left to TLC is liveness.

### The deployment engine

For any workers, web threads, subscriptions, versions, retry limits, records and
budgets that satisfy `ConstantsAssumption`:

| Theorem | Statement |
|---|---|
| `Typing` | `Spec => []IInv`, the inductive invariant |
| `TypeCorrect` | `Spec => []TypeOK` |
| `DriverIsExclusive` | `Spec => []DriverExclusion` |
| `NamesStayApart` | `Spec => [](NamesApart /\ FreshRows)`, what containers are named by |
| `ContainersStayApart` | `Spec => []ContainersNotShared` |
| `RowsStaySound` | `Spec => []RowInv`, what rows and instances may hold |
| `RowsAreSettled` | `Spec => []NeverStuckHalfway` |
| `QueuedRowsArePristine` | `Spec => []QueuedIsPristine` |
| `DecommissionedRowsAreStopped` | `Spec => []DecommissionedIsStopped` |
| `ActiveSubscriptionsAreDeployed` | `Spec => []ActiveWasDeployed` |
| `RunningDeploymentsAreLive` | `Spec => []RunningIsLive` |
| `RetriesAreNeverLost` | `Spec => []RetryNeverLost` |
| `SerialEngineKeepsLifecycle` | `Spec => DocumentedLifecycle`, for one worker and no rollback requests (`OneProcess`) |

*The inductive invariant.*  `TypeOK` alone is not inductive: that `CreateDeployment`
builds a well-typed row needs the task to be one that creates, that `FirstTransition`
returns a row needs the operation to be one of its four cases, that `Commit` writes
a typed table needs the target to be an existing record.  `IInv` adds `PhasesOK`,
which says for each phase which tasks, operations, targets and instances are
possible in it.

*Driver exclusion.*  A process in phase `driver` or `commit` holds the row lock of its
target (`LocksHeld`), and a lock has one holder.  `LockRow` establishes it, `Unlocked` is used by
exactly the steps that leave these phases, and no step releases another's lock.

*Containers.*  The invariant follows each container number through the instances
as well as the rows: a number names at most one deployment, by its row or by an
instance that a process is going to save on it, and all numbers in use are at most
`containers`.  A stale save may bring back an old number, but only of the same
record.  A row about to be inserted names none.

*Rows.*  A committed row was an instance before, so `RowInv` speaks of both: each
existing row is `Sound` (settled; if QUEUED untouched, if DECOMMISSIONED stopped,
if RUNNING with a container), and each process `Fits` (an instance at its commit is
sound and not QUEUED, one that is STOPPED names a container that is down, an
operation past its status guard works on a record that exists).  The one step that
could spoil it is starting a container, if a decommissioned row or a stopped
instance already named the new one; `NamesApart` says that nobody does.

*Promises.*  These rest on what each step does to its process, stated once per action
(`LockEffect`, `StopEffect`, `CommitEffect`...), and on the invariants above.
- `ActInv` adds to `ActiveWasDeployed` that an instance keeps the subscription of the
  row it will be saved to: a stale save would otherwise hand a settled row to another
  subscription, and leave the active one with none.
- `LiveInv`: as long as nothing died, the container of a RUNNING row is up, or the
  process that stopped it holds the row and is going to commit another status
  (`UpOrRetired`), and what is about to become RUNNING is up (`StartedIsUp`).  That one
  operation cannot stop the container of another's row takes `NamesApart`, that the
  stopper is still there takes `LocksHeld`.
- `RetryInv`: a QUEUED row that failed has its execution in the queue or in a worker
  that will yet commit it or fail, which is stronger than `RetryNeverLost` (there a
  worker that has raised counts too, although its own retry may be spent).  It needs
  that such a worker runs its own record, and that the instance under execution has no
  retries counted: `CanRetry` is then never what ends the chain.
- `SerialInv`: the only process has every lock there is, its instance has the status of
  the row when it takes the lock, and each operation begins where the documented
  transitions do.  So the lock holder's instance is what `Seen` shows, and `StepRefines`
  maps each action to one of `DeploymentLifecycle`: the stages to `Move`, the INSERT to
  `Create`, a commit to `Settle`, a saved failure to `Fail`, a rollback of the
  transaction by exception or crash to `Abort`, the rest to a stutter.  With a second
  process the theorem is false (section 6).

### The other modules

Each for any values of its constants; in each, `Invariance` proves the inductive
invariant, which contains the module's `TypeOK`, and the rest follows from it.

| Module, inductive invariant | Theorem | Property |
|---|---|---|
| `DeploymentHealthProofs` | `HealthTyping` | `TypeOK` |
| | `RepairsAreRecorded` | `RepairIsRecorded` |
| `MarketplaceProofs`, `MInv` | `MarketplaceTyping` | `TypeOK` |
| | `KeysStayUnique` | `KeysUnique` |
| | `RowsHaveTasks` | `NoRowWithoutTask` |
| | `PublishedProductsHaveVersions` | `PublishedHasVersion` |
| | `DefaultsLast`, `ActivationsLast` | `DefaultPlanKept`, `ActivationKept` (steps) |
| `AuthenticationProofs`, `AInv` | `AuthenticationTyping` | `TypeOK` |
| | `AccountsAreUnique` | `OneAccountPerAddress` |
| | `RotationRevokesFirst` | `ParentRevoked` |
| | `LogoutLasts` | `LoggedOutRefused` |
| | `ReuseIsThorough` | `ReuseRevokes` (steps) |
| `RequestPipelineProofs`, `PInv` | `PipelineTyping` | `TypeOK` |
| | `ThreadsAreClean` | `LocalsAreOwn` |
| | `BarredStaysOut` | `BarredIsNotServed` |
| | `FailuresLeaveNothing` | `FailuresUndone` |
| | `AnswersAreMarked` | the safe half of `AnsweredAndMarked` |
| `MonitoringProofs`, `HInv` | `MonitoringTyping` | `TypeOK` |
| | `AnswersAreHonest` | `HonestAnswers` |
| | `AlarmsAreTrue` | `NoFalseAlarms` |

*Health checks.*  The invariant adds to `RepairIsRecorded` that a worker about to
publish a repair holds deployments whose UNHEALTHY snapshot is already there, which
neither a failure nor a crash nor another worker takes back.

*Marketplace.*  None of the properties is inductive, since a request checks in one
step, writes in another and commits in a third.  `RequestsFit` says what of a
request's reads still holds then: the rows it names are still of their table, a
publication's products have versions (versions are retired, never deleted), the row of
an upgrade has the key of the row it will overwrite, and what it inserts clashes with
no committed row.  `InsertsApart` says the same of two open inserts: `Write` waits for
the one that came first.  `IdsInOrder` keeps a fresh id from naming a row.

*Authentication.*  `RequestsFit` and `IdsApart` do the same for sign-ins and rotations.
A rotation's successor is inserted, by a script in a later transaction, once its parent
is committed as revoked, and no step makes a token good again: `Parents`, with the
parent of an open rotation in `Fits`.  A reuse revokes what its UPDATE's
snapshot holds; each token it saw is in that snapshot or has been revoked since, which
is the last line of `Fits`.  `DeniedToEnd` gives each deny-list entry the life of its
token.  `Accounts` says that addresses are stored in normal form and that no profile is without
its account; `Awaited` that, as long as nothing has failed, each account without a
profile has the registration under way that will make it.

*Request pipeline.*  For each place in the chain and each direction, `LocalsFit` says
which thread-locals may be set: those of the middleware the request is inside, from
the request itself.  `EntryFits` follows the tenant from the host to the view,
`AnswerFits` what an answer carries once the request has turned.  What a view wrote
can only be kept in an answer of status other than 500 whose user is `known`: so neither
the logger nor anything outside it can turn it into a 500 or lose its line, which is
`FailuresUndone`.  Nobody barred all along gets past the tenant middleware.
Without the position
`LocalsAreOwn` is not inductive: that `CorrelationIdMiddleware` clears the identifier
depends on its having been entered.  `AnsweredAndMarked` says that every answer comes and
that it is marked; `OnlyMarkedAnswers` is the second half.

*Health endpoints.*  `Gathered` is what a check has seen when the next begins: what it
found ill was unusable ever since the request began, and while all was well all it
needs is usable and still found so.  `ProbeAges` bounds the age of the probe's value
by the length of the outage: this is why a Redis without writes is vouched for no
longer than the probe's life.  `AwaitsProbe` says that the get follows the set by at
most a tick.

### Assumptions on the constants

No module holds an assumption other than those on its constants, and TLC evaluates
them in every run.  The proofs made some of them explicit:
- a set that the environment chooses from is not empty (`Spellings`, `Codes`, `Strings`,
  `Metrics`);
- `MaxRows >= 3`: the catalogue begins with a product, a version and a plan;
- `Code` and `Domain` are injective (`unique=True`, `apps/tenants/models/tenant.py:21` and
  26): otherwise a host resolves to two tenants;
- `ProbeTtl >= 2`: the value lives 10 seconds, a set and a get may take 5 each.

### What is only model-checked

The liveness properties, which rest on fairness and `ENABLED`: `AllWorkEnds`,
`ProvisioningSucceeds`, `RequestsEnd` of `Marketplace` and of `Authentication`, that
answers come in `AnsweredAndMarked`, `Recovers`, `StatusSettles`, `IllIsRepaired`.

## 6. Where code and documentation disagree

Two disagreements have a run, in which TLC prints the behaviour.

| Run | Statement | What the code does |
|---|---|---|
| `ClaimUninstall` | `apps/marketplace/services.py:518` "The deployment is decommissioned by Layer 6." | After a health repair there are two RUNNING deployments, and one is left. |
| `ClaimReuse` | `apps/authentication/services/token_service.py:96` "we will revoke ALL tokens for this user" | The view answers with an argument `StandardResponse.error` does not have; the TypeError rolls the revocation back (`ReuseRevokes` shows that a caller that returns keeps it). |

Others were met while modelling; the models behave as the code does.

Engine.
- A second worker's save from a stale read takes a record out of DECOMMISSIONED,
  against the transition rules (`apps/deployments/models.py:183`); `Serial` shows that
  without concurrency on one record the rules hold, so it is a race and not a missing
  transition.
- Two provision tasks pass "Prevent duplicate active deployments" (`services.py:188`)
  and both end RUNNING; a retried task creates a second record (`models.py:179` says
  exactly one per install).
- `execute_deployment` returns the record "in RUNNING (or FAILED) status"
  (`services.py:252`): the FAILED write is rolled back by the re-raised exception, and
  with it the retry count, so `max_retries` (`models.py:286`) never limits executions.
- "Manually retry a FAILED deployment" (`views.py:253`): the execution it queues refuses
  a FAILED record.
- An upgrade "to the version in current_version" (`services.py:293`) leaves
  `to_version`, and the former container running (`drivers.py:233`).
- A provisioning under way reactivates a subscription that was "permanently"
  cancelled (`marketplace/models/product.py:358`).
- `execute_rollback` checks no status (`services.py:356` names two).
- A crash after `driver.stop` leaves a RUNNING row whose container is down, until the task
  comes again, or for good if only the worker child was killed: `RunningIsLive` is about
  runs in which no process has died.

Health checks.
- 2000 ms or 85 % is HEALTHY, by the docstring DEGRADED (`services.py:750`).
- A repair that cannot be published leaves UNKNOWN over the UNHEALTHY snapshot.
- Nothing limits repairs: each check that finds the service ill starts another
  deployment, and the ill one stays RUNNING.
- The summary counts deployments that were HEALTHY once, not those that are.

Marketplace.
- An install may name an EOL version or a plan of another version; an upgrade
  does not check that the version is newer; publish admits any status.
- Two concurrent `set_pricing` may both leave a default plan.
- A stale upgrade undoes a cancellation that commits beneath it.
- Where `apps.deployments.tasks` cannot be imported, install, upgrade and uninstall
  succeed with a warning in the log, and nothing queues the task later
  (`services.py:575`, 589, 600).
- Reinstalling after a cancellation violates `unique_together`: a 500.

Authentication.
- Nothing that signs in reads the account's status, LOCKED or SUSPENDED included.
- A failure between the commits of a user and of its profile leaves the one without
  the other, which nothing makes up for; one between the commits of a rotation leaves
  the parent revoked and no successor.  Both only outside a view.
- An account a script makes with capitals before the @ cannot sign in through the
  views, which lower them.
- A logout whose save fails is answered 200, and nothing was saved.
- Of the views the model has, all but logout raise the TypeError above, so they
  roll back what they did.
- Two concurrent rotations of one token both succeed; a child they commit during a
  reuse survives it.

Request pipeline.
- `ExceptionHandlerMiddleware` (`config/middleware/exception_handler.py:41`) never sees
  an exception: Django turns it into an answer inside.
- A `KavanBaseException` is answered with an error and its transaction commits.
- A failed rollback that is answered 500 has committed its (empty) transaction; the
  container the driver started and a retry message stay, as in the engine's model.
- An error of the database under the logger loses the line of the answer it was to log.
- `src/README.md:309` says "Repositories automatically apply global filters based on the
  thread-local tenant context": only `Tenant` has the scoped manager; a deployment is
  fetched by its id, whosever it is (`apps/deployments/views.py:142`, 167, 189, 230, 260).
  `Reads` is what the code does, so nothing is claimed of whose rows a request reads.
- The administrators' lists return all tenants' rows on every host, a tenant's too.
- With a tenant set, `Tenant.objects` fails: the scoped manager filters by a field
  `tenant` that `Tenant` does not have (`common/models/tenant_manager.py:9`).
- Nothing is routed under the two prefixes `RBACMiddleware` guards.
- A FROZEN tenant is served; the status is not among `TenantStatus`.
- Refusals of `SecurityHardeningMiddleware` never reach the request log.

Health endpoints.
- With PostgreSQL down every endpoint answers 500, `/health/live/` too: the tenant
  middleware queries first.  The tests mock the checks and expect a 503.
- A Redis that is away at start-up only warns, in production too.
- "PING" (`monitoring/health_checks.py:52`) is a set and a get: a value up to ten
  seconds old answers for a Redis that takes no writes.

## 7. Assumptions and limits

- The database is PostgreSQL in READ COMMITTED, as `config/settings/base.py`
  configures it; a worker of the `deployments` queue is running.
- Names resolve as they evidently should.  Some modules mix `apps.` and
  `backend.apps.` imports or lack one; the models are of the code those names mean.
- A driver call may fail at any stage or succeed.  A failure of the database inside
  an operation is covered as a crash of the process or a failed request.
- Redis redelivers an unacknowledged task; a countdown is an arbitrary delay.
- All subscriptions belong to one tenant; tenants share nothing in the engine.
- A repair names a record that exists: records are never deleted by any code here.
- Roles and permissions do not change while requests run: nothing changes them.
- The engine's `Install` publishes its task; an install that could only log a warning
  has no behaviour in `DeploymentEngine`.

Not modelled:
- *Tenant life cycle and quotas.*  `apps/tenants/models/tenant.py` raises on import,
  onboarding omits NOT NULL columns, the scoped filter names a field `Tenant`
  lacks, and nobody calls the quotas: there is no behaviour to check.  The status
  changes are there as the environment of `RequestPipeline`.
- *The admin site, the tenants' views and Django's CSRF check* in `RequestPipeline`: no
  decision of the chain depends on them.
- *The infrastructure PATCH.*  Its minima hold field by field whatever interleaves;
  it can only lose another request's update, about which nothing is said.
- *Rate limiter, metrics counters, service container, retry decorator*: nobody
  calls them.  *Throttles*: off by default, and switched on they raise
  NotImplementedError (`config/throttling.py`).
- *Password reset, e-mail verification, tenant tasks*: stubs.
- Declarative models, read-only views other than those above, serializers, URL
  tables, scripts, proxies, the frontend.

## 8. Plan

1. *Done.*  The engine with its abstract life cycle; its health checks; the
   marketplace; authentication; the request pipeline; the health endpoints.
2. *Done.*  Theorems for every safety property the runs check, and the refinement of
   the serial engine to `DeploymentLifecycle`.
3. To come: what the concurrent engine keeps of the life cycle, as an action property
   of committed rows (nothing returns to QUEUED, a row is only inserted once, which
   statuses a save may replace), checked and proved; the refinement of `Marketplace`
   and `Authentication` to atomic operations where the code makes them so; the lock
   order and waiting relation behind the liveness runs, as safety lemmas.
