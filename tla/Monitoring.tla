----------------------------- MODULE Monitoring -----------------------------
(***************************************************************************)
(* The health endpoints of KAVAN (backend/apps/health, backend/monitoring) *)
(* on the threads of a worker process: what they answer while PostgreSQL,  *)
(* Redis and the Celery workers come and go beneath them.                  *)
(*                                                                         *)
(* Every view runs in a transaction (ATOMIC_REQUESTS) on a connection the  *)
(* thread keeps between requests (CONN_MAX_AGE), behind TenantMiddleware,  *)
(* which has queried that connection before; the periodic task has neither.*)
(* A tick is Redis's SOCKET_TIMEOUT, 5 s: what a set and a get take at most*)
(***************************************************************************)
EXTENDS Naturals, Sequences

CONSTANTS
  Threads,     \* web threads of the process
  Views,       \* the endpoints that are asked
  ProbeTtl,    \* life of the value the Redis check writes, in ticks
  Prod,        \* production settings: start-up errors are raised
  MaxChanges   \* bound: failures and recoveries of services and crashes

ASSUME MonitoringAssumption ==
  /\ ProbeTtl \in Nat /\ ProbeTtl >= 2   \* outlives a set and a get: 10 s
  /\ MaxChanges \in Nat /\ Prod \in BOOLEAN

Services  == {"db", "redis", "celery"}
Unchecked == {"live", "system"}   \* they report on the process itself
ASSUME ViewsAssumption == Views \subseteq Services \cup {"health", "ready"} \cup Unchecked

Checks ==   \* the checks of each view, in their order
  [health |-> <<"db", "redis", "celery">>, ready |-> <<"db", "redis">>, db |-> <<"db">>,
   redis |-> <<"redis">>, celery |-> <<"celery">>, live |-> <<>>, system |-> <<>>,
   log_health_status |-> <<"db", "redis", "celery">>]

(* The services whose "ok" a 200 takes: Celery is not critical.            *)
Critical(v) == {s \in Services : s = v \/ (v \in {"health", "ready"} /\ s # "celery")}

Needed(v) == Critical(v) \cup {"db"}   \* every request queries it

(* "ok": the services found so.  Ever since the request began, "ill" are   *)
(* those of its critical services that could not be used, and "well" tells *)
(* that it could use all of them.                                          *)
Todo   == UNION {{SubSeq(Checks[v], i, Len(Checks[v])) : i \in 1..Len(Checks[v]) + 1} : v \in DOMAIN Checks}
Thread == [pc : {"idle", "checks", "get", "answered"}, view : DOMAIN Checks \cup {"none"},
           todo : Todo, ok : SUBSET Services, late : BOOLEAN,
           ill : SUBSET Services, well : BOOLEAN, status : {0, 200, 500, 503}]
Idle   == [pc |-> "idle", view |-> "none", todo |-> <<>>, ok |-> {}, late |-> FALSE,
           ill |-> {}, well |-> TRUE, status |-> 0]

VARIABLES
  db,       \* PostgreSQL: "failing" keeps its connections, but no statement ends
  redis,    \* "readonly": it answers, but refuses writes
  celery,   \* whether any worker answers
  probe,    \* ticks the value under _health_check_probe_ has left
  outage,   \* ticks since Redis last took writes, as far as ProbeTtl
  running,  \* the process
  conn,     \* each thread's connection
  th, changes

vars == <<db, redis, celery, probe, outage, running, conn, th, changes>>
env  == <<db, redis, celery, outage, running, changes>>

Init ==
  /\ db = "up" /\ redis = "up" /\ celery = TRUE
  /\ probe = 0 /\ outage = 0 /\ running = TRUE
  /\ conn = [t \in Threads |-> "none"]
  /\ th = [t \in Threads |-> Idle]
  /\ changes = 0

-----------------------------------------------------------------------------
(* What is usable now, and what is not: Redis may vouch for itself with a  *)
(* value as old as ProbeTtl.  Celery's broker is Redis.                    *)
Usable   == {s \in Services : /\ s = "db" => db = "up"
                              /\ s = "redis" => redis = "up"
                              /\ s = "celery" => celery /\ redis = "up"}
Unusable == {s \in Services : /\ s = "db" => db # "up"
                              /\ s = "redis" => redis # "up" /\ outage = ProbeTtl
                              /\ s = "celery" => ~celery}

InRequest(t) == th[t].pc \in {"checks", "get"}
Transactional(t) == th[t].view # "log_health_status"
Step(t, s) == InRequest(t) /\ th[t].todo # <<>> /\ Head(th[t].todo) = s

(* close_if_unusable_or_obsolete, once an error was seen.                  *)
(* Mutant: the connection is kept, error or not.                           *)
Kept(c)      == c
AfterUse(c)  == IF c = "broken" THEN "none" ELSE c

(* A connection that is too old, or one on which an error was seen, is     *)
(* closed between requests; one that broke while nobody used it is not.    *)
(* The query of TenantMiddleware fails on it, and that is the answer.      *)
Begin(t, v) ==
  /\ running /\ ~InRequest(t)
  /\ \E obsolete \in BOOLEAN :
       LET c     == IF obsolete THEN "none" ELSE conn[t]
           fails == v \in Views /\ (c = "broken" \/ db # "up")
       IN
       /\ th' = [th EXCEPT ![t] = [Idle EXCEPT
                   !.pc = IF fails THEN "answered" ELSE "checks",
                   !.status = IF fails THEN 500 ELSE 0,
                   !.view = v, !.todo = IF fails THEN <<>> ELSE Checks[v],
                   !.ill = Critical(v) \cap Unusable,
                   !.well = c # "broken" /\ Needed(v) \subseteq Usable]]
       /\ conn' = IF v \notin Views THEN conn
                  ELSE [conn EXCEPT ![t] = IF fails THEN AfterUse("broken") ELSE "live"]
  /\ UNCHANGED <<env, probe>>

Found(t, s, isOk) ==
  th' = [th EXCEPT ![t].pc = "checks", ![t].todo = Tail(@), ![t].late = FALSE,
                   ![t].ok = IF isOk THEN @ \cup {s} ELSE @]

(* SELECT 1, on the connection of the transaction or, in the task, on one  *)
(* of the worker's own.  An exception is only reported.                    *)
CheckDatabase(t) ==
  /\ Step(t, "db")
  /\ Found(t, "db", db = "up" /\ (Transactional(t) => conn[t] = "live"))
  /\ UNCHANGED <<env, probe, conn>>

(* Redis: a set, then a get; IGNORE_EXCEPTIONS makes an error of the set   *)
(* nothing, of the get a None.  Mutant: the value has the cache's TIMEOUT. *)
DefaultLife == 10 * ProbeTtl
ProbeLife   == ProbeTtl

SetProbe(t) ==
  /\ Step(t, "redis") /\ th[t].pc = "checks"
  /\ probe' = IF redis = "up" THEN ProbeLife ELSE probe
  /\ th' = [th EXCEPT ![t].pc = "get", ![t].late = FALSE]
  /\ UNCHANGED <<env, conn>>

GetProbe(t) ==
  /\ th[t].pc = "get"
  /\ Found(t, "redis", redis # "down" /\ probe > 0)
  /\ UNCHANGED <<env, probe, conn>>

CheckCelery(t) ==
  /\ Step(t, "celery")
  /\ Found(t, "celery", celery /\ redis = "up")
  /\ UNCHANGED <<env, probe, conn>>

(* The view's answer, if the commit does not fail.  (A failed statement    *)
(* makes it a rollback, not an error.)                                     *)
(* Mutants: any "ok" will do; Celery counts.                               *)
AnyOk(t)     == IF th[t].ok # {} \/ Critical(th[t].view) = {} THEN 200 ELSE 503
AllOk(t)     == IF \A i \in DOMAIN Checks[th[t].view] : Checks[th[t].view][i] \in th[t].ok
                THEN 200 ELSE 503
StatusOf(t)  == IF Critical(th[t].view) \subseteq th[t].ok THEN 200 ELSE 503

Finish(t) ==
  /\ th[t].pc = "checks" /\ th[t].todo = <<>>
  /\ IF Transactional(t)
     THEN /\ th' = [th EXCEPT ![t].pc = "answered", ![t].ok = {}, ![t].status =
                              IF conn[t] = "broken" THEN 500 ELSE StatusOf(t)]
          /\ conn' = [conn EXCEPT ![t] = AfterUse(@)]
     ELSE th' = [th EXCEPT ![t] = Idle] /\ UNCHANGED conn
  /\ UNCHANGED <<env, probe>>

-----------------------------------------------------------------------------
(* The services.  Requests under way remember what stayed as it was.       *)
Remembered(late) ==
  [t \in Threads |-> IF ~InRequest(t) THEN th[t]
                     ELSE [th[t] EXCEPT !.ill = @ \cap Unusable',
                                        !.well = @ /\ Needed(th[t].view) \subseteq Usable',
                                        !.late = @ \/ (late /\ th[t].pc = "get")]]
Changes == changes < MaxChanges /\ changes' = changes + 1

SetDb(s) ==
  /\ s # db /\ Changes /\ db' = s
  /\ conn' = [t \in Threads |->
                IF s = "down" /\ conn[t] = "live" THEN "broken" ELSE conn[t]]
  /\ UNCHANGED <<redis, celery, probe, outage, running>>
  /\ th' = Remembered(FALSE)

(* A Redis that was down may have lost the value.                          *)
SetRedis(s) ==
  /\ s # redis /\ Changes /\ redis' = s
  /\ outage' = IF s = "up" THEN 0 ELSE outage
  /\ probe' \in IF redis = "down" THEN {probe, 0} ELSE {probe}
  /\ UNCHANGED <<db, celery, running, conn>>
  /\ th' = Remembered(FALSE)

SetCelery ==
  /\ Changes /\ celery' = ~celery
  /\ UNCHANGED <<db, redis, probe, outage, running, conn>>
  /\ th' = Remembered(FALSE)

Tick ==
  /\ \A t \in Threads : th[t].pc = "get" => ~th[t].late
  /\ probe' = IF probe = 0 THEN 0 ELSE probe - 1
  /\ outage' = IF redis = "up" THEN 0
               ELSE IF outage < ProbeTtl THEN outage + 1 ELSE outage
  /\ UNCHANGED <<db, redis, celery, running, conn, changes>>
  /\ th' = Remembered(TRUE)

(* gunicorn ends a worker (timeout, max_requests) and forks another.       *)
Crash ==
  /\ running /\ Changes /\ running' = FALSE
  /\ th' = [t \in Threads |-> Idle]
  /\ conn' = [t \in Threads |-> "none"]
  /\ UNCHANGED <<db, redis, celery, probe, outage>>

(* validate_configuration: without a database a production process does    *)
(* not start.  A Redis that is away raises nothing, so it only warns.      *)
Boot ==
  /\ ~running /\ (Prod => db # "down") /\ running' = TRUE
  /\ UNCHANGED <<db, redis, celery, probe, outage, conn, th, changes>>

-----------------------------------------------------------------------------
Probed(t)  == \E v \in Views : Begin(t, v)
Go(t) == \/ CheckDatabase(t) \/ SetProbe(t) \/ GetProbe(t) \/ CheckCelery(t) \/ Finish(t)

Next ==
  \/ \E t \in Threads : Probed(t) \/ Begin(t, "log_health_status") \/ Go(t)
  \/ \E s \in {"up", "failing", "down"} : SetDb(s)
  \/ \E s \in {"up", "readonly", "down"} : SetRedis(s)
  \/ SetCelery \/ Tick \/ Crash \/ Boot

(* Threads go on, the probes keep coming, gunicorn keeps a worker running. *)
Fairness == WF_vars(Boot) /\ \A t \in Threads : WF_vars(Go(t)) /\ WF_vars(Probed(t))

Spec == Init /\ [][Next]_vars /\ Fairness
-----------------------------------------------------------------------------
(* Every variable has its type.                                            *)
TypeOK ==
  /\ db \in {"up", "failing", "down"} /\ redis \in {"up", "readonly", "down"}
  /\ celery \in BOOLEAN /\ running \in BOOLEAN
  /\ probe \in 0..ProbeTtl /\ outage \in 0..ProbeTtl
  /\ conn \in [Threads -> {"none", "live", "broken"}]
  /\ th \in [Threads -> Thread]
  /\ changes \in 0..MaxChanges

(* Nobody is told that all is well while it is not: a 200 is not given by  *)
(* a service whose check the view stands for if it was unusable all along. *)
(* The value that vouches for Redis is shared by all threads and outlives  *)
(* an outage that swallows the writes, but by no more than its ten seconds.*)
HonestAnswers ==
  \A t \in Threads : th[t].pc = "answered" /\ th[t].status = 200 =>
    th[t].ill = {}

(* No false alarms: a request that found a working connection, or none, and*)
(* during which all it depends on worked, is answered 200, Celery (unless  *)
(* asked for), the other threads and the expiry of the value regardless.   *)
NoFalseAlarms ==
  \A t \in Threads :
    th[t].pc = "answered" /\ th[t].well => th[t].status = 200

(* Once PostgreSQL and Redis are up for good every thread's answers become *)
(* good for good, crashed processes and broken connections included.       *)
Recovers ==
  <>[](db = "up" /\ redis = "up" /\ (celery \/ "celery" \notin Views)) =>
    <>[](running /\ \A t \in Threads : th[t].pc = "answered" => th[t].status = 200)
=============================================================================
