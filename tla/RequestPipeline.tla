--------------------------- MODULE RequestPipeline ---------------------------
(***************************************************************************)
(* A request on its way through KAVAN's middleware (settings MIDDLEWARE)   *)
(* to a view and back, on the threads of a worker, which are reused.       *)
(*                                                                         *)
(* The identifiers and the tenant of a request are kept in thread-locals,  *)
(* the tenant also in request.tenant, which the views go by; only the      *)
(* manager of Tenant goes by the thread's.  request.user is lazy: whoever  *)
(* first needs it reads it from the database.  Django wraps each middleware*)
(* so that an exception in it becomes an answer to the next one outwards.  *)
(***************************************************************************)
EXTENDS Naturals, Sequences

CONSTANTS
  Threads, Requests,  \* worker threads; requests, each sent once
  Tenants, Hosts,     \* tenants; what the DomainResolver makes of a Host header
  Code, Domain,       \* each tenant's tenant_code and company_domain
  Users,
  PlatformUsers,      \* those with a platform_role that grants the permission
  Granted,            \* <<user, tenant>>: a member whose role grants it
  Incoming,           \* <<host, path, user>> of the requests that may come
  CorrelationId,      \* ENABLE_CORRELATION_ID
  Switches,           \* <<tenant, status>>: what an administrator may set
  MaxChanges          \* bound: how often

(* /api/v1/platform/ and /tenant/, under which nothing is routed; views    *)
(* behind tenant_permission that filter by request.tenant ("own") or take  *)
(* the id of a row ("row"); views behind platform_permission that list the *)
(* rows of all ("all"); logout, for any user signed in ("auth").           *)
Paths  == {"platform", "tenant", "own", "row", "all", "auth"}
Routed == Paths \ {"platform", "tenant"}

ASSUME PipelineAssumption ==
  /\ Code \in [Tenants -> Hosts] /\ Domain \in [Tenants -> Hosts]
  /\ \A x, y \in Tenants : Code[x] = Code[y] \/ Domain[x] = Domain[y] => x = y  \* unique
  /\ Switches \subseteq Tenants \X {"ACTIVE", "FROZEN", "SUSPENDED", "ARCHIVED"}
  /\ Incoming \subseteq Hosts \X Paths \X Users
  /\ PlatformUsers \subseteq Users /\ Granted \subseteq Users \X Tenants
  /\ CorrelationId \in BOOLEAN /\ MaxChanges \in Nat
  /\ "none" \notin Tenants \cup Requests

(* ExceptionHandler, between "logging" and "django", does nothing: what is *)
(* inside answers every exception before it could be caught there.         *)
MIDDLEWARE == <<"request_id", "correlation", "context", "headers", "hardening",
                "logging", "django", "tenant", "rbac">>
View       == Len(MIDDLEWARE) + 1
Position(m) == CHOOSE i \in DOMAIN MIDDLEWARE : MIDDLEWARE[i] = m

Statuses == {"ACTIVE", "FROZEN", "SUSPENDED", "ARCHIVED"}

NoTenant  == "none"
NoRequest == "none"
Empty == [rid |-> NoRequest, cid |-> NoRequest, ctx |-> NoRequest, tenant |-> NoTenant]
Local == [rid : Requests \cup {NoRequest}, cid : Requests \cup {NoRequest},
          ctx : Requests \cup {NoRequest}, tenant : Tenants \cup {NoTenant}]

(* "form": the KAVAN envelope, Django's own page or a plain text;          *)
(* "read": the tenants whose rows the view's queries returned; "kept": what*)
(* the view wrote may stay, its transaction having committed.              *)
NoAnswer == [status |-> 0, form |-> "none", read |-> {}, kept |-> FALSE, marks |-> {}]
Answer   == [status : {0, 200, 400, 403, 404, 413, 422, 500},
             form : {"none", "envelope", "django", "plain"}, read : SUBSET Tenants,
             kept : BOOLEAN, marks : SUBSET (Requests \cup {"security", "logged"})]

(* A thread: its request, where that is, and request.tenant.  "known":     *)
(* request.user has been evaluated; "barred": so far the host's tenant has *)
(* been suspended or archived all along.                                   *)
Thread == [q : Requests \cup {NoRequest}, at : 0..View, way : {"in", "out"},
           host : Hosts \cup {"none"}, path : Paths \cup {"none"},
           user : Users \cup {"none"}, tenant : Tenants \cup {NoTenant},
           known : BOOLEAN, barred : BOOLEAN, answer : Answer]
Idle   == [q |-> NoRequest, at |-> 0, way |-> "in", host |-> "none", path |-> "none",
           user |-> "none", tenant |-> NoTenant, known |-> FALSE, barred |-> FALSE,
           answer |-> NoAnswer]

VARIABLES
  th,       \* threads
  local,    \* their thread-locals
  status,   \* tenant_status of each tenant
  sent,     \* requests sent
  answers,  \* what has been answered
  changes   \* how much of MaxChanges is used

vars == <<th, local, status, sent, answers, changes>>

Init ==
  /\ th = [t \in Threads |-> Idle]
  /\ local = [t \in Threads |-> Empty]
  /\ status = [x \in Tenants |-> "ACTIVE"]
  /\ sent = {}
  /\ answers = [q \in Requests |-> NoAnswer]
  /\ changes = 0

-----------------------------------------------------------------------------
At(t, m) == th[t].way = "in" /\ th[t].q # NoRequest
            /\ th[t].at = IF m = "view" THEN View ELSE Position(m)

In(t)     == th' = [th EXCEPT ![t].at = @ + 1]
Out(t, at, a) == th' = [th EXCEPT ![t].way = "out", ![t].at = at, ![t].answer = a]
OutKnown(t, a) ==
  th' = [th EXCEPT ![t] = [th[t] EXCEPT
           !.way = "out", !.at = th[t].at - 1, !.answer = a, !.known = TRUE]]
Plain(s)  == [NoAnswer EXCEPT !.status = s, !.form = "plain"]
Django(s) == [NoAnswer EXCEPT !.status = s, !.form = "django"]

(* By tenant_code first, then by company_domain.                           *)
HostTenant(host) ==
  LET byCode   == {x \in Tenants : Code[x] = host}
      byDomain == {x \in Tenants : Domain[x] = host}
  IN  IF byCode # {} THEN byCode ELSE byDomain

Refused(x) == status[x] \in {"SUSPENDED", "ARCHIVED"}

Accept(t, q) ==
  /\ th[t] = Idle /\ q \notin sent
  /\ \E in \in Incoming :
       th' = [th EXCEPT ![t] = [Idle EXCEPT
                !.q = q, !.at = 1, !.host = in[1], !.path = in[2], !.user = in[3],
                !.barred = \E x \in HostTenant(in[1]) : Refused(x)]]
  /\ sent' = sent \cup {q}
  /\ UNCHANGED <<local, status, answers, changes>>

RequestID(t) ==
  /\ At(t, "request_id")
  /\ local' = [local EXCEPT ![t].rid = th[t].q]
  /\ In(t) /\ UNCHANGED <<status, sent, answers, changes>>

CorrelationID(t) ==
  /\ At(t, "correlation")
  /\ local' = IF CorrelationId THEN [local EXCEPT ![t].cid = th[t].q] ELSE local
  /\ In(t) /\ UNCHANGED <<status, sent, answers, changes>>

(* The request context copies the identifiers of the thread.               *)
RequestContext(t) ==
  /\ At(t, "context")
  /\ local' = [local EXCEPT ![t].ctx = local[t].rid]
  /\ In(t) /\ UNCHANGED <<status, sent, answers, changes>>

(* Nothing on the way in, or an exception of Django's own middleware.      *)
PassIn(t) ==
  /\ \E m \in {"headers", "logging", "django"} :
       At(t, m) /\ (In(t) \/ (m = "django" /\ Out(t, th[t].at - 1, Django(500))))
  /\ UNCHANGED <<local, status, sent, answers, changes>>

(* Body too large, a bad Content-Length, a Host that is not allowed: the   *)
(* last is raised, and answered by Django, outside ExceptionHandler.       *)
Hardening(t) ==
  /\ At(t, "hardening")
  /\ In(t) \/ \E a \in {Plain(413), Plain(400), Django(400)} : Out(t, th[t].at - 1, a)
  /\ UNCHANGED <<local, status, sent, answers, changes>>

(* TenantMiddleware.process_request.  A refusal still goes through its     *)
(* process_response; an exception of the query does not.                   *)
(* Mutant: an archived tenant is let in.                                   *)
OnlySuspended(x) == status[x] = "SUSPENDED"
TurnedAway(x)    == Refused(x)

TenantIn(t) ==
  /\ At(t, "tenant")
  /\ \/ \E x \in HostTenant(th[t].host) :
          \/ /\ TurnedAway(x)
             /\ local' = [local EXCEPT ![t].tenant = NoTenant]
             /\ Out(t, th[t].at, Plain(403))
          \/ /\ ~TurnedAway(x)
             /\ local' = [local EXCEPT ![t].tenant = x]
             /\ th' = [th EXCEPT ![t].at = @ + 1, ![t].tenant = x]
     \/ /\ HostTenant(th[t].host) = {}
        /\ local' = [local EXCEPT ![t].tenant = NoTenant]
        /\ In(t)
     \/ /\ local' = [local EXCEPT ![t].tenant = NoTenant]
        /\ Out(t, th[t].at - 1, Django(500))
  /\ UNCHANGED <<status, sent, answers, changes>>

(* RBACMiddleware, by the prefix of the path.  For one of them it needs the*)
(* user, and the database may fail.                                        *)
Rbac(t) ==
  /\ At(t, "rbac")
  /\ \/ /\ th[t].path = "platform"
        /\ \/ /\ th[t].user \in PlatformUsers
              /\ th' = [th EXCEPT ![t].at = @ + 1, ![t].known = TRUE]
           \/ th[t].user \notin PlatformUsers /\ OutKnown(t, Plain(403))
           \/ Out(t, th[t].at - 1, Django(500))
     \/ /\ th[t].path = "tenant" /\ th[t].tenant = NoTenant
        /\ Out(t, th[t].at - 1, Plain(403))
     \/ /\ th[t].path # "platform" /\ (th[t].path = "tenant" => th[t].tenant # NoTenant)
        /\ In(t)
  /\ UNCHANGED <<local, status, sent, answers, changes>>

-----------------------------------------------------------------------------
(* The view's decorator: platform_permission or tenant_permission, by      *)
(* RBACService.check_permission (its cache always misses).                 *)
Permitted(t) ==
  CASE th[t].path = "auth" -> TRUE
    [] th[t].path = "all"  -> th[t].user \in PlatformUsers
    [] OTHER -> th[t].tenant # NoTenant /\ <<th[t].user, th[t].tenant>> \in Granted

(* The tenants whose rows the view may read: by its id, a row of any.      *)
Reads(t) ==
  CASE th[t].path = "own" -> {{th[t].tenant}}
    [] th[t].path = "row" -> {{x} : x \in Tenants} \cup {{}}
    [] th[t].path = "all" -> {Tenants}
    [] OTHER              -> {{}}

Enveloped(s, kept, read) ==
  [NoAnswer EXCEPT !.status = s, !.form = "envelope", !.kept = kept, !.read = read]

(* A permitted view ends well ("none"), or with an exception: "kavan", a   *)
(* KavanBaseException or one the view answers itself by a 4xx, and what was*)
(* written is committed; "drf", whose handler marks the rollback; "other", *)
(* which nobody answers, and the atomic view rolls back.  The rollback of a*)
(* deployment answers what its service raised by a 500, the service's own  *)
(* savepoint undone ("returned"); logout passes over an error of the       *)
(* database that has broken its transaction ("swallowed").                 *)
Outcomes(t) ==
  IF ~Permitted(t) THEN {"denied"}
  ELSE {"none", "kavan", "drf", "other"}
       \cup (IF th[t].path = "row" THEN {"returned"} ELSE {})
       \cup (IF th[t].path = "auth" THEN {"swallowed"} ELSE {})

(* kavan_exception_handler.  Mutant: enterprise_exception_handler, which   *)
(* answers the exceptions of the last kind too.                            *)
AllAnswered(exc, read) ==
  CASE exc = "none"      -> Enveloped(200, TRUE, read)
    [] exc = "kavan"     -> Enveloped(422, TRUE, read)
    [] exc = "drf"       -> Enveloped(400, FALSE, read)
    [] exc = "returned"  -> Enveloped(500, FALSE, read)
    [] exc = "swallowed" -> Enveloped(200, FALSE, {})
    [] exc = "other"     -> Enveloped(500, TRUE, read)
    [] exc = "denied"    -> Enveloped(403, FALSE, {})
Handled(exc, read) ==
  CASE exc = "none"      -> Enveloped(200, TRUE, read)
    [] exc = "kavan"     -> Enveloped(422, TRUE, read)
    [] exc = "drf"       -> Enveloped(400, FALSE, read)
    [] exc = "returned"  -> Enveloped(500, FALSE, read)
    [] exc = "swallowed" -> Enveloped(200, FALSE, {})
    [] exc = "other"     -> Django(500)
    [] exc = "denied"    -> Enveloped(403, FALSE, {})

(* Every view is DRF's, which evaluates the user first: that may fail, and *)
(* so may the BEGIN before it.                                             *)
Serve(t) ==
  /\ At(t, "view")
  /\ IF th[t].path \in Routed
     THEN \/ \E exc \in Outcomes(t), read \in Reads(t) : OutKnown(t, Handled(exc, read))
          \/ Out(t, th[t].at - 1, Django(500))
     ELSE Out(t, th[t].at - 1, Django(404))
  /\ UNCHANGED <<local, status, sent, answers, changes>>

-----------------------------------------------------------------------------
(* The way out: what a middleware does after get_response.                 *)
(* Mutants: the tenant is kept; it falls back to that of localhost.        *)
KeptTenant(m, l) ==
  CASE m = "context"     -> [l EXCEPT !.ctx = NoRequest]
    [] m = "correlation" -> [l EXCEPT !.cid = NoRequest]
    [] m = "request_id"  -> [l EXCEPT !.rid = NoRequest]
    [] OTHER             -> l
FallsBack(m, l) == [KeptTenant(m, l) EXCEPT !.tenant = "default"]
Cleared(m, l) ==
  CASE m = "tenant"      -> [l EXCEPT !.tenant = NoTenant]
    [] m = "context"     -> [l EXCEPT !.ctx = NoRequest]
    [] m = "correlation" -> [l EXCEPT !.cid = NoRequest]
    [] m = "request_id"  -> [l EXCEPT !.rid = NoRequest]
    [] OTHER             -> l

(* RequestLogging: a line for what comes back, whatever its status (but for*)
(* the probes' and static paths, none of Paths), that names the user.      *)
Logged(a) == [a EXCEPT !.marks = @ \cup {"logged"}]

(* What is set on the answer: X-Request-ID, the security headers.          *)
(* Mutant: the latter only on what a view answered.                        *)
MarkedIfServed(m, q, a) ==
  CASE m = "headers" /\ a.form = "envelope" -> [a EXCEPT !.marks = @ \cup {"security"}]
    [] m = "logging"    -> Logged(a)
    [] m = "request_id" -> [a EXCEPT !.marks = @ \cup {q}]
    [] OTHER            -> a
Marked(m, q, a) ==
  CASE m = "headers"    -> [a EXCEPT !.marks = @ \cup {"security"}]
    [] m = "logging"    -> Logged(a)
    [] m = "request_id" -> [a EXCEPT !.marks = @ \cup {q}]
    [] OTHER            -> a

(* A user nobody has needed yet is read only now, and the database may fail*)
(* under the logger: the answer it was to log is lost with its line.       *)
LogFails(t) ==
  /\ th[t].way = "out" /\ th[t].at = Position("logging") /\ ~th[t].known
  /\ Out(t, th[t].at - 1, Django(500))
  /\ UNCHANGED <<local, status, sent, answers, changes>>

PassOut(t) ==
  LET m == MIDDLEWARE[th[t].at]
      a == Marked(m, th[t].q, th[t].answer)
  IN
  /\ th[t].way = "out"
  /\ local' = [local EXCEPT ![t] = Cleared(m, @)]
  /\ IF th[t].at = 1
     THEN th' = [th EXCEPT ![t] = Idle] /\ answers' = [answers EXCEPT ![th[t].q] = a]
     ELSE th' = [th EXCEPT ![t].at = @ - 1, ![t].answer = a] /\ UNCHANGED answers
  /\ UNCHANGED <<status, sent, changes>>

(* TenantLifecycleService, from elsewhere: suspend, freeze and archive     *)
(* whatever the status, activate unless ACTIVE, restore if ARCHIVED.       *)
SetStatus(x, s) ==
  /\ <<x, s>> \in Switches /\ s # status[x] /\ changes < MaxChanges
  /\ changes' = changes + 1
  /\ status' = [status EXCEPT ![x] = s]
  /\ th' = [t \in Threads |->
       [th[t] EXCEPT !.barred = @ /\ ~(x \in HostTenant(th[t].host)
                                      /\ s \notin {"SUSPENDED", "ARCHIVED"})]]
  /\ UNCHANGED <<local, sent, answers>>

-----------------------------------------------------------------------------
Middleware(t) == \/ RequestID(t) \/ CorrelationID(t) \/ RequestContext(t) \/ PassIn(t)
                 \/ Hardening(t) \/ TenantIn(t) \/ Rbac(t) \/ Serve(t) \/ PassOut(t)
                 \/ LogFails(t)

Next ==
  \/ \E t \in Threads : (\E q \in Requests : Accept(t, q)) \/ Middleware(t)
  \/ \E x \in Tenants, s \in Statuses : SetStatus(x, s)

(* A thread goes on with its request.                                      *)
Fairness == \A t \in Threads : WF_vars(Middleware(t))

Spec == Init /\ [][Next]_vars /\ Fairness
-----------------------------------------------------------------------------
(* Every variable has its type.                                            *)
TypeOK ==
  /\ th \in [Threads -> Thread]
  /\ local \in [Threads -> Local]
  /\ status \in [Tenants -> Statuses]
  /\ sent \subseteq Requests
  /\ answers \in [Requests -> Answer]
  /\ changes \in 0..MaxChanges

(* Whatever way a request left by - refused early, answered, an exception -*)
(* nothing of it is there for the thread's next one: an idle thread has no *)
(* identifiers and no tenant, a busy one none but its own request's.       *)
LocalsAreOwn ==
  \A t \in Threads :
    /\ th[t] = Idle => local[t] = Empty
    /\ {local[t].rid, local[t].cid, local[t].ctx} \subseteq {th[t].q, NoRequest}
    /\ local[t].tenant \in {th[t].tenant, NoTenant}

(* A request to the host of a tenant that was suspended or archived all    *)
(* along, whatever other threads and administrators do meanwhile, is never *)
(* served: no view reads or writes anything for it, an all-tenant one of   *)
(* the platform's administrators included.                                 *)
BarredIsNotServed ==
  \A t \in Threads : th[t].barred => th[t].answer.read = {} /\ ~th[t].answer.kept

(* Who gets a 500, whichever middleware, view or handler made it, can send *)
(* the request again: nothing the view wrote has stayed.  And what stays   *)
(* has its line in the log: no error after the commit loses it.            *)
FailuresUndone ==
  \A q \in Requests :
    answers[q].kept => answers[q].status # 500 /\ "logged" \in answers[q].marks

(* Every request is answered, in the end, with its own X-Request-ID and    *)
(* the security headers on the answer and no other's, refusals and failures*)
(* included.                                                               *)
AnsweredAndMarked ==
  <>[](\A q \in sent : answers[q].marks \in {{q, "security"}, {q, "security", "logged"}})
=============================================================================
