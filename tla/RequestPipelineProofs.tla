------------------------- MODULE RequestPipelineProofs -------------------------
(***************************************************************************)
(* Theorems about RequestPipeline, for any threads, requests, tenants,     *)
(* hosts and users: a thread keeps nothing of a request, one whose tenant  *)
(* is barred is not served, and whatever a view's writes end in, a 500 is  *)
(* undone and what stays is logged.                                        *)
(***************************************************************************)
EXTENDS RequestPipeline, Integers, TLAPS

(* A request in T is inside the middleware at position i.                  *)
Inside(T, i) == IF T.way = "in" THEN i < T.at ELSE i <= T.at

(* Of a thread's locals: what is set was set by a middleware the request is*)
(* inside, from the request.                                               *)
LocalsFit(T, L) ==
  /\ T.q = NoRequest => T = Idle /\ L = Empty
  /\ {L.rid, L.cid, L.ctx} \subseteq {T.q, NoRequest}
  /\ L.tenant \in {T.tenant, NoTenant}
  /\ ~Inside(T, 1) => L.rid = NoRequest
  /\ ~Inside(T, 2) => L.cid = NoRequest
  /\ ~Inside(T, 3) => L.ctx = NoRequest
  /\ ~Inside(T, 8) => L.tenant = NoTenant

(* On the way in nothing is answered, and the local tenant is the one the  *)
(* request resolved; nobody barred is past TenantMiddleware.               *)
EntryFits(T, L) ==
  /\ T.way = "in" => /\ T.answer = NoAnswer /\ L.tenant = T.tenant
                     /\ T.at <= 8 => T.tenant = NoTenant
  /\ T.barred => /\ \E x \in HostTenant(T.host) : Refused(x)
                 /\ T.way = "in" => T.at <= 8

(* What is on its way out has been marked and logged by what it has passed;*)
(* writes are only there once the user is known, so that logging them      *)
(* cannot fail.                                                            *)
AnswerFits(T) ==
  /\ T.way = "out" =>
       /\ T.at \in 1..9 /\ T.q # NoRequest
       /\ T.answer.marks \subseteq {"security", "logged"}
       /\ T.at < 4 => "security" \in T.answer.marks
  /\ T.answer.kept => /\ T.known /\ T.answer.status # 500
                      /\ T.at < 6 => "logged" \in T.answer.marks
  /\ T.barred => T.answer.read = {} /\ ~T.answer.kept

Fits(T, L)  == LocalsFit(T, L) /\ EntryFits(T, L) /\ AnswerFits(T)
ThreadsFit  == \A t \in Threads : Fits(th[t], local[t])

(* The safe half of AnsweredAndMarked: no answer is ever given without its *)
(* own X-Request-ID and the security headers, or with another's.           *)
OnlyMarkedAnswers ==
  \A q \in Requests : answers[q] # NoAnswer =>
    answers[q].marks \in {{q, "security"}, {q, "security", "logged"}}

PInv == TypeOK /\ ThreadsFit /\ FailuresUndone /\ OnlyMarkedAnswers

-----------------------------------------------------------------------------
LEMMA MiddlewareOrder ==
  /\ View = 10 /\ DOMAIN MIDDLEWARE = 1..9
  /\ MIDDLEWARE[1] = "request_id" /\ MIDDLEWARE[2] = "correlation"
  /\ MIDDLEWARE[3] = "context"    /\ MIDDLEWARE[4] = "headers"
  /\ MIDDLEWARE[5] = "hardening"  /\ MIDDLEWARE[6] = "logging"
  /\ MIDDLEWARE[7] = "django"     /\ MIDDLEWARE[8] = "tenant"
  /\ MIDDLEWARE[9] = "rbac"
BY DEF View, MIDDLEWARE

LEMMA PositionIs ==
  ASSUME NEW i \in 1..9
  PROVE  Position(MIDDLEWARE[i]) = i
<1>1. \A j \in 1..9 : MIDDLEWARE[j] = MIDDLEWARE[i] => j = i
  BY DEF MIDDLEWARE
<1> HIDE DEF MIDDLEWARE
<1> QED BY <1>1, MiddlewareOrder DEF Position

LEMMA Positions ==
  /\ Position("request_id") = 1 /\ Position("correlation") = 2
  /\ Position("context") = 3    /\ Position("headers") = 4
  /\ Position("hardening") = 5  /\ Position("logging") = 6
  /\ Position("django") = 7     /\ Position("tenant") = 8
  /\ Position("rbac") = 9
BY MiddlewareOrder, PositionIs

(* tenant_code and company_domain are unique: a host is one tenant's.      *)
LEMMA OneHostTenant ==
  ASSUME NEW host, NEW x \in HostTenant(host), NEW y \in HostTenant(host)
  PROVE  x = y /\ x \in Tenants /\ x # NoTenant
BY PipelineAssumption DEF HostTenant, NoTenant

LEMMA Places == 0..View = 0..10
BY MiddlewareOrder

LEMMA ThreadFields ==
  ASSUME NEW T \in Thread
  PROVE  /\ T.q \in Requests \cup {NoRequest} /\ T.at \in 0..10
         /\ T.way \in {"in", "out"} /\ T.tenant \in Tenants \cup {NoTenant}
         /\ T.known \in BOOLEAN /\ T.barred \in BOOLEAN /\ T.answer \in Answer
BY MiddlewareOrder DEF Thread

LEMMA IdleFits ==
  /\ Idle \in Thread /\ Empty \in Local /\ Fits(Idle, Empty)
  /\ Idle.q = NoRequest /\ NoAnswer \in Answer
<1>1. NoAnswer \in Answer BY DEF NoAnswer, Answer
<1>2. Empty \in Local BY DEF Empty, Local
<1>3. Idle \in Thread
  <2>1. 0 \in 0..View BY MiddlewareOrder
  <2> QED BY <1>1, <2>1 DEF Idle, Thread
<1>4. NoAnswer.read = {} /\ NoAnswer.kept = FALSE BY DEF NoAnswer
<1>5. LocalsFit(Idle, Empty) BY DEF LocalsFit, Idle, Empty
<1>6. EntryFits(Idle, Empty) BY DEF EntryFits, Idle, Empty
<1>7. AnswerFits(Idle) BY <1>4 DEF AnswerFits, Idle
<1> QED BY <1>1, <1>2, <1>3, <1>5, <1>6, <1>7 DEF Fits, Idle

LEMMA StateOf ==
  ASSUME PInv, NEW t \in Threads
  PROVE  /\ th[t] \in Thread /\ local[t] \in Local /\ Fits(th[t], local[t])
         /\ th \in [Threads -> Thread] /\ local \in [Threads -> Local]
BY DEF PInv, TypeOK, ThreadsFit

-----------------------------------------------------------------------------
(* One thread moves on; no answer is given.                                *)
LEMMA ThreadStep ==
  ASSUME PInv, NEW t \in Threads, NEW T \in Thread, NEW L \in Local, Fits(T, L),
         th' = [th EXCEPT ![t] = T], local' = [local EXCEPT ![t] = L],
         UNCHANGED <<status, changes>>, sent' \subseteq Requests,
         answers' \in [Requests -> Answer], FailuresUndone', OnlyMarkedAnswers'
  PROVE  PInv'
<1>1. th \in [Threads -> Thread] /\ local \in [Threads -> Local] BY StateOf
<1>2. TypeOK' BY <1>1 DEF PInv, TypeOK
<1>3. Fits(T, L)' BY DEF Fits, LocalsFit, EntryFits, AnswerFits, Refused, Inside
<1>4. ASSUME NEW u \in Threads PROVE Fits(th[u], local[u])'
  <2>1. CASE u = t
    <3>1. th'[u] = T /\ local'[u] = L BY <1>1, <2>1
    <3> QED BY <1>3, <3>1 DEF Fits, LocalsFit, EntryFits, AnswerFits, Refused, Inside
  <2>2. CASE u # t
    <3>1. th'[u] = th[u] /\ local'[u] = local[u] BY <1>1, <2>2
    <3>2. Fits(th[u], local[u]) BY StateOf
    <3> QED BY <3>1, <3>2 DEF Fits, LocalsFit, EntryFits, AnswerFits, Refused, Inside
  <2> QED BY <2>1, <2>2
<1> QED BY <1>2, <1>4 DEF PInv, ThreadsFit

(* The same, when no answer is given.                                      *)
LEMMA QuietStep ==
  ASSUME PInv, NEW t \in Threads, NEW T \in Thread, NEW L \in Local, Fits(T, L),
         th' = [th EXCEPT ![t] = T], local' = [local EXCEPT ![t] = L],
         UNCHANGED <<status, changes, answers>>, sent' \subseteq Requests
  PROVE  PInv'
<1>1. answers' \in [Requests -> Answer] BY DEF PInv, TypeOK
<1>2. FailuresUndone' BY DEF PInv, FailuresUndone
<1>3. OnlyMarkedAnswers' BY DEF PInv, OnlyMarkedAnswers
<1> QED BY <1>1, <1>2, <1>3, ThreadStep

-----------------------------------------------------------------------------
(* Where a handler runs, its request is there and on the way in.           *)
LEMMA AtIs ==
  ASSUME PInv, NEW t \in Threads, NEW m, At(t, m)
  PROVE  /\ th[t].way = "in" /\ th[t].q # NoRequest /\ th[t].q \in Requests
         /\ m = "view" => th[t].at = 10
         /\ m = "request_id"  => th[t].at = 1
         /\ m = "correlation" => th[t].at = 2
         /\ m = "context"     => th[t].at = 3
         /\ m = "headers"     => th[t].at = 4
         /\ m = "hardening"   => th[t].at = 5
         /\ m = "logging"     => th[t].at = 6
         /\ m = "django"      => th[t].at = 7
         /\ m = "tenant"      => th[t].at = 8
         /\ m = "rbac"        => th[t].at = 9
<1>1. th[t].q \in Requests \cup {NoRequest} BY StateOf, ThreadFields
<1>2. th[t].at = IF m = "view" THEN 10 ELSE Position(m) BY MiddlewareOrder DEF At
<1> QED BY <1>1, <1>2, Positions DEF At

(* A request goes one middleware further in; what that middleware sets is  *)
(* the request's.                                                          *)
LEMMA Inwards ==
  ASSUME PInv, NEW t \in Threads, th[t].way = "in", th[t].q # NoRequest,
         th[t].at \in {1, 2, 3, 4, 5, 6, 7, 9}, NEW L \in Local,
         \/ In(t)
         \/ th' = [th EXCEPT ![t].at = @ + 1, ![t].known = TRUE],
         local' = [local EXCEPT ![t] = L],
         UNCHANGED <<status, sent, answers, changes>>,
         L.rid \in {th[t].q, NoRequest}, th[t].at < 1 => L.rid = NoRequest,
         L.cid \in {th[t].q, NoRequest}, th[t].at < 2 => L.cid = NoRequest,
         L.ctx \in {th[t].q, NoRequest}, th[t].at < 3 => L.ctx = NoRequest,
         L.tenant = local[t].tenant
  PROVE  PInv'
<1>1. th[t] \in Thread /\ Fits(th[t], local[t]) /\ th \in [Threads -> Thread] BY StateOf
<1>2. PICK T \in Thread :
        /\ th' = [th EXCEPT ![t] = T]
        /\ T.at = th[t].at + 1 /\ T.q = th[t].q /\ T.way = th[t].way
        /\ T.tenant = th[t].tenant /\ T.answer = th[t].answer
        /\ T.barred = th[t].barred /\ T.host = th[t].host
  <2>1. th[t].at + 1 \in 0..View BY Places
  <2>2. CASE In(t)
    <3> DEFINE T == [th[t] EXCEPT !.at = @ + 1]
    <3>1. T \in Thread BY <1>1, <2>1 DEF Thread
    <3>2. /\ T.at = th[t].at + 1 /\ T.q = th[t].q /\ T.way = th[t].way
          /\ T.tenant = th[t].tenant /\ T.answer = th[t].answer
          /\ T.barred = th[t].barred /\ T.host = th[t].host
      BY <1>1 DEF Thread
    <3>3. th' = [th EXCEPT ![t] = T] BY <1>1, <2>2 DEF In
    <3> QED BY <3>1, <3>2, <3>3
  <2>3. CASE th' = [th EXCEPT ![t].at = @ + 1, ![t].known = TRUE]
    <3> DEFINE T == [th[t] EXCEPT !.at = @ + 1, !.known = TRUE]
    <3>1. T \in Thread
      <4>1. \A k \in BOOLEAN : [th[t] EXCEPT !.at = @ + 1, !.known = k] \in Thread
        BY <1>1, <2>1 DEF Thread
      <4> QED BY <4>1
    <3>2. /\ T.at = th[t].at + 1 /\ T.q = th[t].q /\ T.way = th[t].way
          /\ T.tenant = th[t].tenant /\ T.answer = th[t].answer
          /\ T.barred = th[t].barred /\ T.host = th[t].host
      BY <1>1 DEF Thread
    <3>3. th' = [th EXCEPT ![t] = T] BY <1>1, <2>3
    <3> QED BY <3>1, <3>2, <3>3
  <2> QED BY <2>2, <2>3
<1>3. LocalsFit(T, L) BY <1>1, <1>2 DEF Fits, LocalsFit, EntryFits, Inside
<1>4. EntryFits(T, L) BY <1>1, <1>2 DEF Fits, EntryFits
<1>5. AnswerFits(T)
  <2>1. th[t].answer = NoAnswer BY <1>1 DEF Fits, EntryFits
  <2> QED BY <1>2, <2>1 DEF AnswerFits, NoAnswer
<1>6. sent' \subseteq Requests BY DEF PInv, TypeOK
<1> QED BY <1>2, <1>3, <1>4, <1>5, <1>6, QuietStep DEF Fits

(* A request is answered where it is, or by the middleware outside it.     *)
LEMMA AnswerStep ==
  ASSUME PInv, NEW t \in Threads, th[t].way = "in", th[t].q # NoRequest,
         NEW T \in Thread, NEW L \in Local,
         th' = [th EXCEPT ![t] = T], local' = [local EXCEPT ![t] = L],
         UNCHANGED <<status, sent, answers, changes>>,
         T.at \in 4..9, T.at = th[t].at \/ T.at = th[t].at - 1,
         T.at = th[t].at => T.at = 8,
         T.q = th[t].q, T.way = "out", T.tenant = th[t].tenant, T.host = th[t].host,
         T.barred = th[t].barred, AnswerFits(T),
         L.rid = local[t].rid, L.cid = local[t].cid, L.ctx = local[t].ctx,
         L.tenant \in {local[t].tenant, NoTenant}
  PROVE  PInv'
<1>1. th[t] \in Thread /\ Fits(th[t], local[t]) BY StateOf
<1>2. LocalsFit(T, L)
  <2>1. th[t].at \in {T.at, T.at + 1} /\ th[t].at \in Nat BY <1>1, ThreadFields
  <2>2. LocalsFit(th[t], local[t]) BY <1>1 DEF Fits
  <2>3. \A i \in 1..9 : ~Inside(T, i) => ~Inside(th[t], i) BY <2>1 DEF Inside
  <2>4. L.tenant \in {T.tenant, NoTenant} BY <2>2 DEF LocalsFit
  <2> QED BY <2>2, <2>3, <2>4 DEF LocalsFit
<1>3. EntryFits(T, L) BY <1>1 DEF Fits, EntryFits
<1>4. sent' \subseteq Requests BY DEF PInv, TypeOK
<1> QED BY <1>2, <1>3, <1>4, QuietStep DEF Fits

LEMMA AnsweredThread ==
  ASSUME NEW T \in Thread, NEW at \in 0..View, NEW a \in Answer, NEW known \in BOOLEAN
  PROVE  /\ [T EXCEPT !.way = "out", !.at = at, !.answer = a] \in Thread
         /\ [T EXCEPT !.way = "out", !.at = at, !.answer = a, !.known = known] \in Thread
BY DEF Thread

(* Answered without a need for the user ...                                *)
LEMMA Outwards ==
  ASSUME PInv, NEW t \in Threads, th[t].way = "in", th[t].q # NoRequest,
         NEW at \in 4..9, at = th[t].at \/ at = th[t].at - 1, NEW a \in Answer,
         NEW L \in Local, Out(t, at, a), local' = [local EXCEPT ![t] = L],
         L.rid = local[t].rid, L.cid = local[t].cid, L.ctx = local[t].ctx,
         L.tenant \in {local[t].tenant, NoTenant},
         at = th[t].at => at = 8,
         UNCHANGED <<status, sent, answers, changes>>,
         a.marks = {}, a.read = {}, ~a.kept
  PROVE  PInv'
<1> DEFINE T == [th[t] EXCEPT !.way = "out", !.at = at, !.answer = a]
<1>1. th[t] \in Thread /\ th \in [Threads -> Thread] BY StateOf
<1>2. T \in Thread
  <2>1. at \in 0..View BY Places
  <2> QED BY <1>1, <2>1, AnsweredThread
<1>3. /\ T.at = at /\ T.q = th[t].q /\ T.way = "out" /\ T.tenant = th[t].tenant
      /\ T.answer = a /\ T.barred = th[t].barred /\ T.host = th[t].host
  BY <1>1 DEF Thread
<1>4. th' = [th EXCEPT ![t] = T] BY <1>1 DEF Out
<1> HIDE DEF T
<1>5. AnswerFits(T) BY <1>3 DEF AnswerFits
<1> QED BY <1>2, <1>3, <1>4, <1>5, AnswerStep

(* ... and after it was evaluated, by RBACMiddleware or a view.            *)
LEMMA KnownOutwards ==
  ASSUME PInv, NEW t \in Threads, th[t].way = "in", th[t].q # NoRequest,
         th[t].at \in {9, 10}, NEW a \in Answer, OutKnown(t, a),
         UNCHANGED <<local, status, sent, answers, changes>>,
         a.marks = {}, a.kept => a.status # 500
  PROVE  PInv'
<1>1. /\ th[t] \in Thread /\ local[t] \in Local /\ Fits(th[t], local[t])
      /\ th \in [Threads -> Thread] /\ local \in [Threads -> Local]
  BY StateOf
<1>2. PICK yes \in BOOLEAN : yes = TRUE OBVIOUS
<1>3. PICK at \in 0..View : at = th[t].at - 1 BY Places
<1> DEFINE T == [th[t] EXCEPT !.way = "out", !.at = at, !.answer = a, !.known = yes]
<1>4. T \in Thread
  <2>1. PICK U \in Thread : U = th[t] BY <1>1
  <2>2. [U EXCEPT !.way = "out", !.at = at, !.answer = a, !.known = yes] \in Thread
    BY ONLY <1>2, <1>3, <2>1, a \in Answer, AnsweredThread
  <2> QED BY <2>1, <2>2
<1>5. /\ T.at = th[t].at - 1 /\ T.q = th[t].q /\ T.way = "out" /\ T.tenant = th[t].tenant
      /\ T.answer = a /\ T.known = yes /\ T.barred = th[t].barred /\ T.host = th[t].host
  BY <1>1, <1>3 DEF Thread
<1>6. th' = [th EXCEPT ![t] = T] BY <1>2, <1>3 DEF OutKnown
<1>7. PICK L \in Local : L = local[t] BY <1>1
<1>8. local' = [local EXCEPT ![t] = L] BY <1>1, <1>7
<1> HIDE DEF T
<1>9. AnswerFits(T)
  <2>1. ~th[t].barred BY <1>1 DEF Fits, EntryFits
  <2>2. T.known BY <1>2, <1>5
  <2> QED BY <1>5, <2>1, <2>2 DEF AnswerFits
<1>10. T.at \in 4..9 /\ (T.at = th[t].at => T.at = 8) BY <1>5
<1>11. /\ L.rid = local[t].rid /\ L.cid = local[t].cid /\ L.ctx = local[t].ctx
       /\ L.tenant \in {local[t].tenant, NoTenant}
  BY <1>7
<1>12. UNCHANGED <<status, sent, answers, changes>> OBVIOUS
<1>13. /\ T.q = th[t].q /\ T.way = "out" /\ T.tenant = th[t].tenant
       /\ T.host = th[t].host /\ T.barred = th[t].barred
       /\ T.at = th[t].at \/ T.at = th[t].at - 1
  BY <1>5
<1>14. PInv /\ t \in Threads /\ th[t].way = "in" /\ th[t].q # NoRequest
  OBVIOUS
<1> QED BY ONLY <1>4, <1>6, <1>7, <1>8, <1>9, <1>10, <1>11, <1>12, <1>13, <1>14, AnswerStep

LEMMA Refusals ==
  /\ \A s \in {400, 403, 413} : /\ Plain(s) \in Answer /\ Plain(s).marks = {}
                                /\ Plain(s).status = s /\ Plain(s).read = {}
                                /\ Plain(s).kept = FALSE
  /\ \A s \in {400, 404, 500} : /\ Django(s) \in Answer /\ Django(s).marks = {}
                                /\ Django(s).status = s /\ Django(s).read = {}
                                /\ Django(s).kept = FALSE
  /\ \A s \in {200, 400, 403, 422, 500}, c \in BOOLEAN, read \in SUBSET Tenants :
       /\ Enveloped(s, c, read) \in Answer /\ Enveloped(s, c, read).marks = {}
       /\ Enveloped(s, c, read).status = s /\ Enveloped(s, c, read).kept = c
       /\ Enveloped(s, c, read).read = read
<1> DEFINE S == {0, 200, 400, 403, 404, 413, 422, 500}
           F == {"none", "envelope", "django", "plain"}
           R == SUBSET Tenants
           M == SUBSET (Requests \cup {"security", "logged"})
<1>1. NoAnswer \in Answer BY IdleFits
<1>2. Answer = [status : S, form : F, read : R, kept : BOOLEAN, marks : M]
  BY DEF Answer
<1>3. \A s \in {200, 400, 403, 404, 413, 422, 500} : s \in S
  OBVIOUS
<1>4. {"envelope", "django", "plain"} \subseteq F /\ \A read \in SUBSET Tenants : read \in R
  OBVIOUS
<1> HIDE DEF S, F, R, M
<1>5. ASSUME NEW s \in {400, 403, 413} PROVE Plain(s) \in Answer
  <2>1. s \in S /\ "plain" \in F BY <1>3, <1>4
  <2> QED BY <1>1, <1>2, <2>1 DEF Plain
<1>6. ASSUME NEW s \in {400, 404, 500} PROVE Django(s) \in Answer
  <2>1. s \in S /\ "django" \in F BY <1>3, <1>4
  <2> QED BY <1>1, <1>2, <2>1 DEF Django
<1>7. ASSUME NEW s \in {200, 400, 403, 422, 500}, NEW c \in BOOLEAN,
             NEW read \in SUBSET Tenants
      PROVE  Enveloped(s, c, read) \in Answer
  <2>1. s \in S /\ "envelope" \in F /\ read \in R BY <1>3, <1>4
  <2> QED BY <1>1, <1>2, <2>1 DEF Enveloped
<1>8. /\ \A s : /\ Plain(s).marks = {} /\ Plain(s).status = s /\ Plain(s).read = {}
               /\ Django(s).marks = {} /\ Django(s).status = s /\ Django(s).read = {}
               /\ Django(s).kept = FALSE /\ Plain(s).kept = FALSE
      /\ \A s, c, read : /\ Enveloped(s, c, read).marks = {}
                         /\ Enveloped(s, c, read).status = s
                         /\ Enveloped(s, c, read).kept = c
                         /\ Enveloped(s, c, read).read = read
  BY DEF Plain, Django, Enveloped, NoAnswer
<1> QED BY <1>5, <1>6, <1>7, <1>8

-----------------------------------------------------------------------------
LEMMA AcceptKeeps ==
  ASSUME PInv, NEW t \in Threads, NEW q \in Requests, Accept(t, q)
  PROVE  PInv'
<1>1. PICK in \in Incoming :
        th' = [th EXCEPT ![t] = [Idle EXCEPT
                !.q = q, !.at = 1, !.host = in[1], !.path = in[2], !.user = in[3],
                !.barred = \E x \in HostTenant(in[1]) : Refused(x)]]
  BY DEF Accept
<1> DEFINE T == [Idle EXCEPT
                !.q = q, !.at = 1, !.host = in[1], !.path = in[2], !.user = in[3],
                !.barred = \E x \in HostTenant(in[1]) : Refused(x)]
<1>2. in[1] \in Hosts /\ in[2] \in Paths /\ in[3] \in Users
  BY PipelineAssumption DEF Paths
<1>3. (\E x \in HostTenant(in[1]) : Refused(x)) \in BOOLEAN OBVIOUS
<1>4. T \in Thread
  <2>1. 1 \in 0..View BY Places
  <2> QED BY <1>2, <1>3, <2>1, IdleFits DEF Thread, Idle
<1>5. /\ T.q = q /\ T.at = 1 /\ T.host = in[1] /\ T.way = "in" /\ T.tenant = NoTenant
      /\ T.answer = NoAnswer
      /\ T.barred = \E x \in HostTenant(T.host) : Refused(x)
  BY DEF Idle
<1>6. NoAnswer.read = {} /\ NoAnswer.kept = FALSE /\ q # NoRequest
  BY PipelineAssumption DEF NoAnswer, NoRequest
<1> HIDE DEF T
<1>7. /\ th[t] = Idle /\ UNCHANGED <<local, status, answers, changes>>
      /\ sent' \subseteq Requests /\ Fits(th[t], local[t])
      /\ local \in [Threads -> Local]
  BY StateOf DEF Accept, PInv, TypeOK
<1>8. local[t] = Empty BY <1>7, IdleFits DEF Fits, LocalsFit
<1>9. local' = [local EXCEPT ![t] = Empty] BY <1>7, <1>8
<1>10. LocalsFit(T, Empty) BY <1>5, <1>6 DEF LocalsFit, Empty
<1>11. EntryFits(T, Empty) BY <1>5 DEF EntryFits, Empty
<1>12. AnswerFits(T) BY <1>5, <1>6 DEF AnswerFits
<1>13. Fits(T, Empty) BY <1>10, <1>11, <1>12 DEF Fits
<1>14. th' = [th EXCEPT ![t] = T] BY <1>1 DEF T
<1> QED BY <1>4, <1>7, <1>9, <1>13, <1>14, IdleFits, QuietStep

(* The three that set an identifier.                                       *)
LEMMA IdentifierKeeps ==
  ASSUME PInv, NEW t \in Threads,
         RequestID(t) \/ CorrelationID(t) \/ RequestContext(t)
  PROVE  PInv'
<1>1. /\ local[t] \in Local /\ Fits(th[t], local[t]) /\ local \in [Threads -> Local]
      /\ local = [local EXCEPT ![t] = local[t]]
  BY StateOf
<1>2. /\ In(t) /\ UNCHANGED <<status, sent, answers, changes>>
      /\ th[t].way = "in" /\ th[t].q # NoRequest /\ th[t].q \in Requests
  BY AtIs DEF RequestID, CorrelationID, RequestContext
<1>0. LocalsFit(th[t], local[t]) BY <1>1 DEF Fits
<1>3. CASE RequestID(t)
  <2>1. th[t].at = 1 BY <1>3, AtIs DEF RequestID
  <2>2. PICK L \in Local : L = [local[t] EXCEPT !.rid = th[t].q] BY <1>1, <1>2 DEF Local
  <2>3. /\ L.rid = th[t].q /\ L.cid = local[t].cid /\ L.ctx = local[t].ctx
        /\ L.tenant = local[t].tenant
    BY <1>1, <2>2 DEF Local
  <2>4. local' = [local EXCEPT ![t] = L] BY <1>1, <1>3, <2>2 DEF RequestID
  <2>5. /\ L.rid \in {th[t].q, NoRequest} /\ (th[t].at < 1 => L.rid = NoRequest)
        /\ L.cid \in {th[t].q, NoRequest} /\ (th[t].at < 2 => L.cid = NoRequest)
        /\ L.ctx \in {th[t].q, NoRequest} /\ (th[t].at < 3 => L.ctx = NoRequest)
    BY <1>0, <1>2, <2>1, <2>3 DEF LocalsFit, Inside
  <2> QED BY <1>2, <2>1, <2>3, <2>4, <2>5, Inwards
<1>4. CASE CorrelationID(t)
  <2>1. th[t].at = 2 BY <1>4, AtIs DEF CorrelationID
  <2>2. PICK L \in Local :
          L = IF CorrelationId THEN [local[t] EXCEPT !.cid = th[t].q] ELSE local[t]
    BY <1>1, <1>2 DEF Local
  <2>3. /\ L.cid \in {th[t].q, local[t].cid} /\ L.rid = local[t].rid
        /\ L.ctx = local[t].ctx /\ L.tenant = local[t].tenant
    BY <1>1, <2>2 DEF Local
  <2>4. local' = [local EXCEPT ![t] = L]
    BY <1>1, <1>4, <2>2, PipelineAssumption DEF CorrelationID
  <2>5. /\ L.rid \in {th[t].q, NoRequest} /\ (th[t].at < 1 => L.rid = NoRequest)
        /\ L.cid \in {th[t].q, NoRequest} /\ (th[t].at < 2 => L.cid = NoRequest)
        /\ L.ctx \in {th[t].q, NoRequest} /\ (th[t].at < 3 => L.ctx = NoRequest)
    BY <1>0, <1>2, <2>1, <2>3 DEF LocalsFit, Inside
  <2> QED BY <1>2, <2>1, <2>3, <2>4, <2>5, Inwards
<1>5. CASE RequestContext(t)
  <2>1. th[t].at = 3 BY <1>5, AtIs DEF RequestContext
  <2>2. PICK L \in Local : L = [local[t] EXCEPT !.ctx = local[t].rid] BY <1>1 DEF Local
  <2>3. /\ L.ctx = local[t].rid /\ L.cid = local[t].cid /\ L.rid = local[t].rid
        /\ L.tenant = local[t].tenant
    BY <1>1, <2>2 DEF Local
  <2>4. local' = [local EXCEPT ![t] = L] BY <1>1, <1>5, <2>2 DEF RequestContext
  <2>5. /\ L.rid \in {th[t].q, NoRequest} /\ (th[t].at < 1 => L.rid = NoRequest)
        /\ L.cid \in {th[t].q, NoRequest} /\ (th[t].at < 2 => L.cid = NoRequest)
        /\ L.ctx \in {th[t].q, NoRequest} /\ (th[t].at < 3 => L.ctx = NoRequest)
    BY <1>0, <1>2, <2>1, <2>3 DEF LocalsFit, Inside
  <2> QED BY <1>2, <2>1, <2>3, <2>4, <2>5, Inwards
<1> QED BY <1>3, <1>4, <1>5

(* The ones that let a request through or answer it.                       *)
LEMMA GatesKeep ==
  ASSUME PInv, NEW t \in Threads, PassIn(t) \/ Hardening(t) \/ Rbac(t)
  PROVE  PInv'
<1>1. /\ local[t] \in Local /\ Fits(th[t], local[t]) /\ local \in [Threads -> Local]
      /\ local = [local EXCEPT ![t] = local[t]]
  BY StateOf
<1>2. /\ local' = [local EXCEPT ![t] = local[t]] /\ UNCHANGED <<status, sent, answers, changes>>
      /\ th[t].way = "in" /\ th[t].q # NoRequest
      /\ th[t].at \in {4, 5, 6, 7, 9}
  BY <1>1, AtIs DEF PassIn, Hardening, Rbac
<1>3. ASSUME \/ In(t)
             \/ th' = [th EXCEPT ![t].at = @ + 1, ![t].known = TRUE]
      PROVE  PInv'
  <2>1. LocalsFit(th[t], local[t]) BY <1>1 DEF Fits
  <2>2. /\ local[t].rid \in {th[t].q, NoRequest} /\ ~(th[t].at < 1)
        /\ local[t].cid \in {th[t].q, NoRequest} /\ ~(th[t].at < 2)
        /\ local[t].ctx \in {th[t].q, NoRequest} /\ ~(th[t].at < 3)
    BY <1>2, <2>1 DEF LocalsFit
  <2> QED BY <1>1, <1>2, <1>3, <2>2, Inwards
<1>4. ASSUME NEW a \in Answer, Out(t, th[t].at - 1, a), th[t].at \in {5, 7, 9},
             a.marks = {}, ~a.kept, a.read = {}
      PROVE  PInv'
  <2> DEFINE at == th[t].at - 1
             L  == local[t]
  <2>1. /\ at \in 4..9 /\ (at = th[t].at \/ at = th[t].at - 1)
        /\ (at = th[t].at => at = 8) /\ Out(t, at, a)
    BY <1>4
  <2>2. /\ L.rid = local[t].rid /\ L.cid = local[t].cid /\ L.ctx = local[t].ctx
        /\ L.tenant \in {local[t].tenant, NoTenant} /\ L \in Local
        /\ local' = [local EXCEPT ![t] = L]
    BY <1>1, <1>2
  <2>3. a.marks = {} /\ ~a.kept /\ a.read = {} BY <1>4
  <2>4. /\ th[t].way = "in" /\ th[t].q # NoRequest
        /\ UNCHANGED <<status, sent, answers, changes>>
    BY <1>2
  <2> HIDE DEF at, L
  <2> QED BY <2>1, <2>2, <2>3, <2>4, Outwards
<1>5. CASE PassIn(t)
  <2>1. ASSUME At(t, "django"), Out(t, th[t].at - 1, Django(500)) PROVE PInv'
    <3>1. th[t].at = 7 BY <2>1, AtIs
    <3> QED BY <1>4, <2>1, <3>1, Refusals
  <2> QED BY <1>3, <1>5, <2>1 DEF PassIn
<1>6. CASE Hardening(t)
  <2>1. th[t].at = 5 BY <1>6, AtIs DEF Hardening
  <2>2. ASSUME NEW a \in {Plain(413), Plain(400), Django(400)}, Out(t, th[t].at - 1, a)
        PROVE  PInv'
    BY <1>4, <2>1, <2>2, Refusals
  <2> QED BY <1>3, <1>6, <2>2 DEF Hardening
<1>7. CASE Rbac(t)
  <2>1. th[t].at = 9 BY <1>7, AtIs DEF Rbac
  <2>2. CASE Out(t, th[t].at - 1, Plain(403)) BY <1>4, <2>1, <2>2, Refusals
  <2>3. CASE OutKnown(t, Plain(403))
    <3>1. UNCHANGED local BY <1>7 DEF Rbac
    <3> QED BY <1>2, <2>1, <2>3, <3>1, Refusals, KnownOutwards
  <2>4. CASE Out(t, th[t].at - 1, Django(500)) BY <1>4, <2>1, <2>4, Refusals
  <2> QED BY <1>3, <1>7, <2>2, <2>3, <2>4 DEF Rbac
<1> QED BY <1>5, <1>6, <1>7

LEMMA TenantInKeeps ==
  ASSUME PInv, NEW t \in Threads, TenantIn(t)
  PROVE  PInv'
<1>1. /\ th[t] \in Thread /\ local[t] \in Local /\ Fits(th[t], local[t])
      /\ th \in [Threads -> Thread] /\ local \in [Threads -> Local]
  BY StateOf
<1>2. /\ UNCHANGED <<status, sent, answers, changes>> /\ sent' \subseteq Requests
      /\ th[t].way = "in" /\ th[t].q # NoRequest /\ th[t].at = 8
  BY AtIs DEF TenantIn, PInv, TypeOK
<1>3. /\ th[t].tenant = NoTenant /\ local[t].tenant = NoTenant /\ th[t].answer = NoAnswer
      /\ NoAnswer.read = {} /\ NoAnswer.kept = FALSE
      /\ th[t].barred => \E x \in HostTenant(th[t].host) : Refused(x)
  BY <1>1, <1>2 DEF Fits, EntryFits, NoAnswer
<1>4. PICK L \in Local :
        /\ L = [local[t] EXCEPT !.tenant = NoTenant] /\ L.tenant = NoTenant
        /\ L.rid = local[t].rid /\ L.cid = local[t].cid /\ L.ctx = local[t].ctx
  <2> DEFINE L == [local[t] EXCEPT !.tenant = NoTenant]
  <2>1. L \in Local BY <1>1 DEF Local
  <2>2. /\ L.rid = local[t].rid /\ L.cid = local[t].cid /\ L.ctx = local[t].ctx
        /\ L.tenant = NoTenant
    BY <1>1 DEF Local
  <2> QED BY <2>1, <2>2
<1>5. ASSUME NEW x \in HostTenant(th[t].host), ~TurnedAway(x),
             local' = [local EXCEPT ![t].tenant = x],
             th' = [th EXCEPT ![t].at = @ + 1, ![t].tenant = x]
      PROVE  PInv'
  <2> DEFINE T == [th[t] EXCEPT !.at = @ + 1, !.tenant = x]
             K == [local[t] EXCEPT !.tenant = x]
  <2>1. x \in Tenants BY OneHostTenant
  <2>2. T \in Thread /\ K \in Local
    <3>1. th[t].at + 1 \in 0..View BY <1>2, Places
    <3>2. T \in Thread BY <1>1, <2>1, <3>1 DEF Thread
    <3>3. K \in Local BY <1>1, <2>1 DEF Local
    <3> QED BY <3>2, <3>3
  <2>3. /\ T.at = 9 /\ T.q = th[t].q /\ T.way = "in" /\ T.tenant = x
        /\ T.answer = NoAnswer /\ T.barred = th[t].barred /\ T.host = th[t].host
    BY <1>1, <1>2, <1>3 DEF Thread
  <2>4. /\ K.rid = local[t].rid /\ K.cid = local[t].cid /\ K.ctx = local[t].ctx
        /\ K.tenant = x
    BY <1>1 DEF Local
  <2>5. th' = [th EXCEPT ![t] = T] /\ local' = [local EXCEPT ![t] = K] BY <1>1, <1>5
  <2>6. ~T.barred
    <3>1. \A y \in HostTenant(th[t].host) : ~Refused(y)
      BY <1>5, OneHostTenant DEF TurnedAway
    <3> QED BY <1>3, <2>3, <3>1
  <2> HIDE DEF T, K
  <2>7. LocalsFit(T, K) BY <1>1, <1>2, <2>3, <2>4 DEF Fits, LocalsFit, Inside
  <2>8. EntryFits(T, K) BY <2>3, <2>4, <2>6 DEF EntryFits
  <2>9. AnswerFits(T) BY <1>3, <2>3 DEF AnswerFits
  <2> QED BY <1>2, <2>2, <2>5, <2>7, <2>8, <2>9, QuietStep DEF Fits
<1>6. CASE local' = [local EXCEPT ![t].tenant = NoTenant]
  <2>1. local' = [local EXCEPT ![t] = L] BY <1>1, <1>4, <1>6
  <2>2. CASE Out(t, th[t].at, Plain(403))
    <3> DEFINE a == Plain(403)
               at == th[t].at
    <3>1. a \in Answer /\ a.marks = {} /\ ~a.kept /\ a.read = {} BY Refusals
    <3>2. at \in 4..9 /\ at = 8 /\ at = th[t].at /\ Out(t, at, a) BY <1>2, <2>2
    <3> HIDE DEF a, at
    <3>3. (at = th[t].at => at = 8) /\ ~a.kept /\ a.read = {}
      BY <1>2, <3>1, <3>2
    <3>4. /\ th[t].way = "in" /\ th[t].q # NoRequest
          /\ at = th[t].at \/ at = th[t].at - 1
          /\ UNCHANGED <<status, sent, answers, changes>>
      BY <1>2, <3>2
    <3>5. /\ L.rid = local[t].rid /\ L.cid = local[t].cid /\ L.ctx = local[t].ctx
          /\ L.tenant \in {local[t].tenant, NoTenant} /\ L \in Local
      BY <1>4
    <3>6. a \in Answer /\ a.marks = {} /\ at \in 4..9 /\ Out(t, at, a) /\ ~a.kept
      BY <3>1, <3>2
    <3> QED BY <2>1, <3>3, <3>4, <3>5, <3>6, Outwards
  <2>3. CASE Out(t, th[t].at - 1, Django(500))
    <3> DEFINE a == Django(500)
               at == th[t].at - 1
    <3>1. a \in Answer /\ a.marks = {} /\ ~a.kept /\ a.read = {} BY Refusals
    <3>2. at \in 4..9 /\ at = 7 /\ at = th[t].at - 1 /\ Out(t, at, a) BY <1>2, <2>3
    <3> HIDE DEF a, at
    <3>3. (at = th[t].at => at = 8) /\ ~a.kept /\ a.read = {}
      BY <1>2, <3>1, <3>2
    <3>4. /\ th[t].way = "in" /\ th[t].q # NoRequest
          /\ at = th[t].at \/ at = th[t].at - 1
          /\ UNCHANGED <<status, sent, answers, changes>>
      BY <1>2, <3>2
    <3>5. /\ L.rid = local[t].rid /\ L.cid = local[t].cid /\ L.ctx = local[t].ctx
          /\ L.tenant \in {local[t].tenant, NoTenant} /\ L \in Local
      BY <1>4
    <3>6. a \in Answer /\ a.marks = {} /\ at \in 4..9 /\ Out(t, at, a) /\ ~a.kept
      BY <3>1, <3>2
    <3> QED BY <2>1, <3>3, <3>4, <3>5, <3>6, Outwards
  <2>4. CASE In(t) /\ HostTenant(th[t].host) = {}
    <3> DEFINE T == [th[t] EXCEPT !.at = @ + 1]
    <3>0. th[t].at + 1 \in 0..View BY <1>2, Places
    <3>1. T \in Thread BY <1>1, <3>0 DEF Thread
    <3>2. /\ T.at = 9 /\ T.q = th[t].q /\ T.way = "in" /\ T.tenant = NoTenant
          /\ T.answer = NoAnswer /\ T.barred = th[t].barred /\ T.host = th[t].host
      BY <1>1, <1>2, <1>3 DEF Thread
    <3>3. /\ L.rid = local[t].rid /\ L.cid = local[t].cid /\ L.ctx = local[t].ctx
          /\ L.tenant = NoTenant
      BY <1>4
    <3>4. th' = [th EXCEPT ![t] = T] BY <1>1, <2>4 DEF In
    <3>5. ~T.barred BY <1>3, <2>4, <3>2
    <3> HIDE DEF T
    <3>6. LocalsFit(T, L) BY <1>1, <1>2, <3>2, <3>3 DEF Fits, LocalsFit, Inside
    <3>7. EntryFits(T, L) BY <3>2, <3>3, <3>5 DEF EntryFits
    <3>8. AnswerFits(T) BY <1>3, <3>2 DEF AnswerFits
    <3> QED BY <1>2, <2>1, <3>1, <3>4, <3>6, <3>7, <3>8, QuietStep DEF Fits
  <2> QED BY <1>6, <2>2, <2>3, <2>4, <1>5 DEF TenantIn
<1> QED BY <1>5, <1>6 DEF TenantIn

(* A permitted view has evaluated the user before it writes, and only an   *)
(* answer of its own keeps what it wrote.                                  *)
LEMMA HandledAnswer ==
  ASSUME NEW t \in Threads, NEW exc \in Outcomes(t), NEW read \in SUBSET Tenants
  PROVE  /\ Handled(exc, read) \in Answer /\ Handled(exc, read).marks = {}
         /\ Handled(exc, read).kept => Handled(exc, read).status # 500
<1>1. exc \in {"none", "kavan", "drf", "other", "returned", "swallowed", "denied"}
  BY DEF Outcomes
<1>2. PICK yes \in BOOLEAN, no \in BOOLEAN : yes = TRUE /\ no = FALSE OBVIOUS
<1>3. PICK a : a = Handled(exc, read) OBVIOUS
<1>4. ASSUME NEW s \in {200, 400, 403, 422, 500}, NEW c \in BOOLEAN, NEW rows \in SUBSET Tenants,
             a = Enveloped(s, c, rows), s # 500
      PROVE  a \in Answer /\ a.marks = {} /\ (a.kept => a.status # 500)
  BY <1>4, Refusals
<1>5. {} \in SUBSET Tenants OBVIOUS
<1>6. a \in Answer /\ a.marks = {} /\ (a.kept => a.status # 500)
  <2>1. CASE exc = "none"
    <3>1. a = Enveloped(200, yes, read) BY <1>2, <1>3, <2>1 DEF Handled
    <3> QED BY <1>4, <3>1
  <2>2. CASE exc = "kavan"
    <3>1. a = Enveloped(422, yes, read) BY <1>2, <1>3, <2>2 DEF Handled
    <3> QED BY <1>4, <3>1
  <2>3. CASE exc = "drf"
    <3>1. a = Enveloped(400, no, read) BY <1>2, <1>3, <2>3 DEF Handled
    <3> QED BY <1>4, <3>1
  <2>4. CASE exc = "returned"
    <3>1. Handled("returned", read) = Enveloped(500, FALSE, read) BY DEF Handled
    <3>2. a = Enveloped(500, no, read) BY <1>2, <1>3, <2>4, <3>1
    <3> QED BY <1>2, <3>2, Refusals
  <2>5. CASE exc = "swallowed"
    <3>1. a = Enveloped(200, no, {}) BY <1>2, <1>3, <2>5 DEF Handled
    <3> QED BY <1>4, <1>5, <3>1
  <2>6. CASE exc = "denied"
    <3>1. Handled("denied", read) = Enveloped(403, FALSE, {}) BY DEF Handled
    <3>2. a = Enveloped(403, no, {}) BY <1>2, <1>3, <2>6, <3>1
    <3> QED BY <1>4, <1>5, <3>2
  <2>7. CASE exc = "other"
    <3>1. a = Django(500) BY <1>3, <2>7 DEF Handled
    <3> QED BY <3>1, Refusals
  <2> QED BY <1>1, <2>1, <2>2, <2>3, <2>4, <2>5, <2>6, <2>7
<1> QED BY <1>3, <1>6

LEMMA ServeKeeps ==
  ASSUME PInv, NEW t \in Threads, Serve(t)
  PROVE  PInv'
<1>1. /\ th[t] \in Thread /\ local[t] \in Local /\ Fits(th[t], local[t])
      /\ local \in [Threads -> Local] /\ local = [local EXCEPT ![t] = local[t]]
  BY StateOf
<1>2. /\ UNCHANGED <<local, status, sent, answers, changes>>
      /\ th[t].way = "in" /\ th[t].q # NoRequest /\ th[t].at = 10
  BY AtIs DEF Serve
<1>4. ASSUME NEW a \in Answer, a \in {Django(500), Django(404)}, Out(t, th[t].at - 1, a)
      PROVE  PInv'
  <2>1. a.marks = {} /\ ~a.kept /\ a.read = {} BY <1>4, Refusals
  <2>2. /\ th[t].at - 1 \in 4..9 /\ th[t].at - 1 # th[t].at
    BY <1>2
  <2>3. local' = [local EXCEPT ![t] = local[t]] BY <1>1, <1>2
  <2> QED BY <1>1, <1>2, <1>4, <2>1, <2>2, <2>3, Outwards
<1>5. ASSUME NEW exc \in Outcomes(t), NEW read \in Reads(t), th[t].path \in Routed,
             OutKnown(t, Handled(exc, read))
      PROVE  PInv'
  <2>1. /\ Handled(exc, read) \in Answer /\ Handled(exc, read).marks = {}
        /\ Handled(exc, read).kept => Handled(exc, read).status # 500
    <3>1. CASE read \in SUBSET Tenants BY <1>5, <3>1, HandledAnswer
    <3>2. CASE exc = "denied"
      <4>1. {} \in SUBSET Tenants /\ Handled(exc, read) = Handled(exc, {})
        BY <3>2 DEF Handled
      <4> QED BY <1>5, <4>1, HandledAnswer
    <3>3. exc # "denied" => read \in SUBSET Tenants
      <4>1. th[t].tenant \in Tenants \cup {NoTenant} BY <1>1, ThreadFields
      <4> QED BY <4>1 DEF Outcomes, Permitted, Reads
    <3> QED BY <3>1, <3>2, <3>3
  <2> QED BY <1>2, <1>5, <2>1, KnownOutwards
<1>6. Django(500) \in Answer /\ Django(404) \in Answer BY Refusals
<1> QED BY <1>4, <1>5, <1>6 DEF Serve

-----------------------------------------------------------------------------
(* The way out: what is cleared, what is marked.                           *)
LEMMA ClearedLocal ==
  ASSUME NEW T \in Thread, NEW L \in Local, Fits(T, L), T.way = "out"
  PROVE  /\ Cleared(MIDDLEWARE[T.at], L) \in Local
         /\ T.at = 1 => Cleared(MIDDLEWARE[T.at], L) = Empty
         /\ T.at > 1 => LocalsFit([T EXCEPT !.at = @ - 1], Cleared(MIDDLEWARE[T.at], L))
<1> DEFINE K == Cleared(MIDDLEWARE[T.at], L)
<1>1. T.at \in 1..9 /\ T.q # NoRequest /\ LocalsFit(T, L) BY DEF Fits, AnswerFits
<1>2. /\ T.at = 1 => K = [L EXCEPT !.rid = NoRequest]
      /\ T.at = 2 => K = [L EXCEPT !.cid = NoRequest]
      /\ T.at = 3 => K = [L EXCEPT !.ctx = NoRequest]
      /\ T.at = 8 => K = [L EXCEPT !.tenant = NoTenant]
      /\ T.at \in {4, 5, 6, 7, 9} => K = L
  BY MiddlewareOrder DEF Cleared
<1> HIDE DEF K
<1>3. K \in Local
  BY <1>1, <1>2 DEF Local
<1>4. /\ K.rid = IF T.at = 1 THEN NoRequest ELSE L.rid
      /\ K.cid = IF T.at = 2 THEN NoRequest ELSE L.cid
      /\ K.ctx = IF T.at = 3 THEN NoRequest ELSE L.ctx
      /\ K.tenant = IF T.at = 8 THEN NoTenant ELSE L.tenant
  BY <1>1, <1>2 DEF Local
<1>5. ASSUME T.at = 1 PROVE K = Empty
  <2>1. /\ K.rid = NoRequest /\ K.cid = NoRequest /\ K.ctx = NoRequest
        /\ K.tenant = NoTenant
    BY <1>1, <1>4, <1>5 DEF LocalsFit, Inside
  <2> QED BY <1>3, <2>1 DEF Local, Empty
<1>6. ASSUME T.at > 1 PROVE LocalsFit([T EXCEPT !.at = @ - 1], K)
  <2> DEFINE U == [T EXCEPT !.at = @ - 1]
  <2>1. U.q = T.q /\ U.way = "out" /\ U.at = T.at - 1 /\ U.tenant = T.tenant
    BY DEF Thread
  <2>2. U.at \in 1..8 BY <1>1, <1>6, <2>1
  <2> HIDE DEF U
  <2> QED BY <1>1, <1>4, <2>1, <2>2 DEF LocalsFit, Inside
<1> QED BY <1>3, <1>5, <1>6 DEF K

LEMMA MarkedAnswer ==
  ASSUME NEW T \in Thread, NEW L, Fits(T, L), T.way = "out"
  PROVE  LET a == Marked(MIDDLEWARE[T.at], T.q, T.answer) IN
         /\ a \in Answer /\ a.status = T.answer.status /\ a.kept = T.answer.kept
         /\ a.read = T.answer.read
         /\ a.marks = T.answer.marks \cup (IF T.at = 4 THEN {"security"}
                                          ELSE IF T.at = 6 THEN {"logged"}
                                          ELSE IF T.at = 1 THEN {T.q} ELSE {})
<1> DEFINE a     == Marked(MIDDLEWARE[T.at], T.q, T.answer)
           added == IF T.at = 4 THEN {"security"} ELSE IF T.at = 6 THEN {"logged"}
                    ELSE IF T.at = 1 THEN {T.q} ELSE {}
           b     == T.answer
<1>1. T.at \in 1..9 /\ T.q \in Requests /\ b \in Answer
  BY ThreadFields DEF Fits, AnswerFits
<1>2. \/ a = [b EXCEPT !.marks = @ \cup added]
      \/ a = b /\ added = {}
  BY <1>1, MiddlewareOrder DEF Marked, Logged
<1>3. added \subseteq Requests \cup {"security", "logged"} BY <1>1
<1> HIDE DEF a, b, added
<1>4. /\ a \in Answer /\ a.status = b.status /\ a.kept = b.kept
      /\ a.read = b.read /\ a.marks = b.marks \cup added
  <2>1. CASE a = b /\ added = {} BY <1>1, <2>1
  <2>2. CASE a = [b EXCEPT !.marks = @ \cup added]
    <3>1. b.marks \cup added \in SUBSET (Requests \cup {"security", "logged"})
      BY <1>1, <1>3 DEF Answer
    <3>2. a \in Answer BY <1>1, <2>2, <3>1 DEF Answer
    <3>3. /\ a.status = b.status /\ a.kept = b.kept
          /\ a.read = b.read /\ a.marks = b.marks \cup added
      BY <1>1, <2>2 DEF Answer
    <3> QED BY <3>2, <3>3
  <2> QED BY <1>2, <2>1, <2>2
<1> QED BY <1>4 DEF a, b, added

LEMMA PassOutKeeps ==
  ASSUME PInv, NEW t \in Threads, th[t].q # NoRequest, PassOut(t)
  PROVE  PInv'
<1> DEFINE T == th[t]
           L == Cleared(MIDDLEWARE[T.at], local[t])
           a == Marked(MIDDLEWARE[T.at], T.q, T.answer)
<1>1. /\ T \in Thread /\ local[t] \in Local /\ Fits(T, local[t]) /\ T.way = "out"
      /\ th \in [Threads -> Thread] /\ local \in [Threads -> Local]
  BY StateOf DEF PassOut
<1>2. /\ T.at \in 1..9 /\ T.q \in Requests /\ AnswerFits(T) /\ EntryFits(T, local[t])
  BY <1>1, ThreadFields DEF Fits, AnswerFits
<1>3. /\ L \in Local /\ (T.at = 1 => L = Empty)
      /\ T.at > 1 => LocalsFit([T EXCEPT !.at = @ - 1], L)
  BY <1>1, ClearedLocal
<1>4. /\ a \in Answer /\ a.status = T.answer.status /\ a.kept = T.answer.kept
      /\ a.read = T.answer.read
      /\ a.marks = T.answer.marks \cup (IF T.at = 4 THEN {"security"}
                                       ELSE IF T.at = 6 THEN {"logged"}
                                       ELSE IF T.at = 1 THEN {T.q} ELSE {})
  BY <1>1, MarkedAnswer
<1>5. /\ local' = [local EXCEPT ![t] = L] /\ UNCHANGED <<status, sent, changes>>
      /\ sent' \subseteq Requests
  BY <1>1 DEF PassOut, PInv, TypeOK
<1>6. CASE T.at = 1
  <2>1. th' = [th EXCEPT ![t] = Idle] /\ answers' = [answers EXCEPT ![T.q] = a]
    BY <1>6 DEF PassOut
  <2> HIDE DEF a, L
  <2>2. answers \in [Requests -> Answer] /\ answers' \in [Requests -> Answer]
    BY <1>2, <1>4, <2>1 DEF PInv, TypeOK
  <2>3. answers'[T.q] = a /\ \A q \in Requests \ {T.q} : answers'[q] = answers[q]
    BY <1>2, <2>1, <2>2
  <2>4. FailuresUndone'
    <3>1. a.kept => a.status # 500 /\ "logged" \in a.marks
      BY <1>2, <1>4, <1>6, <1>1 DEF AnswerFits
    <3> QED BY <2>3, <3>1 DEF PInv, FailuresUndone
  <2>5. OnlyMarkedAnswers'
    <3>1. a.marks \in {{T.q, "security"}, {T.q, "security", "logged"}}
      <4>1. T.answer.marks \subseteq {"security", "logged"} /\ "security" \in T.answer.marks
        BY <1>1, <1>2, <1>6 DEF AnswerFits
      <4>2. a.marks = T.answer.marks \cup {T.q} BY <1>4, <1>6
      <4> QED BY <4>1, <4>2
    <3> QED BY <2>3, <3>1 DEF PInv, OnlyMarkedAnswers
  <2>6. UNCHANGED <<status, changes>> /\ L = Empty BY <1>3, <1>5, <1>6
  <2>7. local' = [local EXCEPT ![t] = Empty] BY <1>5, <2>6
  <2> QED BY <1>5, <2>1, <2>2, <2>4, <2>5, <2>6, <2>7, IdleFits, ThreadStep
<1>7. CASE T.at # 1
  <2> DEFINE U == [T EXCEPT !.at = @ - 1, !.answer = a]
             V == [T EXCEPT !.at = @ - 1]
  <2>1. T.at - 1 \in 0..View /\ T.at > 1 BY <1>2, <1>7, Places
  <2>2. U \in Thread
    <3> HIDE DEF a
    <3> QED BY <1>1, <1>4, <2>1 DEF Thread
  <2>3. /\ U.at = T.at - 1 /\ U.q = T.q /\ U.way = "out" /\ U.tenant = T.tenant
        /\ U.answer = a /\ U.known = T.known /\ U.barred = T.barred /\ U.host = T.host
        /\ V.at = T.at - 1 /\ V.q = T.q /\ V.way = "out" /\ V.tenant = T.tenant
    <3> HIDE DEF a
    <3> QED BY <1>1 DEF Thread
  <2>4. th' = [th EXCEPT ![t] = U] /\ UNCHANGED answers
    BY <1>1, <1>7 DEF PassOut
  <2>5. LocalsFit(V, L) BY <1>3, <2>1
  <2> HIDE DEF U, V, a, L
  <2>6. LocalsFit(U, L) BY <1>2, <2>3, <2>5, PipelineAssumption DEF LocalsFit, Inside, NoRequest
  <2>7. EntryFits(U, L) BY <1>2, <2>3 DEF EntryFits
  <2>8. AnswerFits(U) BY <1>1, <1>2, <1>4, <1>7, <2>3 DEF AnswerFits
  <2> QED BY <1>3, <1>5, <2>2, <2>4, <2>6, <2>7, <2>8, QuietStep DEF Fits
<1> QED BY <1>6, <1>7

(* The logger's failure: there is nothing to lose but the line.            *)
LEMMA LogFailsKeeps ==
  ASSUME PInv, NEW t \in Threads, LogFails(t)
  PROVE  PInv'
<1>1. /\ th[t] \in Thread /\ local[t] \in Local /\ Fits(th[t], local[t])
      /\ th \in [Threads -> Thread] /\ local = [local EXCEPT ![t] = local[t]]
  BY StateOf
<1>2. PICK a \in Answer :
        a = Django(500) /\ a.marks = {} /\ a.read = {} /\ a.kept = FALSE
  BY Refusals
<1>3. /\ th[t].way = "out" /\ th[t].at = 6 /\ Out(t, th[t].at - 1, a)
      /\ UNCHANGED <<local, status, sent, answers, changes>> /\ sent' \subseteq Requests
  BY <1>2, Positions DEF LogFails, PInv, TypeOK
<1> DEFINE U == [th[t] EXCEPT !.way = "out", !.at = th[t].at - 1, !.answer = a]
<1>4. U \in Thread
  <2>1. th[t].at - 1 \in 0..View BY <1>3, Places
  <2> QED BY <1>1, <2>1 DEF Thread
<1>5. /\ U.at = 5 /\ U.q = th[t].q /\ U.way = "out" /\ U.tenant = th[t].tenant
      /\ U.answer = a /\ U.barred = th[t].barred /\ U.host = th[t].host
  BY <1>1, <1>3 DEF Thread
<1>6. th' = [th EXCEPT ![t] = U] /\ local' = [local EXCEPT ![t] = local[t]]
  BY <1>1, <1>3 DEF Out
<1> HIDE DEF U
<1>7. th[t].q # NoRequest BY <1>1, <1>3 DEF Fits, AnswerFits
<1>8. LocalsFit(U, local[t]) BY <1>1, <1>3, <1>5, <1>7 DEF Fits, LocalsFit, Inside
<1>9. EntryFits(U, local[t]) BY <1>1, <1>5 DEF Fits, EntryFits
<1>10. AnswerFits(U) BY <1>2, <1>5, <1>7 DEF AnswerFits
<1> QED BY <1>1, <1>3, <1>4, <1>6, <1>8, <1>9, <1>10, QuietStep DEF Fits

(* An administrator's change: who is barred still was so all along.        *)
LEMMA SetStatusKeeps ==
  ASSUME PInv, NEW x \in Tenants, NEW s \in Statuses, SetStatus(x, s)
  PROVE  PInv'
<1>1. /\ changes' = changes + 1 /\ changes < MaxChanges
      /\ status' = [status EXCEPT ![x] = s]
      /\ UNCHANGED <<local, sent, answers>>
      /\ th \in [Threads -> Thread] /\ local \in [Threads -> Local]
  BY DEF SetStatus, PInv, TypeOK
<1>2. ASSUME NEW t \in Threads
      PROVE  th'[t] \in Thread /\ Fits(th[t], local[t])'
  <2> DEFINE b == th[t].barred /\ ~(x \in HostTenant(th[t].host)
                                   /\ s \notin {"SUSPENDED", "ARCHIVED"})
             T == [th[t] EXCEPT !.barred = b]
  <2>1. th'[t] = T BY DEF SetStatus
  <2>2. th[t] \in Thread /\ Fits(th[t], local[t]) BY StateOf
  <2>3. T \in Thread BY <2>2 DEF Thread
  <2>4. /\ T.at = th[t].at /\ T.q = th[t].q /\ T.way = th[t].way
        /\ T.tenant = th[t].tenant /\ T.answer = th[t].answer
        /\ T.known = th[t].known /\ T.barred = b /\ T.host = th[t].host
    BY <2>2 DEF Thread
  <2>5. th[t] = Idle => T = Idle
    <3> SUFFICES ASSUME th[t] = Idle PROVE T = Idle
        OBVIOUS
    <3>1. b = FALSE BY DEF Idle
    <3>2. th[t].barred = FALSE BY DEF Idle
    <3>3. T = [th[t] EXCEPT !.barred = FALSE] BY <3>1
    <3> HIDE DEF b, T
    <3> QED BY <2>2, <2>3, <3>2, <3>3 DEF Thread
  <2>6. b => th[t].barred /\ \E y \in HostTenant(th[t].host) : Refused(y)'
    <3> SUFFICES ASSUME b PROVE \E y \in HostTenant(th[t].host) : Refused(y)'
        OBVIOUS
    <3>1. PICK y \in HostTenant(th[t].host) : Refused(y) BY <2>2 DEF Fits, EntryFits
    <3>2. y \in Tenants /\ status \in [Tenants -> Statuses]
      BY OneHostTenant DEF PInv, TypeOK
    <3>3. Refused(y)' BY <1>1, <3>1, <3>2 DEF Refused
    <3> QED BY <3>3
  <2> HIDE DEF b, T
  <2>7. LocalsFit(T, local[t]) BY <2>2, <2>4, <2>5 DEF Fits, LocalsFit, Inside
  <2>8. EntryFits(th[t], local[t])'
    BY <1>1, <2>1, <2>2, <2>4, <2>6 DEF Fits, EntryFits
  <2>9. AnswerFits(T) BY <2>2, <2>4, <2>6 DEF Fits, AnswerFits
  <2> QED BY <1>1, <2>1, <2>3, <2>7, <2>8, <2>9 DEF Fits, LocalsFit, Inside, AnswerFits
<1>3. TypeOK'
  <2>1. th' \in [Threads -> Thread]
    <3>1. th' = [t \in Threads |-> th'[t]] BY DEF SetStatus
    <3> QED BY <1>2, <3>1
  <2>2. changes' \in 0..MaxChanges BY <1>1, PipelineAssumption DEF PInv, TypeOK
  <2> QED BY <1>1, <2>1, <2>2 DEF PInv, TypeOK
<1>4. FailuresUndone' /\ OnlyMarkedAnswers'
  BY <1>1 DEF PInv, FailuresUndone, OnlyMarkedAnswers
<1> QED BY <1>2, <1>3, <1>4 DEF PInv, ThreadsFit

-----------------------------------------------------------------------------
LEMMA InitHolds == Init => PInv
<1> SUFFICES ASSUME Init PROVE PInv
    OBVIOUS
<1>1. TypeOK BY IdleFits, PipelineAssumption DEF Init, TypeOK, Statuses
<1>2. ThreadsFit BY IdleFits DEF Init, ThreadsFit
<1>3. FailuresUndone BY DEF Init, FailuresUndone, NoAnswer
<1>4. OnlyMarkedAnswers BY DEF Init, OnlyMarkedAnswers
<1> QED BY <1>1, <1>2, <1>3, <1>4 DEF PInv

LEMMA StepKeeps == PInv /\ [Next]_vars => PInv'
<1> SUFFICES ASSUME PInv, [Next]_vars PROVE PInv'
    OBVIOUS
<1>1. ASSUME NEW t \in Threads, NEW q \in Requests, Accept(t, q) PROVE PInv'
  BY <1>1, AcceptKeeps
<1>2. ASSUME NEW t \in Threads, Middleware(t) PROVE PInv'
  <2>1. CASE PassOut(t)
    <3>1. th[t].q # NoRequest BY <2>1, StateOf DEF PassOut, Fits, AnswerFits
    <3> QED BY <2>1, <3>1, PassOutKeeps
  <2> QED BY <1>2, <2>1, IdentifierKeeps, GatesKeep, TenantInKeeps, ServeKeeps,
        LogFailsKeeps DEF Middleware
<1>3. ASSUME NEW x \in Tenants, NEW s \in Statuses, SetStatus(x, s) PROVE PInv'
  BY <1>3, SetStatusKeeps
<1>4. CASE UNCHANGED vars
  BY <1>4 DEF vars, PInv, TypeOK, ThreadsFit, Fits, LocalsFit, EntryFits, AnswerFits,
     Inside, Refused, FailuresUndone, OnlyMarkedAnswers
<1> QED BY <1>1, <1>2, <1>3, <1>4 DEF Next

(* The invariant the theorems rest on, for every value of the constants.   *)
THEOREM Invariance == Spec => []PInv
BY InitHolds, StepKeeps, PTL DEF Spec

(* Every thread, its locals and every answer have their types.             *)
THEOREM PipelineTyping == Spec => []TypeOK
BY Invariance, PTL DEF PInv

(* A thread given back has no identifiers and no tenant, a busy one only   *)
(* its request's, whatever way requests leave by.                          *)
THEOREM ThreadsAreClean == Spec => []LocalsAreOwn
<1>1. PInv => LocalsAreOwn
  <2> SUFFICES ASSUME PInv, NEW t \in Threads
               PROVE  /\ th[t] = Idle => local[t] = Empty
                      /\ {local[t].rid, local[t].cid, local[t].ctx} \subseteq {th[t].q, NoRequest}
                      /\ local[t].tenant \in {th[t].tenant, NoTenant}
      BY DEF LocalsAreOwn
  <2>1. LocalsFit(th[t], local[t]) BY StateOf DEF Fits
  <2> QED BY <2>1, IdleFits DEF LocalsFit
<1> QED BY <1>1, Invariance, PTL

(* No view reads or writes for a request to the host of a tenant that was  *)
(* suspended or archived all along.                                        *)
THEOREM BarredStaysOut == Spec => []BarredIsNotServed
<1>1. PInv => BarredIsNotServed
  BY DEF PInv, ThreadsFit, Fits, AnswerFits, BarredIsNotServed
<1> QED BY <1>1, Invariance, PTL

(* A 500, whoever made it, leaves none of the view's writes, and what stays*)
(* is logged: the user is known by then.                                   *)
THEOREM FailuresLeaveNothing == Spec => []FailuresUndone
BY Invariance, PTL DEF PInv

(* No answer without its own request's identifier and the security headers,*)
(* refusals and failures included.                                         *)
THEOREM AnswersAreMarked == Spec => []OnlyMarkedAnswers
BY Invariance, PTL DEF PInv
=============================================================================
