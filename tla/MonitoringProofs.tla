--------------------------- MODULE MonitoringProofs ---------------------------
(***************************************************************************)
(* Theorems about Monitoring, for any threads, views, life of the probe's  *)
(* value and number of changes: no health endpoint vouches for a service   *)
(* that was unusable all along, or raises an alarm while all was well.     *)
(***************************************************************************)
EXTENDS Monitoring, Integers, TLAPS, SequenceTheorems

Elements(todo) == {todo[i] : i \in 1..Len(todo)}

(* What a request under way has found out so far, and what its view will   *)
(* therefore say; c is the connection of its thread.                       *)
Gathered(T, c) ==
  /\ T.view \in DOMAIN Checks
  /\ T.ill \subseteq Critical(T.view) \cap Unusable
  /\ T.ok \cap T.ill = {}
  /\ T.well => /\ Needed(T.view) \subseteq Usable
               /\ T.view # "log_health_status" => c = "live"
               /\ \A s \in Critical(T.view) : s \in T.ok \cup Elements(T.todo)

(* Between the set and the get of the Redis check, a tick at most.         *)
AwaitsProbe(T) ==
  /\ T.todo # <<>> /\ Head(T.todo) = "redis"
  /\ T.well /\ "redis" \in Critical(T.view) =>
       probe >= IF T.late THEN ProbeTtl - 1 ELSE ProbeTtl

Answered(T) == /\ T.status = 200 => T.ill = {}
               /\ T.well => T.status = 200

Fits(T, c) == /\ T.pc \in {"checks", "get"} => Gathered(T, c)
              /\ T.pc = "get" => AwaitsProbe(T)
              /\ T.pc = "answered" => Answered(T)

ThreadsFit == \A t \in Threads : Fits(th[t], conn[t])

(* The value under the probe's key is no younger than the outage is old.   *)
ProbeAges == /\ redis = "up" => outage = 0
             /\ redis # "up" => probe + outage <= ProbeTtl

HInv == TypeOK /\ ThreadsFit /\ ProbeAges

-----------------------------------------------------------------------------
(* The views' checks, as sequences.                                        *)
LEMMA ChecksAre ==
  ASSUME NEW v \in DOMAIN Checks
  PROVE  /\ Checks[v] \in Seq(Services)
         /\ Critical(v) \subseteq Elements(Checks[v])
         /\ Critical(v) \subseteq Services
         /\ v = "log_health_status" => Critical(v) = {}
<1>1. v \in {"health", "ready", "db", "redis", "celery", "live", "system",
             "log_health_status"}
  BY DEF Checks
<1>2. Checks[v] \in Seq(Services)
  <2>1. /\ <<"db", "redis", "celery">> \in Seq(Services) /\ <<"db", "redis">> \in Seq(Services)
        /\ <<"db">> \in Seq(Services) /\ <<"redis">> \in Seq(Services)
        /\ <<"celery">> \in Seq(Services) /\ <<>> \in Seq(Services)
    BY DEF Services
  <2>2. Checks[v] \in {<<"db", "redis", "celery">>, <<"db", "redis">>, <<"db">>, <<"redis">>,
                       <<"celery">>, <<>>}
    BY <1>1 DEF Checks
  <2> QED BY <2>1, <2>2
<1>3. CASE v \in {"health", "ready"}
  <2>1. Critical(v) = {"db", "redis"} BY <1>3 DEF Critical, Services
  <2>2. Len(Checks[v]) >= 2 /\ Len(Checks[v]) \in Nat /\ Checks[v][1] = "db" /\ Checks[v][2] = "redis"
    BY <1>3 DEF Checks
  <2>3. 1 \in 1..Len(Checks[v]) /\ 2 \in 1..Len(Checks[v]) BY <2>2
  <2> QED BY <1>2, <1>3, <2>1, <2>2, <2>3 DEF Elements, Services
<1>4. CASE v \in Services
  <2>1. Critical(v) = {v} BY <1>4 DEF Critical, Services
  <2>2. Len(Checks[v]) = 1 /\ Checks[v][1] = v
    BY <1>4 DEF Checks, Services
  <2>3. 1 \in 1..Len(Checks[v]) BY <2>2
  <2> QED BY <1>2, <1>4, <2>1, <2>2, <2>3 DEF Elements, Services
<1>5. CASE v \notin {"health", "ready"} \cup Services
  BY <1>2, <1>5 DEF Critical, Services
<1> QED BY <1>3, <1>4, <1>5

LEMMA TodoStarts ==
  ASSUME NEW v \in DOMAIN Checks
  PROVE  Checks[v] \in Todo
<1>1. Checks[v] \in Seq(Services) BY ChecksAre
<1> DEFINE s == Checks[v]
<1> HIDE DEF s
<1>2. s \in Seq(Services) /\ Len(s) \in Nat BY <1>1, LenProperties DEF s
<1>3. \A i \in 1..Len(s) : s[i] \in Services BY <1>2
<1>4. /\ SubSeq(s, 1, Len(s)) \in Seq(Services)
      /\ Len(SubSeq(s, 1, Len(s))) = Len(s)
      /\ \A i \in 1..Len(s) : SubSeq(s, 1, Len(s))[i] = s[i]
  BY <1>2, <1>3, SubSeqProperties
<1>5. s = SubSeq(s, 1, Len(s)) BY <1>2, <1>4, SeqEqual
<1>6. 1 \in 1..Len(s) + 1 BY <1>2
<1> QED BY <1>5, <1>6 DEF Todo, s

LEMMA TodoGoesOn ==
  ASSUME NEW todo \in Todo
  PROVE  /\ todo \in Seq(Services)
         /\ todo # <<>> => /\ Tail(todo) \in Todo /\ Head(todo) \in Services
                           /\ Elements(todo) = {Head(todo)} \cup Elements(Tail(todo))
<1>1. PICK v \in DOMAIN Checks : \E i \in 1..Len(Checks[v]) + 1 :
        todo = SubSeq(Checks[v], i, Len(Checks[v]))
  BY DEF Todo
<1>2. PICK s \in Seq(Services) : s = Checks[v] BY ChecksAre
<1> PICK i \in 1..Len(s) + 1 : todo = SubSeq(s, i, Len(s)) BY <1>1, <1>2
<1>3. Len(s) \in Nat /\ i \in 1..Len(s) + 1 BY <1>2, LenProperties
<1>4. /\ todo \in Seq(Services) /\ Len(todo) = Len(s) - i + 1
      /\ \A j \in 1..Len(s) - i + 1 : todo[j] = s[i + j - 1]
  <2>1. \A j \in i..Len(s) : s[j] \in Services BY <1>3
  <2>2. todo = SubSeq(s, i, Len(s)) OBVIOUS
  <2> QED BY <1>3, <2>1, <2>2, SubSeqProperties
<1>5. ASSUME todo # <<>>
      PROVE  /\ Tail(todo) \in Todo /\ Head(todo) \in Services
             /\ Elements(todo) = {Head(todo)} \cup Elements(Tail(todo))
  <2>1. /\ Head(todo) \in Services /\ Tail(todo) \in Seq(Services)
        /\ Len(Tail(todo)) = Len(todo) - 1
        /\ \A j \in 1..Len(Tail(todo)) : Tail(todo)[j] = todo[j + 1]
        /\ Head(todo) = todo[1]
    BY <1>4, <1>5, HeadTailProperties
  <2>2. Len(todo) \in Nat \ {0} BY <1>4, <1>5, EmptySeq
  <2>3. i + 1 \in 1..Len(s) + 1 BY <1>3, <1>4, <2>2
  <2> DEFINE rest == SubSeq(s, i + 1, Len(s))
  <2>4. /\ rest \in Seq(Services) /\ Len(rest) = Len(s) - i
        /\ \A j \in 1..Len(s) - i : rest[j] = s[i + j]
    <3>1. \A j \in i + 1..Len(s) : s[j] \in Services BY <1>3
    <3>2. i + 1 \in Int /\ Len(s) \in Int BY <1>3
    <3>3. /\ rest \in Seq(Services)
          /\ Len(rest) = IF i + 1 <= Len(s) THEN Len(s) - (i + 1) + 1 ELSE 0
          /\ \A j \in 1..Len(s) - (i + 1) + 1 : rest[j] = s[i + 1 + j - 1]
      BY <3>1, <3>2, SubSeqProperties
    <3> HIDE DEF rest
    <3> QED BY <1>3, <2>3, <3>3
  <2> HIDE DEF rest
  <2>5. Tail(todo) = rest
    <3>1. Len(Tail(todo)) = Len(rest) BY <1>3, <1>4, <2>1, <2>4
    <3>2. \A j \in 1..Len(rest) : Tail(todo)[j] = rest[j] BY <1>3, <1>4, <2>1, <2>4
    <3> QED BY <2>1, <2>4, <3>1, <3>2, SeqEqual
  <2>6. Tail(todo) \in Todo
    <3>1. Tail(todo) = SubSeq(Checks[v], i + 1, Len(Checks[v])) BY <1>2, <2>5 DEF rest
    <3>2. i + 1 \in 1..Len(Checks[v]) + 1 BY <1>2, <2>3
    <3> DEFINE Ends(w) == {SubSeq(Checks[w], k, Len(Checks[w])) : k \in 1..Len(Checks[w]) + 1}
    <3>3. Tail(todo) \in Ends(v) BY <3>1, <3>2
    <3>4. Todo = UNION {Ends(w) : w \in DOMAIN Checks} BY Zenon DEF Todo
    <3> HIDE DEF Ends
    <3> QED BY <3>3, <3>4
  <2>7. Elements(todo) = {Head(todo)} \cup Elements(Tail(todo))
    <3> DEFINE n == Len(todo)
               f == Tail(todo)
    <3>1. n \in Nat \ {0} /\ Len(f) = n - 1 /\ \A j \in 1..n - 1 : f[j] = todo[j + 1]
      BY <2>1, <2>2
    <3> HIDE DEF n, f
    <3>2. ASSUME NEW j \in 1..n PROVE todo[j] \in {todo[1]} \cup {f[k] : k \in 1..n - 1}
      <4>1. CASE j = 1 BY <4>1
      <4>2. CASE j # 1
        <5>1. j - 1 \in 1..n - 1 /\ (j - 1) + 1 = j BY <3>1, <4>2
        <5>2. f[j - 1] = todo[j] BY <3>1, <5>1
        <5> QED BY <5>1, <5>2
      <4> QED BY <4>1, <4>2
    <3>3. ASSUME NEW k \in 1..n - 1 PROVE f[k] \in {todo[j] : j \in 1..n}
      <4>1. k + 1 \in 1..n BY <3>1
      <4>2. f[k] = todo[k + 1] BY <3>1
      <4> QED BY <4>1, <4>2
    <3>4. 1 \in 1..n BY <3>1
    <3>5. {todo[j] : j \in 1..n} = {todo[1]} \cup {f[k] : k \in 1..n - 1}
      BY <3>2, <3>3, <3>4
    <3> QED BY <2>1, <3>1, <3>5 DEF Elements, n, f
  <2> QED BY <2>1, <2>6, <2>7
<1> QED BY <1>4, <1>5

LEMMA NothingToDo ==
  /\ <<>> \in Todo /\ Elements(<<>>) = {}
<1>1. "live" \in DOMAIN Checks /\ Checks["live"] = <<>> BY DEF Checks
<1>2. <<>> \in Todo BY <1>1, TodoStarts
<1> QED BY <1>2 DEF Elements

-----------------------------------------------------------------------------
(* What the services' states make usable.                                  *)
LEMMA WhatWorks ==
  /\ Usable \subseteq Services /\ Unusable \subseteq Services
  /\ "db" \in Usable <=> db = "up"
  /\ "redis" \in Usable <=> redis = "up"
  /\ "celery" \in Usable <=> (celery /\ redis = "up")
  /\ "db" \in Unusable <=> db # "up"
  /\ "redis" \in Unusable <=> (redis # "up" /\ outage = ProbeTtl)
  /\ "celery" \in Unusable <=> ~celery
BY DEF Usable, Unusable, Services

(* A step of one thread leaves the others as fit as they were.             *)
LEMMA ThreadStep ==
  ASSUME HInv, NEW t \in Threads, UNCHANGED env,
         th' \in [Threads -> Thread],
         conn' \in [Threads -> {"none", "live", "broken"}],
         \A u \in Threads : u # t => th'[u] = th[u] /\ conn'[u] = conn[u],
         probe' \in 0..ProbeTtl, probe' >= probe, redis # "up" => probe' = probe,
         Fits(th[t], conn[t])'
  PROVE  HInv'
<1>1. TypeOK' BY DEF HInv, TypeOK, env
<1>2. ProbeAges' BY DEF HInv, ProbeAges, env
<1>3. Usable' = Usable /\ Unusable' = Unusable BY DEF Usable, Unusable, env
<1>4. ASSUME NEW u \in Threads, u # t PROVE Fits(th[u], conn[u])'
  <2>1. Fits(th[u], conn[u]) BY DEF HInv, ThreadsFit
  <2>2. th'[u] = th[u] /\ conn'[u] = conn[u] BY <1>4
  <2>3. probe \in 0..ProbeTtl /\ ProbeTtl \in Nat
    BY MonitoringAssumption DEF HInv, TypeOK
  <2>4. th[u].pc \in {"checks", "get"} => Gathered(th[u], conn[u])'
    BY <1>3, <2>1, <2>2 DEF Fits, Gathered
  <2>5. th[u].pc = "get" => AwaitsProbe(th[u])'
    BY <2>1, <2>2, <2>3 DEF Fits, AwaitsProbe
  <2>6. th[u].pc = "answered" => Answered(th[u])'
    BY <2>1, <2>2 DEF Fits, Answered
  <2> QED BY <2>2, <2>4, <2>5, <2>6 DEF Fits
<1>5. ThreadsFit' BY <1>4 DEF ThreadsFit
<1> QED BY <1>1, <1>2, <1>5 DEF HInv

(* What may be written into a thread's record.                             *)
Codes == {200, 500, 503}

LEMMA FieldsFound ==
  ASSUME NEW T \in Thread, NEW todo \in Todo, NEW ok \in SUBSET Services
  PROVE  [T EXCEPT !.pc = "checks", !.todo = todo, !.late = FALSE, !.ok = ok] \in Thread
<1> DEFINE P == {"idle", "checks", "get", "answered"}
           V == DOMAIN Checks \cup {"none"}
           C == {0, 200, 500, 503}
           S == SUBSET Services
<1>1. Thread = [pc : P, view : V, todo : Todo, ok : S, late : BOOLEAN, ill : S,
                well : BOOLEAN, status : C]
  BY DEF Thread
<1>2. "checks" \in P /\ ok \in S
  OBVIOUS
<1> HIDE DEF P, V, C, S
<1> QED BY <1>1, <1>2

LEMMA FieldsSet ==
  ASSUME NEW T \in Thread
  PROVE  [T EXCEPT !.pc = "get", !.late = FALSE] \in Thread
<1> DEFINE P == {"idle", "checks", "get", "answered"}
           V == DOMAIN Checks \cup {"none"}
           C == {0, 200, 500, 503}
           S == SUBSET Services
<1>1. Thread = [pc : P, view : V, todo : Todo, ok : S, late : BOOLEAN, ill : S,
                well : BOOLEAN, status : C]
  BY DEF Thread
<1>2. "get" \in P
  OBVIOUS
<1> HIDE DEF P, V, C, S
<1> QED BY <1>1, <1>2

LEMMA FieldsAnswered ==
  ASSUME NEW T \in Thread, NEW ok \in SUBSET Services, NEW status \in Codes
  PROVE  [T EXCEPT !.pc = "answered", !.ok = ok, !.status = status] \in Thread
<1> DEFINE P == {"idle", "checks", "get", "answered"}
           V == DOMAIN Checks \cup {"none"}
           C == {0, 200, 500, 503}
           S == SUBSET Services
<1>1. Thread = [pc : P, view : V, todo : Todo, ok : S, late : BOOLEAN, ill : S,
                well : BOOLEAN, status : C]
  BY DEF Thread
<1>2. "answered" \in P /\ ok \in S /\ status \in C
  BY DEF Codes
<1> HIDE DEF P, V, C, S
<1> QED BY <1>1, <1>2

LEMMA FieldsRemembered ==
  ASSUME NEW T \in Thread, NEW ill \in SUBSET Services, NEW well \in BOOLEAN, NEW late \in BOOLEAN
  PROVE  [T EXCEPT !.ill = ill, !.well = well, !.late = late] \in Thread
<1> DEFINE P == {"idle", "checks", "get", "answered"}
           V == DOMAIN Checks \cup {"none"}
           C == {0, 200, 500, 503}
           S == SUBSET Services
<1>1. Thread = [pc : P, view : V, todo : Todo, ok : S, late : BOOLEAN, ill : S,
                well : BOOLEAN, status : C]
  BY DEF Thread
<1>2. ill \in S
  OBVIOUS
<1> HIDE DEF P, V, C, S
<1> QED BY <1>1, <1>2

(* A check reports: "ok" is true as far as anyone can tell, and not        *)
(* withheld from a service that worked all along.                          *)
LEMMA Finding ==
  ASSUME HInv, NEW t \in Threads, NEW isOk \in BOOLEAN, InRequest(t),
         th[t].todo # <<>>, NEW s, s = Head(th[t].todo), Found(t, s, isOk),
         isOk => s \notin Unusable,
         th[t].well /\ s \in Critical(th[t].view) => isOk,
         UNCHANGED <<env, probe, conn>>
  PROVE  HInv'
<1> DEFINE T == th[t]
<1>1. T \in Thread /\ th \in [Threads -> Thread] BY DEF HInv, TypeOK
<1>2. Fits(T, conn[t]) BY DEF HInv, ThreadsFit
<1>3. Gathered(T, conn[t]) BY <1>2 DEF Fits, InRequest
<1>4. T.todo \in Todo /\ T.ok \in SUBSET Services BY <1>1 DEF Thread
<1>5. /\ Tail(T.todo) \in Todo /\ s \in Services
      /\ Elements(T.todo) = {s} \cup Elements(Tail(T.todo))
  BY <1>4, TodoGoesOn
<1> DEFINE ok2 == IF isOk THEN T.ok \cup {s} ELSE T.ok
<1>6. ok2 \in SUBSET Services BY <1>4, <1>5
<1>7. /\ th'[t].pc = "checks" /\ th'[t].todo = Tail(T.todo) /\ th'[t].late = FALSE
      /\ th'[t].ok = ok2 /\ th'[t].ill = T.ill /\ th'[t].well = T.well
      /\ th'[t].view = T.view /\ th'[t].status = T.status
      /\ \A u \in Threads : u # t => th'[u] = th[u]
  BY <1>1 DEF Found, Thread
<1>8. th' \in [Threads -> Thread]
  <2> DEFINE T2 == [T EXCEPT !.pc = "checks", !.todo = Tail(T.todo), !.late = FALSE,
                             !.ok = ok2]
  <2>1. th' = [th EXCEPT ![t] = T2] BY <1>1 DEF Found, Thread
  <2>2. T2 \in Thread
    <3> HIDE DEF T, ok2
    <3> QED BY <1>1, <1>5, <1>6, FieldsFound
  <2> HIDE DEF T2
  <2> QED BY <1>1, <2>1, <2>2
<1>9. Gathered(th[t], conn[t])'
  <2>1. Usable' = Usable /\ Unusable' = Unusable BY DEF Usable, Unusable, env
  <2>2. T.ill \subseteq Critical(T.view) \cap Unusable /\ ok2 \cap T.ill = {}
    BY <1>3 DEF Gathered
  <2>3. T.well => /\ Needed(T.view) \subseteq Usable
                  /\ T.view # "log_health_status" => conn[t] = "live"
                  /\ \A c \in Critical(T.view) : c \in ok2 \cup Elements(Tail(T.todo))
    BY <1>3, <1>5 DEF Gathered
  <2>4. T.view \in DOMAIN Checks BY <1>3 DEF Gathered
  <2> HIDE DEF ok2, T
  <2> QED BY <1>7, <2>1, <2>2, <2>3, <2>4 DEF Gathered
<1>10. Fits(th[t], conn[t])' BY <1>7, <1>9 DEF Fits
<1>11. /\ conn' \in [Threads -> {"none", "live", "broken"}] /\ UNCHANGED env
       /\ probe' \in 0..ProbeTtl /\ probe' >= probe /\ probe' = probe
       /\ \A u \in Threads : u # t => th'[u] = th[u] /\ conn'[u] = conn[u]
  BY <1>7 DEF HInv, TypeOK
<1> QED BY <1>8, <1>10, <1>11, ThreadStep

LEMMA CheckDatabaseKeeps ==
  ASSUME HInv, NEW t \in Threads, CheckDatabase(t)
  PROVE  HInv'
<1> PICK isOk \in BOOLEAN : isOk = (db = "up" /\ (Transactional(t) => conn[t] = "live"))
  OBVIOUS
<1>1. Found(t, "db", isOk) /\ InRequest(t) /\ th[t].todo # <<>> /\ "db" = Head(th[t].todo)
  BY DEF CheckDatabase, Step
<1>2. Gathered(th[t], conn[t]) BY <1>1 DEF HInv, ThreadsFit, Fits, InRequest
<1>3. isOk => "db" \notin Unusable BY WhatWorks
<1>4. th[t].well => isOk
  BY <1>2, WhatWorks DEF Gathered, Needed, Transactional
<1>5. UNCHANGED <<env, probe, conn>> BY DEF CheckDatabase
<1> QED BY <1>1, <1>3, <1>4, <1>5, Finding

(* The value is found: written by this check, or by one of another thread, *)
(* ProbeTtl before the outage ended at the earliest.                       *)
LEMMA GetProbeKeeps ==
  ASSUME HInv, NEW t \in Threads, GetProbe(t)
  PROVE  HInv'
<1> PICK isOk \in BOOLEAN : isOk = (redis # "down" /\ probe > 0)
  OBVIOUS
<1>1. th[t].pc = "get" /\ Found(t, "redis", isOk) /\ InRequest(t)
  BY DEF GetProbe, InRequest
<1>2. Gathered(th[t], conn[t]) /\ AwaitsProbe(th[t])
  BY <1>1 DEF HInv, ThreadsFit, Fits
<1>3. probe \in 0..ProbeTtl /\ ProbeTtl \in Nat /\ ProbeTtl >= 2
  BY MonitoringAssumption DEF HInv, TypeOK
<1>4. isOk => "redis" \notin Unusable
  <2>1. redis # "up" => probe + outage <= ProbeTtl BY DEF HInv, ProbeAges
  <2>2. "redis" \in Unusable => redis # "up" /\ outage = ProbeTtl BY WhatWorks
  <2>3. isOk => probe > 0 OBVIOUS
  <2>4. outage \in 0..ProbeTtl BY DEF HInv, TypeOK
  <2> QED BY <1>3, <2>1, <2>2, <2>3, <2>4
<1>5. th[t].well /\ "redis" \in Critical(th[t].view) => isOk
  <2>1. SUFFICES ASSUME th[t].well, "redis" \in Critical(th[t].view) PROVE isOk
    OBVIOUS
  <2>2. redis = "up" BY <1>2, <2>1, WhatWorks DEF Gathered, Needed
  <2>3. probe >= IF th[t].late THEN ProbeTtl - 1 ELSE ProbeTtl
    BY <1>2, <2>1 DEF AwaitsProbe
  <2>4. probe > 0 BY <1>3, <2>3
  <2> QED BY <2>2, <2>4
<1>6. th[t].todo # <<>> /\ "redis" = Head(th[t].todo) BY <1>2 DEF AwaitsProbe
<1>7. UNCHANGED <<env, probe, conn>> BY DEF GetProbe
<1> QED BY <1>1, <1>4, <1>5, <1>6, <1>7, Finding

LEMMA CheckCeleryKeeps ==
  ASSUME HInv, NEW t \in Threads, CheckCelery(t)
  PROVE  HInv'
<1> PICK isOk \in BOOLEAN : isOk = (celery /\ redis = "up")
  BY DEF HInv, TypeOK
<1>1. Found(t, "celery", isOk) /\ InRequest(t) /\ th[t].todo # <<>>
      /\ "celery" = Head(th[t].todo)
  BY DEF CheckCelery, Step
<1>2. Gathered(th[t], conn[t]) BY <1>1 DEF HInv, ThreadsFit, Fits, InRequest
<1>3. isOk => "celery" \notin Unusable BY WhatWorks
<1>4. th[t].well /\ "celery" \in Critical(th[t].view) => isOk
  BY <1>2, WhatWorks DEF Gathered, Needed
<1>5. UNCHANGED <<env, probe, conn>> BY DEF CheckCelery
<1> QED BY <1>1, <1>3, <1>4, <1>5, Finding

(* The set of the Redis check renews the value, if Redis takes writes.     *)
LEMMA SetProbeKeeps ==
  ASSUME HInv, NEW t \in Threads, SetProbe(t)
  PROVE  HInv'
<1> DEFINE T == th[t]
<1>1. T \in Thread /\ th \in [Threads -> Thread] BY DEF HInv, TypeOK
<1>2. /\ T.pc = "checks" /\ T.todo # <<>> /\ Head(T.todo) = "redis"
      /\ UNCHANGED <<env, conn>>
      /\ probe' = IF redis = "up" THEN ProbeTtl ELSE probe
  BY DEF SetProbe, Step, ProbeLife
<1>3. Gathered(T, conn[t]) BY <1>2 DEF HInv, ThreadsFit, Fits
<1>4. probe \in 0..ProbeTtl /\ ProbeTtl \in Nat
  BY MonitoringAssumption DEF HInv, TypeOK
<1>5. /\ th'[t].pc = "get" /\ th'[t].todo = T.todo /\ th'[t].late = FALSE
      /\ th'[t].ok = T.ok /\ th'[t].ill = T.ill /\ th'[t].well = T.well
      /\ th'[t].view = T.view
      /\ \A u \in Threads : u # t => th'[u] = th[u]
  BY <1>1 DEF SetProbe, Thread
<1>6. th' \in [Threads -> Thread]
  <2> DEFINE T2 == [T EXCEPT !.pc = "get", !.late = FALSE]
  <2>1. th' = [th EXCEPT ![t] = T2]
    <3>1. th' = [th EXCEPT ![t].pc = "get", ![t].late = FALSE] BY DEF SetProbe
    <3> QED BY <1>1, <3>1
  <2>2. T2 \in Thread
    <3> HIDE DEF T
    <3> QED BY <1>1, FieldsSet
  <2> HIDE DEF T2
  <2> QED BY <1>1, <2>1, <2>2
<1>7. Gathered(th[t], conn[t])'
  <2>1. Usable' = Usable /\ Unusable' = Unusable BY <1>2 DEF Usable, Unusable, env
  <2> QED BY <1>2, <1>3, <1>5, <2>1 DEF Gathered
<1>8. AwaitsProbe(th[t])'
  <2>1. T.well /\ "redis" \in Critical(T.view) => redis = "up"
    BY <1>3, WhatWorks DEF Gathered, Needed
  <2> QED BY <1>2, <1>4, <1>5, <2>1 DEF AwaitsProbe
<1>9. Fits(th[t], conn[t])' BY <1>5, <1>7, <1>8 DEF Fits
<1>10. /\ conn' \in [Threads -> {"none", "live", "broken"}] /\ UNCHANGED env
       /\ probe' \in 0..ProbeTtl /\ probe' >= probe /\ (redis # "up" => probe' = probe)
       /\ \A u \in Threads : u # t => th'[u] = th[u] /\ conn'[u] = conn[u]
  BY <1>2, <1>4, <1>5 DEF HInv, TypeOK
<1> QED BY <1>6, <1>9, <1>10, ThreadStep

(* A request that fails at once does so for a reason.                      *)
LEMMA BeginKeeps ==
  ASSUME HInv, NEW t \in Threads, NEW v \in Views \cup {"log_health_status"}, Begin(t, v)
  PROVE  HInv'
<1>0. PICK obsolete \in BOOLEAN :
      LET c     == IF obsolete THEN "none" ELSE conn[t]
          fails == v \in Views /\ (c = "broken" \/ db # "up")
      IN
      /\ th' = [th EXCEPT ![t] = [Idle EXCEPT
                  !.pc = IF fails THEN "answered" ELSE "checks",
                  !.status = IF fails THEN 500 ELSE 0,
                  !.view = v, !.todo = IF fails THEN <<>> ELSE Checks[v],
                  !.ill = Critical(v) \cap Unusable,
                  !.well = c # "broken" /\ Needed(v) \subseteq Usable]]
      /\ conn' = IF v \notin Views THEN conn
                 ELSE [conn EXCEPT ![t] = IF fails THEN AfterUse("broken") ELSE "live"]
  BY DEF Begin
<1> DEFINE c     == IF obsolete THEN "none" ELSE conn[t]
           fails == v \in Views /\ (c = "broken" \/ db # "up")
           well  == c # "broken" /\ Needed(v) \subseteq Usable
           todo == IF fails THEN <<>> ELSE Checks[v]
           ill  == Critical(v) \cap Unusable
           T2   == [Idle EXCEPT !.pc = IF fails THEN "answered" ELSE "checks",
                                !.status = IF fails THEN 500 ELSE 0,
                                !.view = v, !.todo = todo, !.ill = ill, !.well = well]
<1>14. fails => ~well BY WhatWorks DEF Needed
<1>15. well => Needed(v) \subseteq Usable OBVIOUS
<1>17. fails \in BOOLEAN /\ well \in BOOLEAN OBVIOUS
<1>1. v \in DOMAIN Checks
  <2>1. Views \subseteq {"db", "redis", "celery", "health", "ready", "live", "system"}
    BY ViewsAssumption DEF Services, Unchecked
  <2> QED BY <2>1 DEF Checks
<1>2. todo \in Todo BY <1>1, TodoStarts, NothingToDo
<1>3. ill \in SUBSET Services BY WhatWorks
<1>4. th' = [th EXCEPT ![t] = T2] /\ th \in [Threads -> Thread]
      /\ conn \in [Threads -> {"none", "live", "broken"}]
  BY <1>0 DEF HInv, TypeOK
<1>5. conn' = IF v \notin Views THEN conn
              ELSE [conn EXCEPT ![t] = IF fails THEN "none" ELSE "live"]
  BY <1>0 DEF AfterUse
<1>6. /\ T2.pc = (IF fails THEN "answered" ELSE "checks")
      /\ T2.status = (IF fails THEN 500 ELSE 0)
      /\ T2.view = v /\ T2.todo = todo /\ T2.ill = ill /\ T2.well = well
      /\ T2.ok = {} /\ T2.late = FALSE
  BY DEF Idle
<1>7. T2 \in Thread
  <2> DEFINE P == {"idle", "checks", "get", "answered"}
             V == DOMAIN Checks \cup {"none"}
             C == {0, 200, 500, 503}
             S == SUBSET Services
             pc == IF fails THEN "answered" ELSE "checks"
             status == IF fails THEN 500 ELSE 0
  <2>1. Thread = [pc : P, view : V, todo : Todo, ok : S, late : BOOLEAN, ill : S,
                  well : BOOLEAN, status : C]
    BY DEF Thread
  <2>2. Idle \in Thread BY NothingToDo DEF Idle, Thread
  <2>3. pc \in P /\ status \in C /\ v \in V /\ ill \in S /\ todo \in Todo /\ well \in BOOLEAN
    BY <1>1, <1>2, <1>3, <1>17
  <2> HIDE DEF todo, ill, c, fails, well, P, V, C, S, pc, status
  <2>4. [Idle EXCEPT !.pc = pc, !.status = status, !.view = v, !.todo = todo,
                     !.ill = ill, !.well = well] \in Thread
    BY <2>1, <2>2, <2>3
  <2> QED BY <2>4 DEF pc, status
<1> HIDE DEF c, fails, well, T2, todo, ill
<1>8. th' \in [Threads -> Thread] /\ th'[t] = T2
      /\ \A u \in Threads : u # t => th'[u] = th[u] /\ conn'[u] = conn[u]
  BY <1>4, <1>5, <1>7
<1>9. conn' \in [Threads -> {"none", "live", "broken"}]
  BY <1>4, <1>5
<1>10. UNCHANGED env /\ UNCHANGED probe BY DEF Begin
<1>11. Usable' = Usable /\ Unusable' = Unusable BY <1>10 DEF Usable, Unusable, env
<1>12. CASE fails
  <2>1. ~well BY <1>12, <1>14
  <2> QED
    <3>1. Fits(th[t], conn[t])' BY <1>6, <1>8, <1>12, <2>1 DEF Fits, Answered
    <3>2. probe' \in 0..ProbeTtl /\ probe' >= probe /\ probe' = probe
      BY <1>10, MonitoringAssumption DEF HInv, TypeOK
    <3> QED BY <1>8, <1>9, <1>10, <3>1, <3>2, ThreadStep
<1>13. CASE ~fails
  <2>1. Critical(v) \subseteq Elements(Checks[v]) BY <1>1, ChecksAre
  <2>2. v # "log_health_status" => conn'[t] = "live" BY <1>4, <1>5, <1>13
  <2>3. ill \subseteq Critical(v) \cap Unusable BY DEF ill
  <2>4. todo = Checks[v] BY <1>13 DEF todo
  <2>5. Gathered(th[t], conn[t])'
    BY <1>1, <1>6, <1>8, <1>11, <1>15, <2>1, <2>2, <2>3, <2>4 DEF Gathered
  <2>6. Fits(th[t], conn[t])' BY <1>6, <1>8, <1>13, <2>5 DEF Fits
  <2>7. probe' \in 0..ProbeTtl /\ probe' >= probe /\ probe' = probe
    BY <1>10, MonitoringAssumption DEF HInv, TypeOK
  <2> QED BY <1>8, <1>9, <1>10, <2>6, <2>7, ThreadStep
<1> QED BY <1>12, <1>13

(* The answer follows from what was found.                                 *)
LEMMA FinishKeeps ==
  ASSUME HInv, NEW t \in Threads, Finish(t)
  PROVE  HInv'
<1> DEFINE T == th[t]
<1>1. /\ T \in Thread /\ th \in [Threads -> Thread]
      /\ conn \in [Threads -> {"none", "live", "broken"}]
  BY DEF HInv, TypeOK
<1>2. T.pc = "checks" /\ T.todo = <<>> /\ UNCHANGED env /\ UNCHANGED probe
  BY DEF Finish
<1>3. Gathered(T, conn[t]) BY <1>2 DEF HInv, ThreadsFit, Fits
<1>4. probe' \in 0..ProbeTtl /\ probe' >= probe /\ probe' = probe
  BY <1>2, MonitoringAssumption DEF HInv, TypeOK
<1>5. CASE Transactional(t)
  <2>0. PICK status \in Codes : status = IF conn[t] = "broken" THEN 500 ELSE StatusOf(t)
    BY DEF StatusOf, Codes
  <2> DEFINE none == {}
             T2 == [T EXCEPT !.pc = "answered", !.ok = none, !.status = status]
  <2>1. th' = [th EXCEPT ![t] = T2]
    <3>1. th' = [th EXCEPT ![t].pc = "answered", ![t].ok = none, ![t].status = status]
      BY <1>5, <2>0 DEF Finish
    <3> HIDE DEF none
    <3> QED BY <1>1, <3>1
  <2>2. T2 \in Thread
    <3>1. none \in SUBSET Services OBVIOUS
    <3> HIDE DEF T, none
    <3>2. T \in Thread /\ status \in Codes BY <1>1, <2>0
    <3>3. \A ok \in SUBSET Services, x \in Codes :
            [T EXCEPT !.pc = "answered", !.ok = ok, !.status = x] \in Thread
      BY <3>2, FieldsAnswered
    <3> HIDE DEF T2
    <3>4. [T EXCEPT !.pc = "answered", !.ok = none, !.status = status] \in Thread
      BY <3>1, <3>2, <3>3
    <3> QED BY <3>4, Zenon DEF T2
  <2>3. T2.pc = "answered" /\ T2.status = status /\ T2.ill = T.ill /\ T2.well = T.well
    BY <1>1 DEF Thread
  <2>4. conn' = [conn EXCEPT ![t] = AfterUse(conn[t])] BY <1>5 DEF Finish
  <2> HIDE DEF T2
  <2>5. th' \in [Threads -> Thread] /\ th'[t] = T2
        /\ \A u \in Threads : u # t => th'[u] = th[u] /\ conn'[u] = conn[u]
    BY <1>1, <2>1, <2>2, <2>4
  <2>6. conn' \in [Threads -> {"none", "live", "broken"}]
    BY <1>1, <2>4 DEF AfterUse
  <2>7. Answered(T2)
    <3>1. status = 200 => Critical(T.view) \subseteq T.ok BY <2>0 DEF StatusOf
    <3>2. status = 200 => T.ill = {} BY <1>3, <3>1 DEF Gathered
    <3>3. T.well => conn[t] # "broken" /\ Critical(T.view) \subseteq T.ok
      BY <1>2, <1>3, <1>5, NothingToDo DEF Gathered, Transactional
    <3>4. T.well => status = 200 BY <2>0, <3>3 DEF StatusOf
    <3> QED BY <2>3, <3>2, <3>4 DEF Answered
  <2>8. Fits(th[t], conn[t])' BY <2>3, <2>5, <2>7 DEF Fits, Answered
  <2> QED BY <1>2, <1>4, <2>5, <2>6, <2>8, ThreadStep
<1>6. CASE ~Transactional(t)
  <2>1. th' = [th EXCEPT ![t] = Idle] /\ conn' = conn BY <1>6 DEF Finish
  <2>2. Idle \in Thread
    BY NothingToDo DEF Idle, Thread
  <2>3. th' \in [Threads -> Thread] /\ th'[t] = Idle
        /\ \A u \in Threads : u # t => th'[u] = th[u] /\ conn'[u] = conn[u]
    BY <1>1, <2>1, <2>2
  <2>4. Fits(th[t], conn[t])' BY <2>3 DEF Fits, Idle
  <2>5. conn' \in [Threads -> {"none", "live", "broken"}] BY <1>1, <2>1
  <2> QED BY <1>2, <1>4, <2>3, <2>4, <2>5, ThreadStep
<1> QED BY <1>5, <1>6

-----------------------------------------------------------------------------
(* What requests under way know stays true when the services change: they  *)
(* forget what is no longer so.                                            *)
LEMMA RememberedFits ==
  ASSUME HInv, NEW late \in BOOLEAN, th' = Remembered(late),
         \A t \in Threads : conn[t] = "live" /\ db' = "up" => conn'[t] = "live",
         probe \in Nat, probe' \in Nat,
         redis = "up" /\ redis' = "up" => probe' >= IF late THEN probe - 1 ELSE probe,
         late => \A t \in Threads : th[t].pc = "get" => ~th[t].late
  PROVE  th' \in [Threads -> Thread] /\ ThreadsFit'
<1>1. th \in [Threads -> Thread] BY DEF HInv, TypeOK
<1>2. ProbeTtl \in Nat BY MonitoringAssumption
<1> SUFFICES ASSUME NEW t \in Threads PROVE th'[t] \in Thread /\ Fits(th[t], conn[t])'
  <2>1. th' = [t \in Threads |-> th'[t]] BY DEF Remembered
  <2> QED BY <2>1 DEF ThreadsFit
<1> DEFINE T == th[t]
<1>3. T \in Thread /\ Fits(T, conn[t]) BY <1>1 DEF HInv, ThreadsFit
<1>4. CASE ~InRequest(t)
  <2>1. th'[t] = T BY <1>4 DEF Remembered
  <2>2. T.pc \notin {"checks", "get"} BY <1>4 DEF InRequest
  <2> QED BY <1>3, <2>1, <2>2 DEF Fits, Answered
<1>5. CASE InRequest(t)
  <2> DEFINE ill  == T.ill \cap Unusable'
             well == T.well /\ Needed(T.view) \subseteq Usable'
             tick == T.late \/ (late /\ T.pc = "get")
  <2>1. th'[t] = [T EXCEPT !.ill = ill, !.well = well, !.late = tick]
    BY <1>5 DEF Remembered
  <2>2. ill \in SUBSET Services /\ well \in BOOLEAN /\ tick \in BOOLEAN
    BY <1>3 DEF Thread
  <2>3. ill \subseteq T.ill \cap Unusable' OBVIOUS
  <2>4. well => T.well /\ Needed(T.view) \subseteq Usable' OBVIOUS
  <2>5. tick = (T.late \/ (late /\ T.pc = "get")) OBVIOUS
  <2> HIDE DEF ill, well, tick
  <2>6. th'[t] \in Thread
    <3> HIDE DEF T
    <3>1. \A i \in SUBSET Services, a \in BOOLEAN, b \in BOOLEAN :
            [T EXCEPT !.ill = i, !.well = a, !.late = b] \in Thread
      BY <1>3, FieldsRemembered
    <3>2. [T EXCEPT !.ill = ill, !.well = well, !.late = tick] \in Thread
      BY <2>2, <3>1
    <3> QED BY <2>1, <3>2, Zenon
  <2>7. /\ th'[t].pc = T.pc /\ th'[t].view = T.view /\ th'[t].todo = T.todo
        /\ th'[t].ok = T.ok /\ th'[t].status = T.status
        /\ th'[t].ill = ill /\ th'[t].well = well /\ th'[t].late = tick
    BY <1>3, <2>1 DEF Thread
  <2>8. T.pc \in {"checks", "get"} /\ Gathered(T, conn[t])
    BY <1>3, <1>5 DEF InRequest, Fits
  <2>9. Gathered(th[t], conn[t])'
    <3>1. /\ T.view \in DOMAIN Checks /\ T.ill \subseteq Critical(T.view)
          /\ T.ok \cap T.ill = {}
      BY <2>8 DEF Gathered
    <3>2. ill \subseteq Critical(T.view) \cap Unusable' /\ T.ok \cap ill = {}
      BY <2>3, <3>1
    <3>3. well => db' = "up"
      <4>1. well => "db" \in Usable' BY <2>4 DEF Needed
      <4> QED BY <4>1 DEF Usable
    <3>4. well => /\ Needed(T.view) \subseteq Usable'
                  /\ T.view # "log_health_status" => conn'[t] = "live"
                  /\ \A c \in Critical(T.view) : c \in T.ok \cup Elements(T.todo)
      BY <2>4, <2>8, <3>3 DEF Gathered
    <3> HIDE DEF T
    <3> QED BY <2>7, <3>1, <3>2, <3>4 DEF Gathered
  <2>10. ASSUME T.pc = "get" PROVE AwaitsProbe(th[t])'
    <3>1. AwaitsProbe(T) BY <1>3, <2>10 DEF Fits
    <3>2. ASSUME well, "redis" \in Critical(T.view)
          PROVE  probe' >= IF tick THEN ProbeTtl - 1 ELSE ProbeTtl
      <4>1. T.well /\ "redis" \in Usable /\ "redis" \in Usable'
        BY <2>4, <2>8, <3>2 DEF Gathered, Needed
      <4>2. redis = "up" /\ redis' = "up" BY <4>1 DEF Usable
      <4>3. probe >= IF T.late THEN ProbeTtl - 1 ELSE ProbeTtl
        BY <3>1, <3>2, <4>1 DEF AwaitsProbe
      <4>4. probe' >= IF late THEN probe - 1 ELSE probe BY <4>2
      <4>5. CASE late
        <5>1. ~T.late /\ tick BY <2>5, <2>10, <4>5
        <5> QED BY <1>2, <4>3, <4>4, <4>5, <5>1
      <4>6. CASE ~late
        <5>1. tick <=> T.late BY <2>5, <4>6
        <5> QED BY <1>2, <4>3, <4>4, <4>6, <5>1
      <4> QED BY <4>5, <4>6
    <3> HIDE DEF T
    <3> QED BY <2>7, <3>1, <3>2 DEF AwaitsProbe
  <2> QED BY <2>6, <2>7, <2>8, <2>9, <2>10 DEF Fits
<1> QED BY <1>4, <1>5

LEMMA SetDbKeeps ==
  ASSUME HInv, NEW s \in {"up", "failing", "down"}, SetDb(s)
  PROVE  HInv'
<1>1. /\ th' = Remembered(FALSE) /\ db' = s /\ UNCHANGED <<redis, celery, probe, outage, running>>
      /\ conn' = [t \in Threads |->
                    IF s = "down" /\ conn[t] = "live" THEN "broken" ELSE conn[t]]
      /\ changes < MaxChanges /\ changes' = changes + 1
  BY DEF SetDb, Changes
<1>2. probe \in Nat /\ probe' \in Nat /\ probe' >= probe BY <1>1, MonitoringAssumption DEF HInv, TypeOK
<1>3. \A t \in Threads : conn[t] = "live" /\ db' = "up" => conn'[t] = "live" BY <1>1
<1> PICK late \in BOOLEAN : late = FALSE OBVIOUS
<1>4. th' = Remembered(late) BY <1>1
<1>5. redis = "up" /\ redis' = "up" => probe' >= IF late THEN probe - 1 ELSE probe BY <1>2
<1>6. late => \A t \in Threads : th[t].pc = "get" => ~th[t].late OBVIOUS
<1>7. th' \in [Threads -> Thread] /\ ThreadsFit'
  BY <1>2, <1>3, <1>4, <1>5, <1>6, RememberedFits
<1>8. TypeOK'
  <2>1. conn' \in [Threads -> {"none", "live", "broken"}] BY <1>1 DEF HInv, TypeOK
  <2>2. changes' \in 0..MaxChanges BY <1>1, MonitoringAssumption DEF HInv, TypeOK
  <2> QED BY <1>1, <1>7, <2>1, <2>2 DEF HInv, TypeOK
<1>9. ProbeAges' BY <1>1 DEF HInv, ProbeAges
<1> QED BY <1>7, <1>8, <1>9 DEF HInv

LEMMA SetRedisKeeps ==
  ASSUME HInv, NEW s \in {"up", "readonly", "down"}, SetRedis(s)
  PROVE  HInv'
<1>1. /\ th' = Remembered(FALSE) /\ s # redis /\ redis' = s
      /\ UNCHANGED <<db, celery, running, conn>>
      /\ outage' = IF s = "up" THEN 0 ELSE outage
      /\ probe' = probe \/ probe' = 0
      /\ changes < MaxChanges /\ changes' = changes + 1
  BY DEF SetRedis, Changes
<1>2. /\ probe \in 0..ProbeTtl /\ probe' \in 0..ProbeTtl /\ ProbeTtl \in Nat /\ probe' <= probe
      /\ outage \in 0..ProbeTtl
  BY <1>1, MonitoringAssumption DEF HInv, TypeOK
<1>3. \A t \in Threads : conn[t] = "live" /\ db' = "up" => conn'[t] = "live" BY <1>1
<1> PICK late \in BOOLEAN : late = FALSE OBVIOUS
<1>4. th' = Remembered(late) BY <1>1
<1>5. redis = "up" /\ redis' = "up" => probe' >= IF late THEN probe - 1 ELSE probe BY <1>1
<1>6. late => \A t \in Threads : th[t].pc = "get" => ~th[t].late OBVIOUS
<1>7. th' \in [Threads -> Thread] /\ ThreadsFit'
  <2>1. probe \in Nat /\ probe' \in Nat BY <1>2
  <2> QED BY <1>3, <1>4, <1>5, <1>6, <2>1, RememberedFits
<1>8. TypeOK'
  <2>1. outage' \in 0..ProbeTtl BY <1>1, <1>2
  <2>2. changes' \in 0..MaxChanges BY <1>1, MonitoringAssumption DEF HInv, TypeOK
  <2> QED BY <1>1, <1>2, <1>7, <2>1, <2>2 DEF HInv, TypeOK
<1>9. ProbeAges'
  <2>1. redis' = "up" => outage' = 0 BY <1>1
  <2>2. ASSUME redis' # "up" PROVE probe' + outage' <= ProbeTtl
    <3>1. outage' = outage BY <1>1, <2>2
    <3>2. probe + outage <= ProbeTtl BY <1>2 DEF HInv, ProbeAges
    <3>3. PICK old \in 0..ProbeTtl, new \in 0..ProbeTtl, out \in 0..ProbeTtl :
            old = probe /\ new = probe' /\ out = outage
      BY <1>2
    <3>4. new <= old /\ old + out <= ProbeTtl BY <1>2, <3>2, <3>3
    <3>5. new + out <= ProbeTtl BY <1>2, <3>4
    <3> QED BY <3>1, <3>3, <3>5
  <2> QED BY <2>1, <2>2 DEF ProbeAges
<1> QED BY <1>7, <1>8, <1>9 DEF HInv

LEMMA SetCeleryKeeps ==
  ASSUME HInv, SetCelery
  PROVE  HInv'
<1>1. /\ th' = Remembered(FALSE) /\ celery' = ~celery
      /\ UNCHANGED <<db, redis, probe, outage, running, conn>>
      /\ changes < MaxChanges /\ changes' = changes + 1
  BY DEF SetCelery, Changes
<1>2. probe \in Nat /\ probe' \in Nat /\ probe' >= probe BY <1>1, MonitoringAssumption DEF HInv, TypeOK
<1>3. \A t \in Threads : conn[t] = "live" /\ db' = "up" => conn'[t] = "live" BY <1>1
<1> PICK late \in BOOLEAN : late = FALSE OBVIOUS
<1>4. th' = Remembered(late) BY <1>1
<1>5. redis = "up" /\ redis' = "up" => probe' >= IF late THEN probe - 1 ELSE probe BY <1>2
<1>6. late => \A t \in Threads : th[t].pc = "get" => ~th[t].late OBVIOUS
<1>7. th' \in [Threads -> Thread] /\ ThreadsFit'
  BY <1>2, <1>3, <1>4, <1>5, <1>6, RememberedFits
<1>8. TypeOK'
  <2>1. changes' \in 0..MaxChanges BY <1>1, MonitoringAssumption DEF HInv, TypeOK
  <2>2. celery' \in BOOLEAN BY <1>1
  <2> QED BY <1>1, <1>7, <2>1, <2>2 DEF HInv, TypeOK
<1>9. ProbeAges' BY <1>1 DEF HInv, ProbeAges
<1> QED BY <1>7, <1>8, <1>9 DEF HInv

LEMMA TickKeeps ==
  ASSUME HInv, Tick
  PROVE  HInv'
<1>1. /\ th' = Remembered(TRUE) /\ \A t \in Threads : th[t].pc = "get" => ~th[t].late
      /\ UNCHANGED <<db, redis, celery, running, conn, changes>>
      /\ probe' = (IF probe = 0 THEN 0 ELSE probe - 1)
      /\ outage' = (IF redis = "up" THEN 0
                    ELSE IF outage < ProbeTtl THEN outage + 1 ELSE outage)
  BY DEF Tick
<1>2. /\ probe \in 0..ProbeTtl /\ ProbeTtl \in Nat /\ outage \in 0..ProbeTtl
  BY MonitoringAssumption DEF HInv, TypeOK
<1>3. probe' \in 0..ProbeTtl /\ outage' \in 0..ProbeTtl /\ probe' >= probe - 1
  BY <1>1, <1>2
<1>4. \A t \in Threads : conn[t] = "live" /\ db' = "up" => conn'[t] = "live" BY <1>1
<1> PICK late \in BOOLEAN : late = TRUE OBVIOUS
<1>5. th' = Remembered(late) BY <1>1
<1>6. redis = "up" /\ redis' = "up" => probe' >= IF late THEN probe - 1 ELSE probe BY <1>3
<1>7. late => \A t \in Threads : th[t].pc = "get" => ~th[t].late BY <1>1
<1>8. th' \in [Threads -> Thread] /\ ThreadsFit'
  <2>1. probe \in Nat /\ probe' \in Nat BY <1>2, <1>3
  <2> QED BY <1>4, <1>5, <1>6, <1>7, <2>1, RememberedFits
<1>9. TypeOK' BY <1>1, <1>3, <1>8 DEF HInv, TypeOK
<1>10. ProbeAges' BY <1>1, <1>2 DEF HInv, ProbeAges
<1> QED BY <1>8, <1>9, <1>10 DEF HInv

LEMMA CrashKeeps ==
  ASSUME HInv, Crash
  PROVE  HInv'
<1>1. Idle \in Thread BY NothingToDo DEF Idle, Thread
<1>2. TypeOK'
  <2>1. changes' \in 0..MaxChanges
    BY MonitoringAssumption DEF HInv, TypeOK, Crash, Changes
  <2>2. th' \in [Threads -> Thread] /\ conn' \in [Threads -> {"none", "live", "broken"}]
    BY <1>1 DEF Crash
  <2> QED BY <2>1, <2>2 DEF HInv, TypeOK, Crash
<1>3. ThreadsFit' BY DEF ThreadsFit, Fits, Crash, Idle
<1>4. ProbeAges' BY DEF HInv, ProbeAges, Crash
<1> QED BY <1>2, <1>3, <1>4 DEF HInv

(* Steps that leave alone all that the invariant is about.                 *)
LEMMA OthersKeep ==
  ASSUME HInv, Boot \/ UNCHANGED vars
  PROVE  HInv'
<1>1. UNCHANGED <<db, redis, celery, probe, outage, conn, th, changes>> /\ running' \in BOOLEAN
  BY DEF Boot, vars, HInv, TypeOK
<1>2. TypeOK' BY <1>1 DEF HInv, TypeOK
<1>3. ThreadsFit'
  <2>1. Usable' = Usable /\ Unusable' = Unusable BY <1>1 DEF Usable, Unusable
  <2> QED BY <1>1, <2>1 DEF HInv, ThreadsFit, Fits, Gathered, AwaitsProbe, Answered
<1>4. ProbeAges' BY <1>1 DEF HInv, ProbeAges
<1> QED BY <1>2, <1>3, <1>4 DEF HInv

LEMMA InitHolds == Init => HInv
<1> SUFFICES ASSUME Init PROVE HInv OBVIOUS
<1>1. Idle \in Thread BY NothingToDo DEF Idle, Thread
<1>2. TypeOK BY <1>1, MonitoringAssumption DEF Init, TypeOK
<1>3. ThreadsFit BY DEF Init, ThreadsFit, Fits, Idle
<1>4. ProbeAges BY DEF Init, ProbeAges
<1> QED BY <1>2, <1>3, <1>4 DEF HInv

LEMMA StepKeeps == HInv /\ [Next]_vars => HInv'
<1> SUFFICES ASSUME HInv, [Next]_vars PROVE HInv' OBVIOUS
<1>1. ASSUME NEW t \in Threads, Probed(t) \/ Begin(t, "log_health_status") PROVE HInv'
  <2>1. PICK v \in Views \cup {"log_health_status"} : Begin(t, v) BY <1>1 DEF Probed
  <2> QED BY <2>1, BeginKeeps
<1>2. ASSUME NEW t \in Threads, Go(t) PROVE HInv'
  BY <1>2, CheckDatabaseKeeps, SetProbeKeeps, GetProbeKeeps, CheckCeleryKeeps, FinishKeeps
  DEF Go
<1>3. ASSUME NEW s \in {"up", "failing", "down"}, SetDb(s) PROVE HInv'
  BY <1>3, SetDbKeeps
<1>4. ASSUME NEW s \in {"up", "readonly", "down"}, SetRedis(s) PROVE HInv'
  BY <1>4, SetRedisKeeps
<1>5. CASE SetCelery BY <1>5, SetCeleryKeeps
<1>6. CASE Tick BY <1>6, TickKeeps
<1>7. CASE Crash BY <1>7, CrashKeeps
<1>8. CASE Boot \/ UNCHANGED vars BY <1>8, OthersKeep
<1> QED BY <1>1, <1>2, <1>3, <1>4, <1>5, <1>6, <1>7, <1>8 DEF Next

(* The inductive invariant holds in every behaviour.                       *)
THEOREM Invariance == Spec => []HInv
BY InitHolds, StepKeeps, PTL DEF Spec

(* Every variable keeps its type.                                          *)
THEOREM MonitoringTyping == Spec => []TypeOK
<1>1. HInv => TypeOK BY DEF HInv
<1> QED BY <1>1, Invariance, PTL

(* No endpoint says that all is well on behalf of a service that was       *)
(* unusable while it was asked, however old the value in Redis and however *)
(* the threads' checks interleave with outages.                            *)
THEOREM AnswersAreHonest == Spec => []HonestAnswers
<1>1. HInv => HonestAnswers BY DEF HInv, ThreadsFit, Fits, Answered, HonestAnswers
<1> QED BY <1>1, Invariance, PTL

(* No endpoint raises an alarm while everything it depends on works: no    *)
(* other thread and no expiry takes the probe's value from under a check.  *)
THEOREM AlarmsAreTrue == Spec => []NoFalseAlarms
<1>1. HInv => NoFalseAlarms BY DEF HInv, ThreadsFit, Fits, Answered, NoFalseAlarms
<1> QED BY <1>1, Invariance, PTL
=============================================================================
