-------------------------- MODULE AuthenticationProofs --------------------------
(***************************************************************************)
(* Theorems about Authentication, for any threads, addresses, callers,     *)
(* lifetimes and bounds: one account per address, no token without its     *)
(* parent revoked, no logged out token accepted, and what a detected reuse *)
(* revokes.                                                                *)
(***************************************************************************)
EXTENDS Authentication, TLAPS

(* What a request under way knows: the rows it names exist, the id it has  *)
(* been given is nobody's yet, what its follow-up rests on is committed,   *)
(* and a detected reuse still reaches every token it saw.                  *)
Fits(me) ==
  /\ me.at # 0 => /\ me.pc = "written" /\ me.op \in {"login", "issue"}
                  /\ me.at <= last /\ tokens[me.at] = NoToken
  /\ IF me.pc = "idle" THEN me.op = "none" ELSE me.op \in Steps /\ me.user \in User
  /\ me.pc = "checked" => me.op = "reuse"
  /\ me.ids \subseteq Issued /\ me.seen \subseteq Issued
  /\ me.op \in NewUser => Normal[me.user] = me.user
  /\ me.op = "rotate" => me.ids = {me.parent}
  /\ me.op \in NewUser \cup {"login"} => me.parent = 0
  /\ me.op \in {"profile", "issue"} => me.caller # "view"
  /\ me.op = "profile" => me.user \in users
  /\ me.op = "issue" => me.parent \in Issued /\ tokens[me.parent].revoked
  /\ me.op = "reuse" => \A i \in me.seen :
       IF me.pc = "checked" THEN tokens[i].user = me.user
                            ELSE i \in me.ids \/ tokens[i].revoked

RequestsFit == \A r \in Requests : Fits(req[r])
IdsApart    == \A q, r \in Requests : q # r /\ req[q].at # 0 => req[q].at # req[r].at
IdsInOrder  == \A i \in Ids : i > last => tokens[i] = NoToken
Accounts    == profiles \subseteq users /\ \A u \in users : Normal[u] = u
MakesProfile(r, u) == req[r].op = "profile" /\ req[r].user = u
Awaited     == used["fail"] = 0 =>
                 \A u \in users \ profiles : \E r \in Requests : MakesProfile(r, u)
Parents     == \A i \in Issued : tokens[i].parent # 0 =>
                 tokens[i].parent \in Issued /\ tokens[tokens[i].parent].revoked
DeniedToEnd == \A i \in out : i \in Issued /\ Exp(i) <= denied[i]

AInv == /\ TypeOK /\ RequestsFit /\ IdsApart /\ IdsInOrder
        /\ Accounts /\ Awaited /\ Parents /\ DeniedToEnd

-----------------------------------------------------------------------------
LEMMA IdleFits ==
  /\ Idle \in Request /\ Fits(Idle)
  /\ Idle.pc = "idle" /\ Idle.op = "none" /\ Idle.at = 0
BY AuthenticationAssumption DEF Idle, Request, Fits, NewUser, Ids

LEMMA TokenFields ==
  ASSUME TypeOK, NEW i \in Issued
  PROVE  /\ i \in Ids /\ tokens[i] \in Token
         /\ tokens[i].user \in User /\ tokens[i].parent \in Ids \cup {0}
         /\ tokens[i].issued \in 0..MaxTime /\ tokens[i].revoked \in BOOLEAN
BY DEF TypeOK, Issued, Token

LEMMA RequestFields ==
  ASSUME TypeOK, NEW r \in Requests
  PROVE  /\ req[r] \in Request
         /\ req[r].pc \in {"idle", "checked", "started", "written"}
         /\ req[r].op \in Steps \cup {"none"} /\ req[r].caller \in Callers \cup {"none"}
         /\ req[r].user \in User \cup {"none"} /\ req[r].parent \in Ids \cup {0}
         /\ req[r].ids \subseteq Ids /\ req[r].at \in Ids \cup {0}
         /\ req[r].time \in 0..MaxTime /\ req[r].seen \subseteq Ids
<1>1. req[r] \in Request BY DEF TypeOK
<1> QED BY <1>1 DEF Request

LEMMA BudgetType ==
  ASSUME TypeOK
  PROVE  /\ \A op \in Ops : Begins(op) =>
              /\ used' \in [Ops \cup {"any", "fail"} -> Nat] /\ used' # used
              /\ used'["fail"] = used["fail"]
         /\ Fails => /\ used' \in [Ops \cup {"any", "fail"} -> Nat] /\ used' # used
                     /\ used'["fail"] # 0
<1>1. used \in [Ops \cup {"any", "fail"} -> Nat] BY DEF TypeOK
<1>2. ASSUME NEW op \in Ops, Begins(op)
      PROVE  /\ used' \in [Ops \cup {"any", "fail"} -> Nat] /\ used'["any"] = used["any"] + 1
             /\ used'["fail"] = used["fail"]
  BY <1>1, <1>2 DEF Begins, Ops
<1>3. ASSUME Fails
      PROVE  used' \in [Ops \cup {"any", "fail"} -> Nat] /\ used'["fail"] = used["fail"] + 1
  BY <1>1, <1>3 DEF Fails
<1>4. used["any"] \in Nat /\ used["fail"] \in Nat BY <1>1
<1>5. ASSUME NEW op \in Ops, Begins(op) PROVE used' # used
  <2>1. used'["any"] # used["any"] BY <1>2, <1>4, <1>5
  <2> QED BY <2>1
<1>6. ASSUME Fails PROVE used'["fail"] # 0 /\ used'["fail"] # used["fail"]
  BY <1>3, <1>4, <1>6
<1>7. Fails => used' # used BY <1>6
<1> QED BY <1>2, <1>3, <1>5, <1>6, <1>7

(* A step of one request that leaves the tokens alone.                     *)
LEMMA RequestStep ==
  ASSUME AInv, NEW r \in Requests, NEW me \in Request,
         req' = [req EXCEPT ![r] = me], UNCHANGED <<data, clock>>,
         last' \in Ids, last' >= last,
         used' \in [Ops \cup {"any", "fail"} -> Nat],
         Fits(me)', me.at # 0 => me.at > last,
         used'["fail"] = 0 => /\ used["fail"] = 0
                              /\ req[r].op = "profile" => me.op = "profile" /\ me.user = req[r].user,
         \/ UNCHANGED <<denied, out>>
         \/ /\ denied' \in [Ids -> 0..(MaxTime + AccessTtl)] /\ out' \subseteq Ids
            /\ DeniedToEnd'
  PROVE  AInv'
<1> USE DEF AInv
<1>1. req \in [Requests -> Request] /\ req' \in [Requests -> Request] BY DEF TypeOK
<1>2. req'[r] = me /\ \A q \in Requests \ {r} : req'[q] = req[q] BY <1>1
<1>3. TypeOK' BY <1>1 DEF TypeOK, data
<1>4. last \in Int /\ last' \in Int /\ \A x \in Ids \cup {0} : x \in Int
  BY AuthenticationAssumption DEF TypeOK, Ids
<1>5. RequestsFit'
  <2>1. ASSUME NEW q \in Requests \ {r} PROVE Fits(req[q])'
    <3>1. Fits(req[q]) BY DEF RequestsFit
    <3>2. req[q].at \in Int /\ req'[q] = req[q]
      BY <1>2, <1>4, RequestFields
    <3> QED BY <3>1, <3>2, <1>4 DEF Fits, Issued, data
  <2> QED BY <2>1, <1>2 DEF RequestsFit
<1>6. IdsApart'
  <2>1. \A q \in Requests : req[q].at # 0 => req[q].at <= last
    BY DEF RequestsFit, Fits
  <2>2. \A q \in Requests : req[q].at \in Int BY <1>4, RequestFields
  <2>3. me.at \in Int BY <1>4 DEF Request
  <2> QED BY <1>2, <1>4, <2>1, <2>2, <2>3 DEF IdsApart
<1>7. IdsInOrder' BY <1>4 DEF IdsInOrder, data
<1>8. Accounts' /\ Parents' BY DEF Accounts, Parents, Issued, data
<1>9. DeniedToEnd' BY DEF DeniedToEnd, Issued, Exp, data
<1>10. Awaited'
  <2>1. ASSUME used'["fail"] = 0, NEW u \in users \ profiles
        PROVE  \E q \in Requests : MakesProfile(q, u)'
    <3>1. PICK q \in Requests : MakesProfile(q, u) BY <2>1 DEF Awaited
    <3>2. req'[q].op = "profile" /\ req'[q].user = u
      BY <1>2, <2>1, <3>1 DEF MakesProfile
    <3> QED BY <3>2 DEF MakesProfile
  <2> QED BY <2>1 DEF Awaited, data
<1> QED BY <1>3, <1>5, <1>6, <1>7, <1>8, <1>9, <1>10

(* The checks of an operation are passed.                                  *)
LEMMA CheckedKeeps ==
  ASSUME AInv, NEW r \in Requests, NEW op \in Ops, NEW u \in User,
         NEW parent \in Ids \cup {0}, NEW pc \in {"checked", "started"},
         NEW ids \in SUBSET Issued, NEW c,
         Checked(r, c, op, u, parent, pc, ids),
         op \in NewUser => Normal[u] = u,
         op = "rotate" => ids = {parent},
         op \in NewUser \cup {"login"} => parent = 0,
         op = "reuse" <=> pc = "checked",
         \/ UNCHANGED <<denied, out>>
         \/ /\ denied' \in [Ids -> 0..(MaxTime + AccessTtl)] /\ out' \subseteq Ids
            /\ DeniedToEnd'
  PROVE  AInv'
<1>1. /\ c \in Callers /\ req[r].pc = "idle"
      /\ req' = [req EXCEPT ![r] =
                  [pc |-> pc, op |-> op, caller |-> c, user |-> u, parent |-> parent,
                   ids |-> ids, at |-> 0, time |-> 0, seen |-> Of(u)]]
  BY DEF Checked
<1>2. /\ UNCHANGED <<data, last, clock>> /\ used' \in [Ops \cup {"any", "fail"} -> Nat]
      /\ used'["fail"] = used["fail"]
  BY BudgetType DEF Checked, AInv
<1>3. Of(u) \subseteq Issued /\ Issued \subseteq Ids /\ 0 \in 0..MaxTime
  BY AuthenticationAssumption DEF Of, Issued
<1>4. PICK me \in Request :
        me = [pc |-> pc, op |-> op, caller |-> c, user |-> u, parent |-> parent,
              ids |-> ids, at |-> 0, time |-> 0, seen |-> Of(u)]
  BY <1>1, <1>3 DEF Request, Steps
<1>5. Fits(me)' BY <1>2, <1>3, <1>4 DEF Fits, Issued, data, Of, Steps, Ops, NewUser
<1>6. last' \in Ids /\ last' >= last
  BY <1>2, AuthenticationAssumption DEF AInv, TypeOK, Ids
<1>7. me.at = 0 /\ req' = [req EXCEPT ![r] = me] BY <1>1, <1>4
<1>8. req[r].op # "profile" BY <1>1 DEF AInv, RequestsFit, Fits
<1> QED BY <1>2, <1>5, <1>6, <1>7, <1>8, RequestStep

LEMMA BeginKeeps ==
  ASSUME AInv, NEW r \in Requests, Begin(r)
  PROVE  AInv'
<1> USE DEF AInv
<1>0. {"register", "oauth", "login", "rotate", "reuse", "logout"} = Ops /\ 0 \in Ids \cup {0}
      /\ {} \subseteq Issued /\ NewUser = {"register", "oauth"}
  BY DEF Ops, NewUser
<1>1. ASSUME NEW c, NEW s \in Spellings, Register(r, c, s) PROVE AInv'
  <2>1. Stored(s) \in User /\ Normal[Stored(s)] = Stored(s)
    BY AuthenticationAssumption DEF Stored, User
  <2>2. Checked(r, c, "register", Stored(s), 0, "started", {}) /\ UNCHANGED <<denied, out>>
    BY <1>1 DEF Register
  <2> QED BY <1>0, <2>1, <2>2, CheckedKeeps
<1>2. ASSUME NEW s \in Spellings, OAuth(r, s) PROVE AInv'
  <2>1. s \in User /\ Normal[s] = s BY <1>2 DEF OAuth, User
  <2>2. Checked(r, "service", "oauth", s, 0, "started", {}) /\ UNCHANGED <<denied, out>>
    BY <1>2 DEF OAuth
  <2> QED BY <1>0, <2>1, <2>2, CheckedKeeps
<1>3. ASSUME NEW c, NEW u \in users, Login(r, c, u) PROVE AInv'
  <2>1. u \in User BY DEF TypeOK
  <2>2. Checked(r, c, "login", u, 0, "started", {}) /\ UNCHANGED <<denied, out>>
    BY <1>3 DEF Login
  <2> QED BY <1>0, <2>1, <2>2, CheckedKeeps
<1>4. ASSUME NEW c, NEW i \in Issued, Refresh(r, c, i) PROVE AInv'
  <2>1. i \in Ids \cup {0} /\ tokens[i].user \in User /\ {i} \subseteq Issued
    BY TokenFields
  <2>2. UNCHANGED <<denied, out>> BY <1>4 DEF Refresh
  <2>3. CASE Checked(r, c, "reuse", tokens[i].user, i, "checked", {})
    BY <1>0, <2>1, <2>2, <2>3, CheckedKeeps
  <2>4. CASE Checked(r, c, "rotate", tokens[i].user, i, "started", {i})
    BY <1>0, <2>1, <2>2, <2>4, CheckedKeeps
  <2> QED BY <1>4, <2>3, <2>4 DEF Refresh
<1>5. ASSUME NEW c, NEW i \in Issued, NEW j \in Issued \cup {0}, Logout(r, c, i, j) PROVE AInv'
  <2>1. \/ UNCHANGED <<denied, out>>
        \/ /\ denied' \in [Ids -> 0..(MaxTime + AccessTtl)] /\ out' \subseteq Ids
           /\ DeniedToEnd'
    <3>1. CASE UNCHANGED <<denied, out>> BY <3>1
    <3>2. CASE /\ denied' = [denied EXCEPT ![i] = DenialEnd(i)]
               /\ out' = out \cup {i}
      <4>1. UNCHANGED tokens
        BY <1>5 DEF Logout, Checked, data
      <4>2. Exp(i) \in 0..(MaxTime + AccessTtl)
        BY TokenFields, AuthenticationAssumption DEF Exp
      <4>3. denied' \in [Ids -> 0..(MaxTime + AccessTtl)] /\ out' \subseteq Ids
        BY <3>2, <4>2, TokenFields DEF TypeOK, DenialEnd
      <4>4. DeniedToEnd'
        <5>1. ASSUME NEW k \in out' PROVE (k \in Issued /\ Exp(k) <= denied[k])'
          <6>1. CASE k = i
            BY <3>2, <4>1, <4>2, <6>1, TokenFields DEF TypeOK, DenialEnd, Issued, Exp
          <6>2. CASE k # i
            BY <3>2, <4>1, <6>2 DEF DeniedToEnd, TypeOK, Issued, Exp
          <6> QED BY <6>1, <6>2
        <5> QED BY <5>1 DEF DeniedToEnd
      <4> QED BY <4>3, <4>4
    <3> QED BY <1>5, <3>1, <3>2 DEF Logout
  <2>2. CASE j # 0
    <3>1. Checked(r, c, "logout", tokens[j].user, j, "started", {j}) BY <1>5, <2>2 DEF Logout
    <3>2. j \in Ids \cup {0} /\ tokens[j].user \in User /\ {j} \subseteq Issued
      BY <2>2, TokenFields
    <3>3. "logout" \in Ops /\ "logout" \notin NewUser \cup {"login"} /\ {j} \in SUBSET Issued
      BY <1>0, <3>2
    <3> QED BY <2>1, <3>1, <3>2, <3>3, CheckedKeeps
  <2>3. CASE j = 0
    <3>1. /\ UNCHANGED <<data, last, clock, req>> /\ used' \in [Ops \cup {"any", "fail"} -> Nat]
          /\ used'["fail"] = used["fail"]
      BY <1>5, <2>3, <1>0, BudgetType DEF Logout
    <3>2. req' = [req EXCEPT ![r] = req[r]] BY <3>1 DEF TypeOK
    <3>3. Fits(req[r])' BY <3>1 DEF RequestsFit, Fits, Issued, data
    <3>4. TypeOK' /\ RequestsFit' /\ IdsApart' /\ IdsInOrder' /\ Accounts' /\ Parents'
          /\ Awaited'
      BY <2>1, <3>1 DEF TypeOK, data, RequestsFit, Fits, Issued, IdsApart, IdsInOrder,
                        Accounts, Parents, Awaited, MakesProfile
    <3>5. DeniedToEnd' BY <2>1, <3>1 DEF DeniedToEnd, Issued, Exp, data
    <3> QED BY <3>4, <3>5
  <2> QED BY <2>2, <2>3
<1> QED BY <1>1, <1>2, <1>3, <1>4, <1>5 DEF Begin

LEMMA StartKeeps ==
  ASSUME AInv, NEW r \in Requests, Start(r)
  PROVE  AInv'
<1>1. req \in [Requests -> Request] /\ req[r] \in Request /\ Fits(req[r])
  BY DEF AInv, TypeOK, RequestsFit
<1>2. RevokedByReuse(r) \subseteq Issued /\ Issued \subseteq Ids
  BY DEF RevokedByReuse, Live, Of, Issued
<1>3. PICK me \in Request :
        me = [req[r] EXCEPT !.pc = "started", !.ids = RevokedByReuse(r)]
  BY <1>1, <1>2 DEF Request
<1>4. /\ me.pc = "started" /\ me.ids = RevokedByReuse(r)
      /\ me.op = req[r].op /\ me.user = req[r].user /\ me.parent = req[r].parent
      /\ me.at = req[r].at /\ me.seen = req[r].seen /\ me.caller = req[r].caller
  BY <1>1, <1>3 DEF Request
<1>5. /\ req' = [req EXCEPT ![r] = me] /\ req[r].pc = "checked"
      /\ UNCHANGED <<data, last, denied, out, clock, used>>
  BY <1>1, <1>3 DEF Start
<1>6. me.at = 0 /\ me.op = "reuse" BY <1>1, <1>4, <1>5 DEF Fits
<1>7. \A i \in me.seen : i \in me.ids \/ tokens[i].revoked
  BY <1>1, <1>4, <1>5, <1>6 DEF Fits, RevokedByReuse, Live, Of
<1>8. Fits(me)' BY <1>1, <1>2, <1>4, <1>5, <1>6, <1>7 DEF Fits, Issued, data, NewUser
<1>9. last' \in Ids /\ last' >= last /\ used' \in [Ops \cup {"any", "fail"} -> Nat]
  BY <1>5, AuthenticationAssumption DEF AInv, TypeOK, Ids
<1> QED BY <1>4, <1>5, <1>6, <1>8, <1>9, RequestStep

(* The first disjunct ends at once, on an address that is taken.           *)
LEMMA WriteKeeps ==
  ASSUME AInv, NEW r \in Requests, Write(r)
  PROVE  AInv'
<1> DEFINE at == IF req[r].op \in {"login", "issue"} THEN last + 1 ELSE 0
<1>1. req \in [Requests -> Request] /\ req[r] \in Request /\ Fits(req[r])
  BY DEF AInv, TypeOK, RequestsFit
<1>2. last \in Nat /\ last \in Ids /\ MaxTokens \in Nat /\ clock \in 0..MaxTime /\ 0 \in 0..MaxTime
  BY AuthenticationAssumption DEF AInv, TypeOK, Ids
<1>3. /\ req[r].pc = "started" /\ at <= MaxTokens
      /\ UNCHANGED <<data, denied, out, clock, used>>
  BY DEF Write
<1>4. used' \in [Ops \cup {"any", "fail"} -> Nat] BY <1>3 DEF AInv, TypeOK
<1>5. CASE req[r].op \in NewUser /\ req' = [req EXCEPT ![r] = Idle] /\ UNCHANGED last
  <2>1. Fits(Idle)' BY IdleFits DEF Fits, Idle
  <2>2. last' \in Ids /\ last' >= last /\ UNCHANGED <<data, clock>> /\ UNCHANGED <<denied, out>>
    BY <1>2, <1>3, <1>5
  <2>3. req[r].op # "profile" BY <1>5 DEF NewUser
  <2> QED BY <1>3, <1>4, <1>5, <2>1, <2>2, <2>3, IdleFits, RequestStep
<1>6. CASE /\ req' = [req EXCEPT ![r].pc = "written", ![r].at = at,
                                 ![r].time = IF at = 0 THEN 0 ELSE clock]
           /\ last' = IF at = 0 THEN last ELSE at
  <2>1. at \in Ids \cup {0} /\ (IF at = 0 THEN 0 ELSE clock) \in 0..MaxTime
        /\ (at # 0 => req[r].op \in {"login", "issue"} /\ at = last + 1)
    BY <1>2, <1>3 DEF Ids
  <2> HIDE DEF at
  <2>2. PICK me \in Request :
          me = [req[r] EXCEPT !.pc = "written", !.at = at,
                              !.time = IF at = 0 THEN 0 ELSE clock]
    BY <1>1, <2>1 DEF Request
  <2>3. /\ me.pc = "written" /\ me.ids = req[r].ids
        /\ me.op = req[r].op /\ me.user = req[r].user /\ me.parent = req[r].parent
        /\ me.at = at /\ me.seen = req[r].seen /\ me.caller = req[r].caller
    BY <1>1, <2>2 DEF Request
  <2>4. req' = [req EXCEPT ![r] = me] BY <1>1, <1>6, <2>2
  <2>5. last' \in Ids /\ last' >= last /\ (at # 0 => at > last /\ at <= last')
    BY <1>2, <1>6, <2>1
  <2>6. at # 0 => tokens[at] = NoToken
    BY <1>2, <2>1 DEF AInv, IdsInOrder
  <2>7. Fits(me)'
    BY <1>1, <1>3, <2>1, <2>3, <2>5, <2>6 DEF Fits, Issued, data
  <2> QED BY <1>3, <1>4, <2>3, <2>4, <2>5, <2>7, RequestStep
<1> QED BY <1>5, <1>6 DEF Write

LEMMA UndoneKeeps ==
  ASSUME AInv, NEW r \in Requests, Rollback(r) \/ Fail(r)
  PROVE  AInv'
<1>1. /\ req' = [req EXCEPT ![r] = Idle] /\ UNCHANGED <<data, last, denied, out, clock>>
      /\ used' \in [Ops \cup {"any", "fail"} -> Nat]
      /\ used'["fail"] = 0 => used["fail"] = 0 /\ req[r].op # "profile"
  <2>1. CASE Rollback(r)
    BY <2>1 DEF Rollback, Undone, Misfit, AInv, TypeOK, RequestsFit, Fits
  <2>2. CASE Fail(r)
    BY <2>2, BudgetType DEF Fail, Undone, AInv
  <2> QED BY <2>1, <2>2
<1>2. last' \in Ids /\ last' >= last
  BY <1>1, AuthenticationAssumption DEF AInv, TypeOK, Ids
<1>3. Fits(Idle)' BY IdleFits DEF Fits, Idle
<1> QED BY <1>1, <1>2, <1>3, IdleFits, RequestStep

(* Redis loses an entry; time passes.                                      *)
LEMMA OutsideKeeps ==
  ASSUME AInv, Tick \/ \E i \in Ids : Evict(i)
  PROVE  AInv'
<1>1. UNCHANGED <<data, last, req, used>> /\ out' \subseteq out
  BY DEF Tick, Evict
<1>2. /\ clock' \in 0..MaxTime /\ denied' \in [Ids -> 0..(MaxTime + AccessTtl)]
      /\ \A i \in out' : denied'[i] = denied[i]
  BY AuthenticationAssumption DEF Tick, Evict, AInv, TypeOK
<1>3. TypeOK' BY <1>1, <1>2 DEF AInv, TypeOK, data
<1>4. RequestsFit' /\ IdsApart' /\ IdsInOrder' /\ Accounts' /\ Awaited' /\ Parents'
  BY <1>1 DEF AInv, data, RequestsFit, Fits, Issued, IdsApart, IdsInOrder, Accounts, Awaited,
              MakesProfile, Parents
<1>5. DeniedToEnd' BY <1>1, <1>2 DEF AInv, DeniedToEnd, Issued, Exp, data
<1> QED BY <1>3, <1>4, <1>5 DEF AInv

-----------------------------------------------------------------------------
(* The commit.  What it leaves of each token; then each part of AInv.      *)
LEMMA CommitRows ==
  ASSUME AInv, NEW r \in Requests, Commit(r)
  PROVE  /\ tokens' \in [Ids -> Token \cup {NoToken}]
         /\ \A i \in Ids : i # req[r].at =>
              /\ i \in Issued' <=> i \in Issued
              /\ i \in Issued => /\ tokens'[i].user = tokens[i].user
                                 /\ tokens'[i].parent = tokens[i].parent
                                 /\ tokens'[i].issued = tokens[i].issued
                                 /\ tokens[i].revoked \/ i \in req[r].ids => tokens'[i].revoked
         /\ req[r].at # 0 => /\ req[r].at \in Issued' /\ req[r].at \notin Issued
                             /\ tokens'[req[r].at].parent = req[r].parent
<1>1. Fits(req[r]) BY DEF AInv, RequestsFit
<1> DEFINE row(i) == CASE i = req[r].at    -> [user |-> req[r].user, parent |-> req[r].parent,
                                               issued |-> req[r].time, revoked |-> FALSE]
                       [] i \in req[r].ids -> RevokedRow(tokens[i])
                       [] OTHER            -> tokens[i]
<1>2. tokens' = [i \in Ids |-> row(i)] BY DEF Commit
<1>3. \A i \in Ids : tokens'[i] =
        IF i = req[r].at THEN [user |-> req[r].user, parent |-> req[r].parent,
                               issued |-> req[r].time, revoked |-> FALSE]
        ELSE IF i \in req[r].ids THEN RevokedRow(tokens[i]) ELSE tokens[i]
  <2> SUFFICES ASSUME NEW i \in Ids
               PROVE  tokens'[i] =
                 IF i = req[r].at THEN [user |-> req[r].user, parent |-> req[r].parent,
                                        issued |-> req[r].time, revoked |-> FALSE]
                 ELSE IF i \in req[r].ids THEN RevokedRow(tokens[i]) ELSE tokens[i]
    OBVIOUS
  <2>1. tokens'[i] = row(i) BY <1>2
  <2>2. CASE i = req[r].at
    <3>1. i \notin req[r].ids
      BY <1>1, <2>2, AuthenticationAssumption DEF Fits, Issued, Ids
    <3> QED BY <2>1, <2>2, <3>1
  <2>3. CASE i # req[r].at /\ i \in req[r].ids BY <2>1, <2>3
  <2>4. CASE i # req[r].at /\ i \notin req[r].ids BY <2>1, <2>4
  <2> QED BY <2>2, <2>3, <2>4
<1> HIDE DEF row
<1>4. \A i \in Issued : /\ RevokedRow(tokens[i]) \in Token /\ RevokedRow(tokens[i]) # NoToken
                        /\ RevokedRow(tokens[i]).user = tokens[i].user
                        /\ RevokedRow(tokens[i]).parent = tokens[i].parent
                        /\ RevokedRow(tokens[i]).issued = tokens[i].issued
                        /\ RevokedRow(tokens[i]).revoked
  BY TokenFields DEF AInv, RevokedRow, Token, NoToken
<1>5. req[r].at # 0 =>
        /\ req[r].at \in Ids /\ tokens[req[r].at] = NoToken
        /\ [user |-> req[r].user, parent |-> req[r].parent,
            issued |-> req[r].time, revoked |-> FALSE] \in Token
  BY <1>1, RequestFields DEF Fits, AInv, Token, Commit
<1>6. [user |-> req[r].user, parent |-> req[r].parent,
       issued |-> req[r].time, revoked |-> FALSE] # NoToken
  BY DEF NoToken
<1>7. req[r].ids \subseteq Issued BY <1>1 DEF Fits
<1>8. tokens \in [Ids -> Token \cup {NoToken}] BY DEF AInv, TypeOK
<1>9. ASSUME NEW i \in Ids PROVE tokens'[i] \in Token \cup {NoToken}
  <2>1. tokens[i] \in Token \cup {NoToken} BY <1>8
  <2>2. CASE i = req[r].at
    <3>1. req[r].at # 0 BY <2>2, AuthenticationAssumption DEF Ids
    <3> QED BY <1>3, <1>5, <2>2, <3>1
  <2>3. CASE i # req[r].at /\ i \in req[r].ids BY <1>3, <1>4, <1>7, <2>3
  <2>4. CASE i # req[r].at /\ i \notin req[r].ids BY <1>3, <2>1, <2>4
  <2> QED BY <2>2, <2>3, <2>4
<1>10. tokens' \in [Ids -> Token \cup {NoToken}] BY <1>2, <1>9
<1>11. ASSUME NEW i \in Ids, i # req[r].at
       PROVE  /\ i \in Issued' <=> i \in Issued
              /\ i \in Issued => /\ tokens'[i].user = tokens[i].user
                                 /\ tokens'[i].parent = tokens[i].parent
                                 /\ tokens'[i].issued = tokens[i].issued
                                 /\ tokens[i].revoked \/ i \in req[r].ids => tokens'[i].revoked
  <2>1. CASE i \in req[r].ids BY <1>3, <1>4, <1>7, <1>11, <2>1 DEF Issued
  <2>2. CASE i \notin req[r].ids BY <1>3, <1>11, <2>2 DEF Issued
  <2> QED BY <2>1, <2>2
<1>12. req[r].at # 0 => /\ req[r].at \in Issued' /\ req[r].at \notin Issued
                        /\ tokens'[req[r].at].parent = req[r].parent
  BY <1>3, <1>5, <1>6 DEF Issued
<1> QED BY <1>10, <1>11, <1>12

(* What is left to do after the commit: a script's next statement finds    *)
(* what it rests on committed.                                             *)
LEMMA RestFits ==
  ASSUME AInv, NEW r \in Requests, Commit(r)
  PROVE  \E me \in Request : me = Rest(req[r]) /\ Fits(me)' /\ me.at = 0
<1>1. /\ req[r] \in Request /\ Fits(req[r]) /\ req[r].pc = "written" /\ ~Misfit(r)
      /\ UNCHANGED last
  BY RequestFields DEF AInv, RequestsFit, Commit
<1>2. DOMAIN FollowUp = {"register", "rotate"}
      /\ FollowUp["register"] = "profile" /\ FollowUp["rotate"] = "issue"
  BY DEF FollowUp
<1>3. CASE req[r].op \notin DOMAIN FollowUp
  <2>1. Rest(req[r]) = Idle BY <1>3 DEF Rest
  <2>2. PICK me \in Request : me = Idle BY IdleFits
  <2>3. Fits(me)' BY <2>2, IdleFits DEF Fits, Idle, NewUser
  <2> QED BY <2>1, <2>2, <2>3, IdleFits
<1>4. CASE req[r].op \in DOMAIN FollowUp
  <2>1. PICK me \in Request :
          me = [req[r] EXCEPT !.pc = "started", !.op = FollowUp[req[r].op], !.ids = {}]
    BY <1>1, <1>2, <1>4 DEF Request, Steps
  <2>2. /\ me.pc = "started" /\ me.op = FollowUp[req[r].op] /\ me.ids = {}
        /\ me.user = req[r].user /\ me.parent = req[r].parent /\ me.seen = req[r].seen
        /\ me.at = req[r].at /\ me.caller = req[r].caller
    BY <1>1, <2>1 DEF Request
  <2>3. Rest(req[r]) = me BY <1>4, <2>1 DEF Rest
  <2>4. me.at = 0 /\ me.caller # "view" /\ me.user \in User
    BY <1>1, <1>2, <1>4, <2>2 DEF Fits, Misfit
  <2>5. 0 \notin Ids BY AuthenticationAssumption DEF Ids
  <2>6. Issued \subseteq Issued'
    BY <1>1, <2>2, <2>4, <2>5, CommitRows DEF Issued
  <2>7. req[r].op = "register" => me.user \in users'
    BY <2>2 DEF Commit, NewUser
  <2>8. req[r].op = "rotate" => me.parent \in Issued' /\ tokens'[me.parent].revoked
    <3>1. req[r].op = "rotate" => me.parent \in Issued /\ me.parent \in req[r].ids
      BY <1>1, <2>2 DEF Fits
    <3>2. me.parent \in Issued => me.parent \in Ids /\ me.parent # req[r].at
      BY <2>2, <2>4, <2>5 DEF Issued
    <3> QED BY <2>6, <3>1, <3>2, CommitRows
  <2>9. me.op \in {"profile", "issue"} /\ me.seen \subseteq Issued'
    BY <1>1, <1>2, <1>4, <2>2, <2>6 DEF Fits
  <2>10. me.op = "profile" => req[r].op = "register" BY <1>2, <1>4, <2>2
  <2>11. me.op = "issue" => req[r].op = "rotate" BY <1>2, <1>4, <2>2
  <2>12. Fits(me)'
    BY <2>2, <2>4, <2>7, <2>8, <2>9, <2>10, <2>11 DEF Fits, Steps, NewUser
  <2> QED BY <2>3, <2>4, <2>12
<1> QED BY <1>3, <1>4

LEMMA CommitKeeps ==
  ASSUME AInv, NEW r \in Requests, Commit(r)
  PROVE  AInv'
<1> USE DEF AInv
<1>1. /\ req \in [Requests -> Request] /\ req' = [req EXCEPT ![r] = Rest(req[r])]
      /\ UNCHANGED <<last, denied, out, clock, used>> /\ req[r].pc = "written" /\ ~Misfit(r)
  BY DEF Commit, TypeOK
<1>2. Fits(req[r]) BY DEF RequestsFit
<1>3. \A i \in Issued : i \in Ids /\ i # req[r].at
  <2>1. 0 \notin Ids BY AuthenticationAssumption DEF Ids
  <2> QED BY <1>2, <2>1 DEF Fits, Issued
<1>4. Issued \subseteq Issued' /\ Issued' \subseteq Ids
  BY <1>3, CommitRows DEF Issued
<1>5. \A i \in Issued : tokens'[i].user = tokens[i].user /\ (tokens[i].revoked => tokens'[i].revoked)
  BY <1>4, <1>3, CommitRows
<1>6. Accounts' /\ users' \subseteq User /\ profiles' \subseteq User /\ users \subseteq users'
  <2>1. /\ users' = IF req[r].op \in NewUser THEN users \cup {req[r].user} ELSE users
        /\ profiles' = IF req[r].op \in {"profile", "oauth"} THEN profiles \cup {req[r].user}
                       ELSE profiles
    BY DEF Commit, ProfileOf
  <2>2. req[r].op \in NewUser => req[r].user \in User /\ Normal[req[r].user] = req[r].user
    BY <1>1, <1>2 DEF Fits
  <2>3. req[r].op \in {"profile", "oauth"} => req[r].user \in users'
    BY <1>2, <2>1 DEF Fits, NewUser
  <2> QED BY <2>1, <2>2, <2>3 DEF Accounts, TypeOK
<1>0. PICK rest \in Request : rest = Rest(req[r]) /\ Fits(rest)' /\ rest.at = 0
  BY RestFits
<1>7. TypeOK' BY <1>0, <1>1, <1>6, CommitRows DEF TypeOK
<1>8. RequestsFit'
  <2>2. ASSUME NEW q \in Requests \ {r} PROVE Fits(req[q])'
    <3>1. Fits(req[q]) /\ req'[q] = req[q] BY <1>1 DEF RequestsFit
    <3>2. req[q].at # 0 => req[q].at # req[r].at BY DEF IdsApart
    <3>3. req[q].at # 0 => tokens'[req[q].at] = NoToken
      <4>1. req[q].at # 0 => req[q].at \in Ids /\ req[q].at \notin Issued
        BY <3>1, RequestFields DEF Fits, Issued
      <4> QED BY <3>2, <4>1, CommitRows DEF Issued
    <3>4. req[q].ids \subseteq Issued' /\ req[q].seen \subseteq Issued'
      BY <1>4, <3>1 DEF Fits
    <3>5. req[q].op = "reuse" => \A i \in req[q].seen :
            IF req[q].pc = "checked" THEN tokens'[i].user = req[q].user
                                     ELSE i \in req[q].ids \/ tokens'[i].revoked
      BY <1>5, <3>1 DEF Fits
    <3>6. req[q].op = "issue" => req[q].parent \in Issued' /\ tokens'[req[q].parent].revoked
      BY <1>4, <1>5, <3>1 DEF Fits
    <3> QED BY <1>1, <1>6, <3>1, <3>3, <3>4, <3>5, <3>6 DEF Fits
  <2>3. req'[r] = rest BY <1>0, <1>1
  <2>4. Fits(req[r])' BY <1>0, <2>3 DEF Fits
  <2> QED BY <2>2, <2>4 DEF RequestsFit
<1>9. IdsApart' BY <1>0, <1>1 DEF IdsApart
<1>10. IdsInOrder'
  <2>1. ASSUME NEW i \in Ids, i > last PROVE tokens'[i] = NoToken
    <3>1. i # req[r].at
      BY <1>2, <2>1, AuthenticationAssumption DEF Fits, TypeOK, Ids
    <3>2. i \notin Issued BY <2>1 DEF IdsInOrder, Issued
    <3> QED BY <3>1, <3>2, CommitRows DEF Issued
  <2> QED BY <1>1, <2>1 DEF IdsInOrder
<1>11. Parents'
  <2>1. ASSUME NEW i \in Issued', tokens'[i].parent # 0
        PROVE  tokens'[i].parent \in Issued' /\ tokens'[tokens'[i].parent].revoked
    <3>1. CASE i = req[r].at
      <4>1. req[r].at # 0 BY <1>4, <3>1, AuthenticationAssumption DEF Ids
      <4>2. tokens'[i].parent = req[r].parent BY <3>1, <4>1, CommitRows
      <4>3. req[r].op = "issue" BY <1>2, <2>1, <4>1, <4>2 DEF Fits
      <4>4. req[r].parent \in Issued /\ tokens[req[r].parent].revoked BY <1>2, <4>3 DEF Fits
      <4> QED BY <1>4, <1>5, <4>2, <4>4
    <3>2. CASE i # req[r].at
      <4>1. i \in Issued /\ tokens'[i].parent = tokens[i].parent
        BY <1>4, <3>2, CommitRows
      <4>2. tokens[i].parent \in Issued /\ tokens[tokens[i].parent].revoked
        BY <2>1, <4>1 DEF Parents
      <4> QED BY <1>4, <1>5, <4>1, <4>2
    <3> QED BY <3>1, <3>2
  <2> QED BY <2>1 DEF Parents
<1>12. DeniedToEnd'
  BY <1>1, <1>4, <1>3, CommitRows DEF DeniedToEnd, Exp
<1>13. Awaited'
  <2>1. ASSUME used["fail"] = 0, NEW u \in users' \ profiles'
        PROVE  \E q \in Requests : MakesProfile(q, u)'
    <3>1. CASE u \in users \ profiles
      <4>1. PICK q \in Requests : MakesProfile(q, u) BY <2>1, <3>1 DEF Awaited
      <4>2. q # r BY <2>1, <4>1 DEF Commit, ProfileOf, MakesProfile
      <4> QED BY <1>1, <4>1, <4>2 DEF MakesProfile
    <3>2. CASE u \notin users \ profiles
      <4>1. req[r].op = "register" /\ req[r].user = u
        BY <2>1, <3>2 DEF Commit, ProfileOf, NewUser
      <4>2. req'[r].op = "profile" /\ req'[r].user = u
        BY <1>1, <4>1, RequestFields DEF Rest, FollowUp, Request
      <4> QED BY <4>2 DEF MakesProfile
    <3> QED BY <3>1, <3>2
  <2> QED BY <1>1, <2>1 DEF Awaited
<1> QED BY <1>6, <1>7, <1>8, <1>9, <1>10, <1>11, <1>12, <1>13

-----------------------------------------------------------------------------
LEMMA InitHolds == Init => AInv
<1> SUFFICES ASSUME Init PROVE AInv
    OBVIOUS
<1>1. PICK u \in Spellings : users = {u} /\ Normal[u] = u
  <2>1. PICK s \in Spellings : s = CHOOSE x \in Spellings : TRUE
    BY AuthenticationAssumption
  <2> QED BY <2>1, AuthenticationAssumption DEF Init
<1>2. PICK i1 \in Ids : i1 = 1 BY AuthenticationAssumption DEF Ids
<1>3. tokens = [i \in Ids |-> IF i = 1 THEN [user |-> u, parent |-> 0, issued |-> 0, revoked |-> FALSE]
                              ELSE NoToken]
  BY <1>1 DEF Init
<1>4. [user |-> u, parent |-> 0, issued |-> 0, revoked |-> FALSE] \in Token
  BY <1>1, AuthenticationAssumption DEF Token, User
<1>5. TypeOK
  <2>1. tokens \in [Ids -> Token \cup {NoToken}] BY <1>3, <1>4
  <2>2. users \subseteq User /\ profiles \subseteq User BY <1>1 DEF Init, User
  <2>3. denied \in [Ids -> 0..(MaxTime + AccessTtl)] BY AuthenticationAssumption DEF Init
  <2>4. last \in Ids /\ out \subseteq Ids /\ clock \in 0..MaxTime
    BY <1>2, AuthenticationAssumption DEF Init
  <2>5. req \in [Requests -> Request] BY IdleFits DEF Init
  <2>6. used \in [Ops \cup {"any", "fail"} -> Nat] BY DEF Init
  <2> QED BY <2>1, <2>2, <2>3, <2>4, <2>5, <2>6 DEF TypeOK
<1>6. RequestsFit /\ IdsApart BY IdleFits DEF Init, RequestsFit, IdsApart
<1>7. IdsInOrder /\ Parents
  BY <1>3, AuthenticationAssumption DEF Init, IdsInOrder, Parents, Issued, Ids
<1>8. Accounts /\ Awaited /\ DeniedToEnd BY <1>1 DEF Init, Accounts, Awaited, DeniedToEnd
<1> QED BY <1>5, <1>6, <1>7, <1>8 DEF AInv

LEMMA StepKeeps == AInv /\ [Next]_vars => AInv'
<1> SUFFICES ASSUME AInv, [Next]_vars PROVE AInv'
    OBVIOUS
<1>1. CASE UNCHANGED vars
  BY <1>1 DEF vars, data, AInv, TypeOK, RequestsFit, Fits, Issued, IdsApart, IdsInOrder,
              Accounts, Awaited, MakesProfile, Parents, DeniedToEnd, Exp
<1>2. CASE Next
  BY <1>2, BeginKeeps, StartKeeps, WriteKeeps, CommitKeeps, UndoneKeeps, OutsideKeeps DEF Next
<1> QED BY <1>1, <1>2

(* Types, and all that AInv says of requests, accounts and tokens.         *)
THEOREM Invariance == Spec => []AInv
BY InitHolds, StepKeeps, PTL DEF Spec

(* Every reachable state is type correct.                                  *)
THEOREM AuthenticationTyping == Spec => []TypeOK
<1>1. AInv => TypeOK BY DEF AInv
<1> QED BY <1>1, Invariance, PTL

(* However registrations and sign-ins of one address interleave, it has one*)
(* account, and the only ones without a profile are those whose making     *)
(* failed half way or is not finished.                                     *)
THEOREM AccountsAreUnique == Spec => []OneAccountPerAddress
<1>1. AInv => OneAccountPerAddress BY DEF AInv, Accounts, Awaited, MakesProfile, OneAccountPerAddress
<1> QED BY <1>1, Invariance, PTL

(* A token that came in exchange for another is never there with that one  *)
(* still good: the parent's revocation is committed first.                 *)
THEOREM RotationRevokesFirst == Spec => []ParentRevoked
<1>1. AInv => ParentRevoked BY DEF AInv, Parents, ParentRevoked
<1> QED BY <1>1, Invariance, PTL

(* A logged out access token is not accepted while Redis keeps its entry.  *)
THEOREM LogoutLasts == Spec => []LoggedOutRefused
<1>1. ASSUME AInv PROVE LoggedOutRefused
  <2>1. ASSUME NEW i \in out PROVE ~Accepts(i)
    <3>1. i \in Issued /\ Exp(i) <= denied[i] BY <1>1, <2>1 DEF AInv, DeniedToEnd
    <3>2. Exp(i) \in Int /\ clock \in Int /\ denied[i] \in Int
      BY <1>1, <3>1, TokenFields, AuthenticationAssumption DEF AInv, TypeOK, Exp
    <3> QED BY <3>1, <3>2 DEF Accepts
  <2> QED BY <2>1 DEF LoggedOutRefused
<1> QED BY <1>1, Invariance, PTL

(* Only its commit and its rollback end a request that met a reuse.        *)
LEMMA ReuseEnding ==
  ASSUME AInv, Next, NEW r \in Requests, ReuseEnds(r)
  PROVE  Commit(r) \/ Rollback(r)
<1>1. req[r].op = "reuse" /\ req'[r] = Idle /\ used' = used /\ Idle.op = "none" /\ Idle.pc = "idle"
  BY IdleFits DEF ReuseEnds
<1>2. req \in [Requests -> Request] BY DEF AInv, TypeOK
<1>3. req'[r] # req[r] BY <1>1
<1>4. ASSUME NEW q \in Requests, Begin(q) PROVE FALSE
  <2>1. \A op \in Ops : ~Begins(op) BY <1>1, BudgetType DEF AInv
  <2>2. {"register", "oauth", "login", "rotate", "reuse", "logout"} \subseteq Ops BY DEF Ops
  <2> QED BY <1>4, <2>1, <2>2 DEF Begin, Register, OAuth, Login, Refresh, Logout, Checked
<1>5. ASSUME NEW q \in Requests, Fail(q) PROVE FALSE
  BY <1>1, <1>5, BudgetType DEF Fail, AInv
<1>6. ASSUME NEW q \in Requests, Start(q) PROVE FALSE
  <2>1. q = r BY <1>2, <1>3, <1>6 DEF Start
  <2>2. req'[r].pc = "started" BY <1>2, <1>6, <2>1 DEF Start, Request
  <2> QED BY <1>1, <2>2
<1>7. ASSUME NEW q \in Requests, Write(q) PROVE FALSE
  <2>1. q = r BY <1>2, <1>3, <1>7 DEF Write
  <2>2. req'[r].pc = "written" BY <1>1, <1>2, <1>7, <2>1 DEF Write, Request, NewUser
  <2> QED BY <1>1, <2>2
<1>8. ASSUME NEW q \in Requests, Commit(q) \/ Rollback(q) PROVE q = r
  BY <1>2, <1>3, <1>8 DEF Commit, Rollback, Undone
<1>9. ASSUME Tick \/ \E i \in Ids : Evict(i) PROVE FALSE
  BY <1>3, <1>9 DEF Tick, Evict
<1> QED BY <1>4, <1>5, <1>6, <1>7, <1>8, <1>9 DEF Next

(* A request that presents a revoked token and ends without an error of the*)
(* database has revoked every token its user had when it was read.         *)
THEOREM ReuseIsThorough == Spec => ReuseRevokes
<1>1. ASSUME AInv, [Next]_vars
      PROVE  [\A r \in Requests : ReuseEnds(r) /\ req[r].caller = "service" =>
                \A i \in req[r].seen : tokens'[i].revoked]_vars
  <2> SUFFICES ASSUME Next, NEW r \in Requests, ReuseEnds(r),
                      req[r].caller = "service", NEW i \in req[r].seen
               PROVE  tokens'[i].revoked
    BY <1>1
  <2>1. Fits(req[r]) /\ req[r].op = "reuse" BY <1>1 DEF AInv, RequestsFit, ReuseEnds
  <2>2. Commit(r) /\ req[r].pc = "written"
    BY <1>1, ReuseEnding DEF Rollback, Misfit, Commit
  <2>3. i \in Issued /\ (i \in req[r].ids \/ tokens[i].revoked) BY <2>1, <2>2 DEF Fits
  <2>4. i \in Ids /\ i # req[r].at
    BY <2>1, <2>3, AuthenticationAssumption DEF Fits, Issued, Ids
  <2> QED BY <1>1, <2>2, <2>3, <2>4, CommitRows
<1> QED BY <1>1, Invariance, PTL DEF Spec, ReuseRevokes
=============================================================================
