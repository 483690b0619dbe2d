--------------------------- MODULE Authentication ---------------------------
(***************************************************************************)
(* Accounts and tokens of KAVAN (backend/apps/authentication): registering *)
(* and signing in, the rotation of refresh tokens with its reuse detection,*)
(* and the deny list of access tokens in Redis.                            *)
(*                                                                         *)
(* A view's request is a transaction (ATOMIC_REQUESTS, READ COMMITTED): it *)
(* reads committed rows, runs its statements when their row locks are free,*)
(* and ends with the answer it builds.  The other callers of the services -*)
(* manage.py createsuperuser, scripts - have no transaction around them:   *)
(* each statement commits, and the next one may never run.  Redis takes no *)
(* part in any: what is put there stays on a rollback, and may be lost.    *)
(***************************************************************************)
EXTENDS Integers

CONSTANTS
  Requests,            \* web threads and scripts
  Spellings, Normal,   \* addresses as typed, and what normalize_email makes of each
  Lowered,             \* those the serializers of the views let through
  Callers,             \* who calls the services: "view", "service" (scripts)
  AccessTtl, RefreshTtl,
  MaxTokens, MaxTime,  \* bounds: tokens ever issued, the clock
  Budget               \* bound: how often each operation, or any, is begun or fails

Ids == 1..MaxTokens    \* a pair: the access token i comes with the refresh token i
Ops == {"register", "oauth", "login", "rotate", "reuse", "logout"}

(* What a script's operation commits in a statement of its own afterwards. *)
FollowUp == [register |-> "profile", rotate |-> "issue"]
Steps    == Ops \cup {"profile", "issue"}

ASSUME AuthenticationAssumption ==
  /\ MaxTokens \in Nat \ {0} /\ MaxTime \in Nat
  /\ AccessTtl \in Nat \ {0} /\ RefreshTtl \in Nat \ {0}
  /\ Spellings # {} /\ Normal \in [Spellings -> Spellings]
  /\ \A s \in Spellings : Normal[Normal[s]] = Normal[s]
  /\ Lowered \subseteq Spellings /\ Callers \subseteq {"view", "service"}
  /\ Budget \in [Ops \cup {"any", "fail"} -> Nat]

User     == Spellings  \* a row, of which only the unique email matters
NoToken  == [user |-> "none"]
Token    == [user : User, parent : Ids \cup {0}, issued : 0..MaxTime,
             revoked : BOOLEAN]

(* "op": the operation, or the follow-up it has come to; "ids": the rows   *)
(* the UPDATE is to change; "at": the id of the token it inserts at "time",*)
(* "parent" the one it replaces; "seen": the rows of this user committed   *)
(* when the request read the token it presents.                            *)
Request == [pc : {"idle", "checked", "started", "written"}, op : Steps \cup {"none"},
            caller : Callers \cup {"none"}, user : User \cup {"none"},
            parent : Ids \cup {0}, ids : SUBSET Ids, at : Ids \cup {0},
            time : 0..MaxTime, seen : SUBSET Ids]
Idle    == [pc |-> "idle", op |-> "none", caller |-> "none", user |-> "none",
            parent |-> 0, ids |-> {}, at |-> 0, time |-> 0, seen |-> {}]

VARIABLES
  users,     \* committed accounts, by the address stored
  profiles,  \* accounts with a UserProfile
  tokens,    \* committed refresh tokens
  last,      \* the last token id given
  denied,    \* Redis: when the blacklist entry of an access token runs out
  out,       \* access tokens whose logout reached Redis, and were kept there
  clock, req, used

vars == <<users, profiles, tokens, last, denied, out, clock, req, used>>
data == <<users, profiles, tokens>>

(* One user, signed in: what register and login leave of empty tables.     *)
Init ==
  /\ users = {Normal[CHOOSE s \in Spellings : TRUE]}
  /\ profiles = users
  /\ tokens = [i \in Ids |-> IF i = 1 THEN [user |-> CHOOSE u \in users : TRUE, parent |-> 0,
                                            issued |-> 0, revoked |-> FALSE]
                             ELSE NoToken]
  /\ last = 1
  /\ denied = [i \in Ids |-> 0]
  /\ out = {}
  /\ clock = 0
  /\ req = [r \in Requests |-> Idle]
  /\ used = [o \in Ops \cup {"any", "fail"} |-> 0]

-----------------------------------------------------------------------------
Issued     == {i \in Ids : tokens[i] # NoToken}
Of(u)      == {i \in Issued : tokens[i].user = u}
Live(u)    == {i \in Of(u) : ~tokens[i].revoked}
Expired(i) == tokens[i].issued + RefreshTtl < clock
Exp(i)     == tokens[i].issued + AccessTtl

Begins(op) == /\ used[op] < Budget[op] /\ used["any"] < Budget["any"]
              /\ used' = [used EXCEPT ![op] = @ + 1, !["any"] = @ + 1]
Fails      == /\ used["fail"] < Budget["fail"]
              /\ used' = [used EXCEPT !["fail"] = @ + 1]

(* Request r of caller c has passed the checks of operation op for user u. *)
Checked(r, c, op, u, parent, pc, ids) ==
  /\ req[r].pc = "idle" /\ c \in Callers
  /\ Begins(op)
  /\ req' = [req EXCEPT ![r] =
               [pc |-> pc, op |-> op, caller |-> c, user |-> u, parent |-> parent,
                ids |-> ids, at |-> 0, time |-> 0, seen |-> Of(u)]]
  /\ UNCHANGED <<data, last, clock>>

(* The serializers of login and register lower the whole address.          *)
Presents(c, s) == c = "view" => s \in Lowered

(* exists() looks for the address as typed, create_user() stores the normal*)
(* form.  Mutant: it stores what was typed.                                *)
StoredAsTyped(s) == s
Stored(s)        == Normal[s]

Register(r, c, s) == /\ s \notin users /\ Presents(c, s)
                     /\ Checked(r, c, "register", Stored(s), 0, "started", {})
                     /\ UNCHANGED <<denied, out>>

(* GoogleOAuthService: get_or_create on the provider's address, a mock's   *)
(* that is in its normal form.  No view calls it.                          *)
OAuth(r, s) == /\ s = Normal[s] /\ s \notin users
               /\ Checked(r, "service", "oauth", s, 0, "started", {})
               /\ UNCHANGED <<denied, out>>

(* is_active is true of every account, whatever its status.                *)
Login(r, c, u) == /\ u \in users /\ Presents(c, u)
                  /\ Checked(r, c, "login", u, 0, "started", {})
                  /\ UNCHANGED <<denied, out>>

Refresh(r, c, i) ==
  /\ IF tokens[i].revoked
     THEN Checked(r, c, "reuse", tokens[i].user, i, "checked", {})
     ELSE ~Expired(i) /\ Checked(r, c, "rotate", tokens[i].user, i, "started", {i})
  /\ UNCHANGED <<denied, out>>

(* Until the token's own exp.  Mutant: one second too short.               *)
ShortDenial(i) == Exp(i) - 1
DenialEnd(i)   == Exp(i)

(* logout() puts access token i on the deny list, unless it has run out or *)
(* Redis is away (IGNORE_EXCEPTIONS), then revokes refresh token j, if any.*)
Logout(r, c, i, j) ==
  /\ IF j = 0 THEN /\ req[r].pc = "idle" /\ Begins("logout")
                   /\ UNCHANGED <<data, last, clock, req>>
     ELSE Checked(r, c, "logout", tokens[j].user, j, "started", {j})
  /\ \/ /\ clock < Exp(i)
        /\ denied' = [denied EXCEPT ![i] = DenialEnd(i)]
        /\ out' = out \cup {i}
     \/ UNCHANGED <<denied, out>>

-----------------------------------------------------------------------------
(* The UPDATE of a reuse takes its snapshot.                               *)
(* Mutant: only the descendants of the token presented.                    *)
RevokedByChild(r) == {i \in Live(req[r].user) : tokens[i].parent = req[r].parent}
RevokedByReuse(r) == Live(req[r].user)

Start(r) ==
  /\ req[r].pc = "checked"
  /\ req' = [req EXCEPT ![r].pc = "started", ![r].ids = RevokedByReuse(r)]
  /\ UNCHANGED <<data, last, denied, out, clock, used>>

NewUser == {"register", "oauth"}

(* Row locks, and the key lock of a new account's address, are waited for. *)
(* Mutant: statements wait for each other, written or not.                 *)
FreeOfAll(r) == \A q \in Requests \ {r} : req[q].pc \in {"idle", "checked"}

Free(r) ==
  \A q \in Requests \ {r} : req[q].pc = "written" =>
    /\ req[q].ids \cap req[r].ids = {}
    /\ {req[q].op, req[r].op} \subseteq NewUser => req[q].user # req[r].user

(* A taken address is an error for register, the other's row for OAuth.    *)
(* The token a view inserts for a rotation is not numbered: the request is *)
(* rolled back before anybody sees it.                                     *)
Write(r) ==
  LET me   == req[r]
      at   == IF me.op \in {"login", "issue"} THEN last + 1 ELSE 0
  IN
  /\ me.pc = "started" /\ Free(r) /\ at <= MaxTokens
  /\ IF me.op \in NewUser /\ me.user \in users
     THEN req' = [req EXCEPT ![r] = Idle] /\ UNCHANGED last
     ELSE /\ req' = [req EXCEPT ![r].pc = "written", ![r].at = at,
                              ![r].time = IF at = 0 THEN 0 ELSE clock]
          /\ last' = IF at = 0 THEN last ELSE at
  /\ UNCHANGED <<data, denied, out, clock, used>>

(* StandardResponse.success("..", data = ..) and .error(.., status_code =  *)
(* ..) do not fit its signature: the TypeError leaves the view.            *)
Misfit(r) == req[r].caller = "view" /\ req[r].op # "logout"

(* create_user_profile, the post_save receiver: of a script's user in a    *)
(* transaction of its own, inside the one of get_or_create for OAuth.      *)
(* Mutant: it makes the profile of nobody.                                 *)
ProfileOfNone(r) == {"none"}
ProfileOf(r) == {req[r].user}

(* Mutant: the parent keeps its old columns.                               *)
OldRow(row)     == row
RevokedRow(row) == [row EXCEPT !.revoked = TRUE]

(* What is left to do once this is committed.                              *)
Rest(me) ==
  IF me.op \in DOMAIN FollowUp
  THEN [me EXCEPT !.pc = "started", !.op = FollowUp[me.op], !.ids = {}]
  ELSE Idle

(* Of the views only logout gets here.                                     *)
Commit(r) ==
  LET me == req[r] IN
  /\ me.pc = "written" /\ ~Misfit(r)
  /\ users' = IF me.op \in NewUser THEN users \cup {me.user} ELSE users
  /\ profiles' = IF me.op \in {"profile", "oauth"} THEN profiles \cup ProfileOf(r)
                 ELSE profiles
  /\ tokens' = [i \in Ids |->
       CASE i = me.at      -> [user |-> me.user, parent |-> me.parent,
                               issued |-> me.time, revoked |-> FALSE]
         [] i \in me.ids   -> RevokedRow(tokens[i])
         [] OTHER          -> tokens[i]]
  /\ req' = [req EXCEPT ![r] = Rest(me)]
  /\ UNCHANGED <<last, denied, out, clock, used>>

(* A TypeError, the database (an error logout swallows) or a crash: what is*)
(* not committed is undone, but not what Redis was told.                   *)
Undone(r) == /\ req' = [req EXCEPT ![r] = Idle]
             /\ UNCHANGED <<data, last, denied, out, clock>>
Rollback(r) == req[r].pc = "written" /\ Misfit(r) /\ Undone(r) /\ UNCHANGED used
Fail(r)     == req[r].pc # "idle" /\ Fails /\ Undone(r)

Evict(i) ==
  /\ i \in out
  /\ denied' = [denied EXCEPT ![i] = 0]
  /\ out' = out \ {i}
  /\ UNCHANGED <<data, last, clock, req, used>>

Tick == clock < MaxTime /\ clock' = clock + 1
        /\ UNCHANGED <<data, last, denied, out, req, used>>

-----------------------------------------------------------------------------
Begin(r) ==
  \/ \E s \in Spellings : OAuth(r, s)
  \/ \E c \in Callers :
       \/ \E s \in Spellings : Register(r, c, s)
       \/ \E u \in users : Login(r, c, u)
       \/ \E i \in Issued : Refresh(r, c, i) \/ \E j \in Issued \cup {0} : Logout(r, c, i, j)

Next ==
  \/ \E r \in Requests : Begin(r) \/ Start(r) \/ Write(r) \/ Commit(r)
                         \/ Rollback(r) \/ Fail(r)
  \/ \E i \in Ids : Evict(i)
  \/ Tick

(* A thread that has begun a request goes on; nobody has to begin one.     *)
Fairness == \A r \in Requests : WF_vars(Start(r) \/ Write(r) \/ Commit(r) \/ Rollback(r))

Spec == Init /\ [][Next]_vars /\ Fairness
-----------------------------------------------------------------------------
(* validate_access_token: what it answers for access token i, now.         *)
Accepts(i) == clock < Exp(i) /\ denied[i] <= clock

(* Every variable has its type.                                            *)
TypeOK ==
  /\ users \subseteq User /\ profiles \subseteq User
  /\ tokens \in [Ids -> Token \cup {NoToken}]
  /\ last \in Ids
  /\ denied \in [Ids -> 0..(MaxTime + AccessTtl)]
  /\ out \subseteq Ids
  /\ clock \in 0..MaxTime
  /\ req \in [Requests -> Request]
  /\ used \in [Ops \cup {"any", "fail"} -> Nat]

(* However registrations and OAuth sign-ins of one address, spelled one way*)
(* or another, interleave: it has one account; no profile is without its   *)
(* account; and unless something failed between the two commits, an account*)
(* without a profile has a registration under way that will make it.       *)
OneAccountPerAddress ==
  /\ \A u, v \in users : Normal[u] = Normal[v] => u = v
  /\ profiles \subseteq users
  /\ used["fail"] = 0 => \A u \in users \ profiles :
       \E r \in Requests : req[r].op = "profile" /\ req[r].user = u

(* A token that came in exchange for another is only there with that one   *)
(* revoked, whatever ran or failed beside it, though the two are committed *)
(* one after the other: a failure between them leaves neither in use.      *)
ParentRevoked ==
  \A i \in Issued : tokens[i].parent # 0 => tokens[tokens[i].parent].revoked

(* A logged out access token is refused until its own end: the deny list   *)
(* entry, unless Redis loses it, does not run out before the token does.   *)
LoggedOutRefused == \A i \in out : ~Accepts(i)

(* A request that presents a revoked token and ends without an error of the*)
(* database has revoked every token its user had when it was read: those a *)
(* concurrent rotation commits later are the only ones to survive.         *)
ReuseEnds(r) == req[r].op = "reuse" /\ req'[r] = Idle /\ used' = used
ReuseRevokes ==
  [][\A r \in Requests : ReuseEnds(r) /\ req[r].caller = "service" =>
       \A i \in req[r].seen : tokens'[i].revoked]_vars

(* rotate_refresh_token: "we will revoke ALL tokens for this user", of any *)
(* request that presents a revoked token, the refresh view's included.     *)
ReuseAlwaysRevokes ==
  [][\A r \in Requests : ReuseEnds(r) => \A i \in req[r].seen : tokens'[i].revoked]_vars

(* No request waits for ever for the rows and addresses of the others.     *)
RequestsEnd == <>[](\A r \in Requests : req[r] = Idle)
=============================================================================
