----------------------------- MODULE Marketplace -----------------------------
(***************************************************************************)
(* The marketplace of KAVAN (backend/apps/marketplace): the product        *)
(* catalogue its platform administrators keep and the subscriptions of its *)
(* tenants, as the views and services serve them on concurrent threads.    *)
(*                                                                         *)
(* A request is one database transaction (ATOMIC_REQUESTS, READ COMMITTED):*)
(* it reads and validates committed rows, later writes, later commits.  A  *)
(* refused request changes nothing and is not a step.  A write waits for   *)
(* the open transaction that wrote the same row or inserted the same key;  *)
(* delay() publishes the engine's task before the commit, unless the engine*)
(* cannot be imported: then the row is committed and a warning logged.     *)
(***************************************************************************)
EXTENDS Naturals

CONSTANTS
  Requests,   \* web threads
  Tenants, Codes, Strings,   \* tenants, product codes, version strings
  MaxRows,    \* bound: rows ever inserted
  Budget      \* bound: how often each operation, or any, is begun, how often
              \* one fails, and how often the engine cannot be imported

Ids  == 1..MaxRows          \* in the order of created_at and released_at
Ops  == {"create", "version", "pricing", "publish", "archive", "retire",
         "install", "upgrade", "uninstall"}
Counted == Ops \cup {"any", "fail", "import"}

ASSUME MarketplaceAssumption ==
  /\ Codes # {} /\ Strings # {}
  /\ MaxRows \in Nat /\ MaxRows >= 3
  /\ Budget \in [Counted -> Nat]

ProductStatuses == {"DRAFT", "PUBLISHED", "ARCHIVED"}
SubStatuses     == {"PENDING", "ACTIVE", "CANCELLED"}

NoRow == [table |-> "none"]
ProductRow == [table : {"product"}, code : Codes, status : ProductStatuses]
VersionRow == [table : {"version"}, product : Ids, string : Strings, active : BOOLEAN]
PlanRow    == [table : {"plan"}, version : Ids, default : BOOLEAN]
SubRow     == [table : {"sub"}, tenant : Tenants, product : Ids, version : Ids,
               plan : Ids \cup {0}, status : SubStatuses]   \* plan 0: null
Row        == ProductRow \cup VersionRow \cup PlanRow \cup SubRow

(* "new": the row to insert, or the whole instance an upgrade will save;   *)
(* "ids": the rows to update; "at": the id of the row inserted.            *)
Request == [pc : {"idle", "checked", "written"}, op : Ops \cup {"none"},
            new : Row \cup {NoRow}, ids : SUBSET Ids, at : Ids \cup {0}]
Idle    == [pc |-> "idle", op |-> "none", new |-> NoRow, ids |-> {}, at |-> 0]

Tasks   == [kind : {"provision", "upgrade", "decommission"}, sub : Ids]

VARIABLES
  db,         \* committed rows by id
  last,       \* the last id given
  req,        \* what each thread is doing
  published,  \* engine tasks ever published
  unqueued,   \* those of which the log says that they were not
  used        \* how much of Budget is used

vars == <<db, last, req, published, unqueued, used>>

(* A product on sale with one version and a default plan: what create,     *)
(* version, pricing and publish make of an empty catalogue.                *)
Init ==
  /\ db = [i \in Ids |->
       CASE i = 1 -> [table |-> "product", code |-> CHOOSE c \in Codes : TRUE,
                      status |-> "PUBLISHED"]
         [] i = 2 -> [table |-> "version", product |-> 1,
                      string |-> CHOOSE v \in Strings : TRUE, active |-> TRUE]
         [] i = 3 -> [table |-> "plan", version |-> 2, default |-> TRUE]
         [] OTHER -> NoRow]
  /\ last = 3
  /\ req = [r \in Requests |-> Idle]
  /\ published = {}
  /\ unqueued = {}
  /\ used = [o \in Counted |-> 0]

-----------------------------------------------------------------------------
(* Queries of the repositories, over committed rows.                       *)
Table(t)          == {i \in Ids : db[i].table = t}
VersionsOf(p)     == {v \in Table("version") : db[v].product = p}
Defaults(v)       == {i \in Table("plan") : db[i].version = v /\ db[i].default}
Subscription(t, p) ==
  {s \in Table("sub") : db[s].tenant = t /\ db[s].product = p}

(* What a tenant may look at and install; the catalogue lists no other.    *)
Available(p) == db[p].status = "PUBLISHED"
Catalogue    == {p \in Table("product") : Available(p)}

(* get_default_plan: the newest one marked, or null.                       *)
DefaultPlan(v) ==
  IF Defaults(v) = {} THEN 0
  ELSE CHOOSE i \in Defaults(v) : \A j \in Defaults(v) : j <= i

(* The unique constraints: code, (product, version_string), (tenant,       *)
(* product).  Pricing plans have none.                                     *)
Clash(a, b) ==
  /\ a.table = b.table
  /\ CASE a.table = "product" -> a.code = b.code
       [] a.table = "version" -> a.product = b.product /\ a.string = b.string
       [] a.table = "sub"     -> a.tenant = b.tenant /\ a.product = b.product
       [] OTHER               -> FALSE

Begins(op) == /\ used[op] < Budget[op] /\ used["any"] < Budget["any"]
              /\ used' = [used EXCEPT ![op] = @ + 1, !["any"] = @ + 1]
Fails == /\ used["fail"] < Budget["fail"]
         /\ used' = [used EXCEPT !["fail"] = @ + 1]

(* Request r has passed the checks of operation op.                        *)
Checked(r, op, row, ids) ==
  /\ req[r].pc = "idle"
  /\ Begins(op)
  /\ req' = [req EXCEPT ![r] =
               [Idle EXCEPT !.pc = "checked", !.op = op, !.new = row, !.ids = ids]]
  /\ UNCHANGED <<db, last, published, unqueued>>

-----------------------------------------------------------------------------
(* The administrators' operations.                                         *)
CreateProduct(r, c) ==
  /\ \A p \in Table("product") : db[p].code # c
  /\ Checked(r, "create",
             [table |-> "product", code |-> c, status |-> "DRAFT"], {})

AddProductVersion(r, p, string) ==
  /\ \A v \in VersionsOf(p) : db[v].string # string
  /\ Checked(r, "version", [table |-> "version", product |-> p, string |-> string,
                            active |-> TRUE], {})

(* UPDATE .. WHERE is_default sees the defaults of this moment.            *)
SetPricing(r, v, isDefault) ==
  Checked(r, "pricing", [table |-> "plan", version |-> v, default |-> isDefault],
          IF isDefault THEN Defaults(v) ELSE {})

(* publish_product admits a product in any status.                         *)
(* Mutant: a product without a version is published.                       *)
PublishUnversioned(r, p) == Checked(r, "publish", NoRow, {p})
PublishProduct(r, p) ==
  /\ \E v \in VersionsOf(p) : db[v].active
  /\ Checked(r, "publish", NoRow, {p})

ArchiveProduct(r, p) == Checked(r, "archive", NoRow, {p})

(* soft_delete of a version: EOL.  No view calls it.                       *)
RetireVersion(r, v) == Checked(r, "retire", NoRow, {v})

-----------------------------------------------------------------------------
(* The tenants' operations.                                                *)

(* The version is the newest active one or, EOL or not, the one the        *)
(* request names; the plan is the version's default or any that exists.    *)
InstallProduct(r, t, p) ==
  /\ Available(p)
  /\ \A s \in Subscription(t, p) : db[s].status # "ACTIVE"
  /\ \E v \in VersionsOf(p) : \E plan \in Table("plan") \cup {DefaultPlan(v)} :
       Checked(r, "install", [table |-> "sub", tenant |-> t, product |-> p,
                              version |-> v, plan |-> plan, status |-> "PENDING"],
               {})

(* The instance read here is what the request will save, every field.      *)
(* Mutant: a subscription that is not yet ACTIVE may be upgraded.          *)
UpgradePending(r, s, v) ==
  /\ db[v].product = db[s].product /\ db[v].active
  /\ Checked(r, "upgrade", [db[s] EXCEPT !.version = v], {s})

UpgradeProduct(r, s, v) ==
  /\ db[s].status = "ACTIVE"
  /\ db[v].product = db[s].product /\ db[v].active
  /\ Checked(r, "upgrade", [db[s] EXCEPT !.version = v], {s})

(* uninstall_product cancels whatever the status is.                       *)
UninstallProduct(r, s) == Checked(r, "uninstall", NoRow, {s})

-----------------------------------------------------------------------------
(* The transaction.                                                        *)
Inserts == {"create", "version", "pricing", "install"}
Open(q) == req[q].pc = "written"

(* What an update leaves of the row: save(update_fields=[..]) changes one  *)
(* field of the row as it is now, upgrade's save() puts back all it read.  *)
Updated(op, row, new) ==
  CASE op = "publish"   -> [row EXCEPT !.status = "PUBLISHED"]
    [] op = "archive"   -> [row EXCEPT !.status = "ARCHIVED"]
    [] op = "retire"    -> [row EXCEPT !.active = FALSE]
    [] op = "uninstall" -> [row EXCEPT !.status = "CANCELLED"]
    [] op = "pricing"   -> [row EXCEPT !.default = FALSE]
    [] op = "upgrade"   -> new

(* The rows an UPDATE still matches once it has got its row locks.         *)
Matched(op, ids) == IF op = "pricing" THEN {i \in ids : db[i].default} ELSE ids

TaskOf == [install |-> "provision", upgrade |-> "upgrade",
           uninstall |-> "decommission"]

(* Mutant: no unique_together.                                             *)
KeyNeverTaken(new) == FALSE
KeyTaken(new)      == \E i \in Ids : Clash(db[i], new)

(* Mutant: a subscription that never was ACTIVE is cancelled without one.  *)
DueIfActive(me, subs) ==
  IF me.op \in DOMAIN TaskOf
  THEN {[kind |-> TaskOf[me.op], sub |-> s] :
          s \in {i \in subs : me.op = "uninstall" => db[i].status = "ACTIVE"}}
  ELSE {}
Due(me, subs) ==
  IF me.op \in DOMAIN TaskOf THEN {[kind |-> TaskOf[me.op], sub |-> s] : s \in subs}
  ELSE {}

(* The _trigger_ methods: delay(), or, on an ImportError, a warning only.  *)
Trigger(tasks) ==
  \/ /\ published' = published \cup tasks
     /\ UNCHANGED <<unqueued, used>>
  \/ /\ tasks # {} /\ used["import"] < Budget["import"]
     /\ used' = [used EXCEPT !["import"] = @ + 1]
     /\ unqueued' = unqueued \cup tasks
     /\ UNCHANGED published

(* Row locks and key locks are waited for; a unique violation ends the     *)
(* request with a 500 and a rollback.                                      *)
Write(r) ==
  LET me    == req[r]
      ids   == Matched(me.op, me.ids)
      isNew == me.op \in Inserts
      at    == IF isNew THEN last + 1 ELSE 0
  IN
  /\ me.pc = "checked" /\ at <= MaxRows
  /\ \A q \in Requests : Open(q) =>
       ids \cap req[q].ids = {} /\ (isNew => ~Clash(req[q].new, me.new))
  /\ IF isNew /\ KeyTaken(me.new)
     THEN req' = [req EXCEPT ![r] = Idle] /\ UNCHANGED <<last, published, unqueued, used>>
     ELSE /\ req' = [req EXCEPT ![r].pc = "written", ![r].ids = ids, ![r].at = at]
          /\ last' = IF isNew THEN at ELSE last
          /\ Trigger(Due(me, ids \cup ({at} \ {0})))
  /\ UNCHANGED db

Commit(r) ==
  LET me == req[r] IN
  /\ Open(r)
  /\ db' = [i \in Ids |-> CASE i = me.at     -> me.new
                            [] i \in me.ids -> Updated(me.op, db[i], me.new)
                            [] OTHER        -> db[i]]
  /\ req' = [req EXCEPT ![r] = Idle]
  /\ UNCHANGED <<last, published, unqueued, used>>

(* An exception (delay() cannot reach the broker, a crash) rolls back: the *)
(* rows are undone, the message, once published, is not.                   *)
(* Mutants: set_pricing without @transaction.atomic has cleared already;   *)
(* the connection is given back with its transaction open.                 *)
FailCleared(r) ==
  /\ req[r].pc # "idle" /\ Fails
  /\ db' = [i \in Ids |-> IF i \in req[r].ids /\ req[r].op = "pricing"
                          THEN Updated("pricing", db[i], NoRow) ELSE db[i]]
  /\ req' = [req EXCEPT ![r] = Idle]
  /\ UNCHANGED <<last, published, unqueued>>

FailOpen(r) ==
  /\ req[r].pc # "idle" /\ Fails
  /\ req' = [req EXCEPT ![r].pc = "leaked"]
  /\ UNCHANGED <<db, last, published, unqueued>>

Fail(r) ==
  /\ req[r].pc # "idle"
  /\ Fails
  /\ req' = [req EXCEPT ![r] = Idle]
  /\ UNCHANGED <<db, last, published, unqueued>>

(* The engine commits an execution for a subscription whose provisioning   *)
(* was published: activate() saves only the status, whatever it is.  The   *)
(* task may come again (retries, repairs), so it is not consumed here.     *)
Activate(s) ==
  /\ [kind |-> "provision", sub |-> s] \in published
  /\ s \in Table("sub") /\ db[s].status # "ACTIVE"
  /\ \A q \in Requests : Open(q) => s \notin req[q].ids
  /\ db' = [db EXCEPT ![s].status = "ACTIVE"]
  /\ UNCHANGED <<last, req, published, unqueued, used>>

-----------------------------------------------------------------------------
ProductRequest(r) ==
  \/ \E c \in Codes : CreateProduct(r, c)
  \/ \E p \in Table("product") : PublishProduct(r, p) \/ ArchiveProduct(r, p)

ReleaseRequest(r) ==
  \/ \E p \in Table("product"), string \in Strings : AddProductVersion(r, p, string)
  \/ \E v \in Table("version") :
       \/ RetireVersion(r, v)
       \/ \E isDefault \in BOOLEAN : SetPricing(r, v, isDefault)

TenantRequest(r) ==
  \/ \E p \in Table("product"), t \in Tenants : InstallProduct(r, t, p)
  \/ \E s \in Table("sub") :
       \/ UninstallProduct(r, s)
       \/ \E v \in Table("version") : UpgradeProduct(r, s, v)

Next ==
  \/ \E r \in Requests : ProductRequest(r) \/ ReleaseRequest(r) \/ TenantRequest(r)
                        \/ Write(r) \/ Commit(r) \/ Fail(r)
  \/ \E s \in Ids : Activate(s)

(* A thread that has begun a request goes on; nobody has to begin one.     *)
Fairness == \A r \in Requests : WF_vars(Write(r) \/ Commit(r))

Spec == Init /\ [][Next]_vars /\ Fairness
-----------------------------------------------------------------------------
(* Every variable has its type.                                            *)
TypeOK ==
  /\ db \in [Ids -> Row \cup {NoRow}]
  /\ last \in Nat
  /\ req \in [Requests -> Request]
  /\ published \subseteq Tasks /\ unqueued \subseteq Tasks
  /\ used \in [Counted -> Nat]

(* However two administrators or two installs interleave between the       *)
(* exists() check and the insert, no code, version string or subscription  *)
(* of a tenant to a product is ever there twice.                           *)
KeysUnique ==
  \A i, j \in Ids : i # j => ~Clash(db[i], db[j])

(* The row and the message are written to two systems: a subscription is   *)
(* never there without its provisioning, nor cancelled without its         *)
(* decommissioning, having been handed to the engine - delay() before the  *)
(* commit; an error of the broker undoes the row - or reported as not      *)
(* queued: there is no row of which neither broker nor log knows.          *)
NoRowWithoutTask ==
  \A s \in Table("sub") :
    /\ [kind |-> "provision", sub |-> s] \in published \cup unqueued
    /\ db[s].status = "CANCELLED" =>
         [kind |-> "decommission", sub |-> s] \in published \cup unqueued

(* A product in the catalogue has a release, active or retired since,      *)
(* whatever the publish and version requests read before another commits.  *)
PublishedHasVersion == \A p \in Catalogue : VersionsOf(p) # {}

(* A version that has a default plan goes on having one, in every          *)
(* committed state: set_pricing clears and creates in one transaction.     *)
DefaultPlanKept ==
  [][\A v \in Table("version") : Defaults(v) # {} => Defaults(v)' # {}]_vars

(* No request undoes an activation that commits while it is under way: a   *)
(* subscription that has left PENDING never goes back to it, even though   *)
(* an upgrade saves the whole of a row it read before (it reads ACTIVE).   *)
ActivationKept ==
  [][\A s \in Table("sub") : db[s].status # "PENDING" => db'[s].status # "PENDING"]_vars

(* No request waits for ever for the rows and keys of the others.          *)
RequestsEnd == <>[](\A r \in Requests : req[r] = Idle)
=============================================================================
