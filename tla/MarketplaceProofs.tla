--------------------------- MODULE MarketplaceProofs ---------------------------
(***************************************************************************)
(* Theorems about Marketplace, for any threads, tenants, codes, version    *)
(* strings and bounds: no key is ever there twice, no subscription without *)
(* its task, no published product without a version, no default plan lost  *)
(* and no activation undone.                                               *)
(***************************************************************************)
EXTENDS Marketplace, TLAPS, WellFoundedInduction

TableOf == [create |-> "product", publish |-> "product", archive |-> "product",
            version |-> "version", retire |-> "version", pricing |-> "plan",
            install |-> "sub", upgrade |-> "sub", uninstall |-> "sub"]

(* A row goes on being what it is: no operation changes its key, or the    *)
(* version a plan is of.                                                   *)
SameKey(a, b) ==
  /\ a.table = b.table
  /\ a.table = "product" => a.code = b.code
  /\ a.table = "version" => a.product = b.product /\ a.string = b.string
  /\ a.table = "plan"    => a.version = b.version
  /\ a.table = "sub"     => a.tenant = b.tenant /\ a.product = b.product

Provisioning(s)    == [kind |-> "provision", sub |-> s]
Decommissioning(s) == [kind |-> "decommission", sub |-> s]

(* The tasks of which the broker or the log knows.                         *)
Handed == published \cup unqueued

(* What a request under way has read and done that still holds.            *)
Fits(me) ==
  /\ IF me.pc = "idle" THEN me.ids = {} ELSE me.op \in Ops
  /\ me.at # 0 => /\ me.pc = "written" /\ me.op \in Inserts
                  /\ me.at <= last /\ db[me.at] = NoRow
  /\ me.op \in Inserts => me.new \in Row /\ me.new.table = TableOf[me.op]
  /\ \A i \in me.ids : db[i].table = TableOf[me.op]
  /\ me.op \in {"create", "version", "install"} => me.ids = {}
  /\ me.op = "create" => me.new.status = "DRAFT"
  /\ me.op = "install" => me.new.status = "PENDING"
  /\ me.op = "pricing" => \A i \in me.ids : me.new.default /\ db[i].version = me.new.version
  /\ me.op = "publish" => \A p \in me.ids : VersionsOf(p) # {}
  /\ me.op = "upgrade" => /\ me.new \in SubRow /\ me.new.status = "ACTIVE"
                          /\ \A s \in me.ids : SameKey(db[s], me.new)
  /\ me.pc = "written" =>
       /\ me.op \in Inserts => me.at # 0 /\ \A i \in Ids : ~Clash(db[i], me.new)
       /\ me.op = "install"   => Provisioning(me.at) \in Handed
       /\ me.op = "uninstall" => \A s \in me.ids : Decommissioning(s) \in Handed

RequestsFit == \A r \in Requests : Fits(req[r])
Inserting(r) == Open(r) /\ req[r].op \in Inserts
InsertsApart == \A q, r \in Requests : q # r /\ Inserting(q) /\ Inserting(r) =>
                  req[q].at # req[r].at /\ ~Clash(req[q].new, req[r].new)
IdsInOrder == \A i \in Ids : i > last => db[i] = NoRow

MInv == /\ TypeOK /\ RequestsFit /\ InsertsApart /\ IdsInOrder
        /\ KeysUnique /\ NoRowWithoutTask /\ PublishedHasVersion

-----------------------------------------------------------------------------
(* Rows.                                                                   *)
LEMMA RowTables ==
  ASSUME NEW row \in Row \cup {NoRow}
  PROVE  /\ row = NoRow <=> row.table = "none"
         /\ row.table \in {"none", "product", "version", "plan", "sub"}
         /\ row.table = "product" => row \in ProductRow
         /\ row.table = "version" => row \in VersionRow
         /\ row.table = "plan"    => row \in PlanRow
         /\ row.table = "sub"     => row \in SubRow
         /\ row # NoRow => row \in Row
BY DEF Row, NoRow, ProductRow, VersionRow, PlanRow, SubRow

LEMMA ClashSymmetric ==
  ASSUME NEW a, NEW b, Clash(a, b)
  PROVE  Clash(b, a)
BY DEF Clash

LEMMA ClashByKey ==
  ASSUME NEW a, NEW b, NEW c, SameKey(a, b)
  PROVE  Clash(a, c) <=> Clash(b, c)
BY DEF Clash, SameKey

LEMMA NoRowNeverClashes == \A b : ~Clash(NoRow, b)
BY DEF Clash, NoRow

LEMMA SameKeyOrder ==
  /\ \A a : SameKey(a, a)
  /\ \A a, b, c : SameKey(a, b) /\ SameKey(b, c) => SameKey(a, c)
  /\ \A a, b : SameKey(a, b) => SameKey(b, a)
BY DEF SameKey

(* An UPDATE leaves a row of the same table and key.                       *)
LEMMA UpdatedRow ==
  ASSUME NEW op \in DOMAIN TableOf, op \notin Inserts \/ op = "pricing",
         NEW row \in Row, row.table = TableOf[op],
         NEW new, op = "upgrade" => new \in SubRow /\ SameKey(row, new)
  PROVE  Updated(op, row, new) \in Row /\ SameKey(row, Updated(op, row, new))
<1> DEFINE r2 == Updated(op, row, new)
<1>0. op \in {"publish", "archive", "retire", "uninstall", "pricing", "upgrade"}
  BY DEF TableOf, Inserts
<1>1. CASE op = "publish"
  <2>1. row \in ProductRow BY <1>1, RowTables DEF TableOf
  <2>2. r2 = [row EXCEPT !.status = "PUBLISHED"] BY <1>1 DEF Updated
  <2> QED BY <2>1, <2>2 DEF Row, ProductRow, SameKey, ProductStatuses
<1>2. CASE op = "archive"
  <2>1. row \in ProductRow BY <1>2, RowTables DEF TableOf
  <2>2. r2 = [row EXCEPT !.status = "ARCHIVED"] BY <1>2 DEF Updated
  <2> QED BY <2>1, <2>2 DEF Row, ProductRow, SameKey, ProductStatuses
<1>3. CASE op = "retire"
  <2>1. row \in VersionRow BY <1>3, RowTables DEF TableOf
  <2>2. r2 = [row EXCEPT !.active = FALSE] BY <1>3 DEF Updated
  <2> QED BY <2>1, <2>2 DEF Row, VersionRow, SameKey
<1>4. CASE op = "uninstall"
  <2>1. row \in SubRow BY <1>4, RowTables DEF TableOf
  <2>2. r2 = [row EXCEPT !.status = "CANCELLED"] BY <1>4 DEF Updated
  <2> QED BY <2>1, <2>2 DEF Row, SubRow, SameKey, SubStatuses
<1>5. CASE op = "pricing"
  <2>1. row \in PlanRow BY <1>5, RowTables DEF TableOf
  <2>2. r2 = [row EXCEPT !.default = FALSE] BY <1>5 DEF Updated
  <2> QED BY <2>1, <2>2 DEF Row, PlanRow, SameKey
<1>6. CASE op = "upgrade"
  BY <1>6 DEF Updated, Row
<1> QED BY <1>0, <1>1, <1>2, <1>3, <1>4, <1>5, <1>6

(* There is a newest among plans: DefaultPlan's CHOOSE has something to    *)
(* choose.                                                                 *)
LEMMA SmallestOf ==
  ASSUME NEW T, T \subseteq Nat, T # {}
  PROVE  \E m \in T : \A k \in T : m <= k
<1>1. IsWellFoundedOn(OpToRel(<, Nat), Nat) BY NatLessThanWellFounded
<1>2. PICK R : R = OpToRel(<, Nat) OBVIOUS
<1>3. IsWellFoundedOn(R, Nat) BY <1>1, <1>2
<1>4. PICK m \in T : \A k \in T : ~(<<k, m>> \in R) BY <1>3, WFMin
<1>5. \A k \in T : ~(k < m) BY <1>2, <1>4 DEF OpToRel
<1> QED BY <1>5

LEMMA LargestOf ==
  ASSUME NEW n \in Nat, NEW S, S \subseteq 1..n, S # {}
  PROVE  \E m \in S : \A k \in S : k <= m
<1> DEFINE T == {n - k : k \in S}
<1>1. \A k \in S : k \in Nat /\ n - k \in Nat OBVIOUS
<1>2. T \subseteq Nat /\ T # {} BY <1>1
<1>3. PICK t \in T : \A k \in T : t <= k BY <1>2, SmallestOf
<1>4. PICK m \in S : t = n - m OBVIOUS
<1>5. ASSUME NEW k \in S PROVE k <= m BY <1>3, <1>4
<1> QED BY <1>5

LEMMA DefaultPlanType ==
  ASSUME NEW v
  PROVE  DefaultPlan(v) \in Ids \cup {0}
<1>1. CASE Defaults(v) = {} BY <1>1 DEF DefaultPlan
<1>2. CASE Defaults(v) # {}
  <2>1. Defaults(v) \subseteq 1..MaxRows BY DEF Defaults, Table, Ids
  <2>2. \E i \in Defaults(v) : \A j \in Defaults(v) : j <= i
    BY <1>2, <2>1, LargestOf, MarketplaceAssumption
  <2>3. DefaultPlan(v) \in Defaults(v) BY <1>2, <2>2 DEF DefaultPlan
  <2> QED BY <2>1, <2>3 DEF Ids
<1> QED BY <1>1, <1>2

LEMMA RequestFields ==
  ASSUME TypeOK, NEW r \in Requests
  PROVE  /\ req[r] \in Request
         /\ req[r].pc \in {"idle", "checked", "written"}
         /\ req[r].op \in Ops \cup {"none"} /\ req[r].new \in Row \cup {NoRow}
         /\ req[r].ids \subseteq Ids /\ req[r].at \in Ids \cup {0}
<1>1. req[r] \in Request BY DEF TypeOK
<1> QED BY <1>1 DEF Request

LEMMA IdleFits ==
  /\ Idle \in Request /\ Fits(Idle) /\ Idle.pc = "idle"
BY DEF Idle, Request, Fits, Inserts

LEMMA BudgetType ==
  ASSUME TypeOK
  PROVE  /\ \A op \in Ops : Begins(op) => used' \in [Counted -> Nat]
         /\ Fails => used' \in [Counted -> Nat]
<1>1. used \in [Counted -> Nat] BY DEF TypeOK
<1>2. ASSUME NEW op \in Ops, Begins(op) PROVE used' \in [Counted -> Nat]
  BY <1>1, <1>2 DEF Counted, Ops, Begins
<1>3. ASSUME Fails PROVE used' \in [Counted -> Nat]
  BY <1>1, <1>3 DEF Counted, Fails
<1> QED BY <1>2, <1>3

-----------------------------------------------------------------------------
(* When rows are inserted and updated, what a request knows stays true, if *)
(* the row inserted does not take its id or its key.                       *)
LEMMA FitsKept ==
  ASSUME TypeOK, NEW me, Fits(me), me \in Request,
         \A i \in Ids : db[i] # NoRow => SameKey(db[i], db'[i]),
         me.at # 0 => db'[me.at] = NoRow,
         me.pc = "written" /\ me.op \in Inserts => \A i \in Ids : ~Clash(db'[i], me.new),
         last' >= last, last' \in Nat, Handed \subseteq Handed'
  PROVE  Fits(me)'
<1>1. \A i \in me.ids : i \in Ids /\ db[i] # NoRow /\ SameKey(db[i], db'[i])
  <2>1. ASSUME NEW i \in me.ids PROVE i \in Ids /\ db[i] # NoRow
    <3>1. i \in Ids /\ me.op \in Ops /\ db[i].table = TableOf[me.op] BY DEF Fits, Request
    <3>2. TableOf[me.op] \in {"product", "version", "plan", "sub"} BY <3>1 DEF TableOf, Ops
    <3> QED BY <3>1, <3>2 DEF NoRow
  <2> QED BY <2>1
<1>2. \A i \in me.ids : db'[i].table = TableOf[me.op]
  BY <1>1 DEF Fits, SameKey
<1>3. me.op = "pricing" => \A i \in me.ids : me.new.default /\ db'[i].version = me.new.version
  BY <1>1, <1>2 DEF Fits, SameKey, TableOf
<1>4. \A p \in Ids : VersionsOf(p) \subseteq VersionsOf(p)'
  <2>1. ASSUME NEW p \in Ids, NEW v \in VersionsOf(p) PROVE v \in VersionsOf(p)'
    <3>1. v \in Ids /\ db[v].table = "version" /\ db[v].product = p
      BY DEF VersionsOf, Table
    <3>2. SameKey(db[v], db'[v]) BY <3>1 DEF NoRow
    <3> QED BY <3>1, <3>2 DEF SameKey, VersionsOf, Table
  <2> QED BY <2>1
<1>5. me.op = "publish" => \A p \in me.ids : VersionsOf(p)' # {}
  BY <1>1, <1>4 DEF Fits
<1>6. me.op = "upgrade" => \A s \in me.ids : SameKey(db'[s], me.new)
  BY <1>1, SameKeyOrder DEF Fits
<1>7. me.at # 0 => me.at <= last'
  BY DEF Fits, Request, TypeOK, Ids
<1> QED BY <1>2, <1>3, <1>5, <1>6, <1>7 DEF Fits

(* A step of one request that leaves the rows alone.                       *)
LEMMA RequestStep ==
  ASSUME MInv, NEW r \in Requests, NEW me \in Request,
         req' = [req EXCEPT ![r] = me], UNCHANGED db,
         last' \in Nat, last' >= last,
         Handed \subseteq Handed', Handed' \subseteq Tasks,
         used' \in [Counted -> Nat],
         Fits(me)',
         me.pc = "written" /\ me.op \in Inserts =>
           me.at > last /\ \A q \in Requests : Open(q) => ~Clash(req[q].new, me.new)
  PROVE  MInv'
<1> USE DEF MInv
<1>1. req \in [Requests -> Request] /\ req' \in [Requests -> Request] BY DEF TypeOK
<1>2. req'[r] = me /\ \A q \in Requests \ {r} : req'[q] = req[q] BY <1>1
<1>3. TypeOK' BY <1>1 DEF Handed, TypeOK
<1>4. RequestsFit'
  <2>1. ASSUME NEW q \in Requests \ {r} PROVE Fits(req[q])'
    <3>1. PICK you \in Request : you = req[q] BY <1>1
    <3>2. Fits(you) BY <3>1 DEF RequestsFit
    <3>3. Fits(you)' BY <3>2, SameKeyOrder, FitsKept DEF Fits
    <3> QED BY <1>2, <3>1, <3>3 DEF Fits
  <2> QED BY <2>1, <1>2 DEF RequestsFit, Fits
<1>5. InsertsApart'
  <2>1. ASSUME NEW q \in Requests \ {r}, Inserting(q), me.pc = "written" /\ me.op \in Inserts
        PROVE  /\ req[q].at # me.at
               /\ ~Clash(req[q].new, me.new) /\ ~Clash(me.new, req[q].new)
    <3>1. Fits(req[q]) /\ req[q].at \in Ids \cup {0} /\ me.at \in Ids \cup {0}
      BY RequestFields DEF RequestsFit, Request
    <3>2. req[q].at <= last /\ me.at > last
      BY <2>1, <3>1 DEF Inserting, Open, Fits
    <3>3. ~Clash(req[q].new, me.new) BY <2>1 DEF Inserting
    <3>4. ~Clash(me.new, req[q].new) BY <3>3, ClashSymmetric
    <3>5. last \in Nat /\ req[q].at \in Nat /\ me.at \in Nat
      BY <3>1, MarketplaceAssumption DEF TypeOK, Ids
    <3> QED BY <3>2, <3>3, <3>4, <3>5
  <2> QED BY <2>1, <1>2 DEF InsertsApart, Inserting, Open
<1>6. IdsInOrder' BY MarketplaceAssumption DEF IdsInOrder, TypeOK, Ids
<1>7. KeysUnique' BY DEF KeysUnique
<1>8. NoRowWithoutTask' BY DEF Handed, NoRowWithoutTask, Table
<1>9. PublishedHasVersion' BY DEF PublishedHasVersion, Catalogue, Available, VersionsOf, Table
<1> QED BY <1>3, <1>4, <1>5, <1>6, <1>7, <1>8, <1>9

(* The checks of an operation are passed: it fits as long as it has not    *)
(* written.                                                                *)
LEMMA CheckedKeeps ==
  ASSUME MInv, NEW r \in Requests, NEW op \in Ops, NEW row \in Row \cup {NoRow},
         NEW ids \in SUBSET Ids, Checked(r, op, row, ids),
         Fits([Idle EXCEPT !.pc = "checked", !.op = op, !.new = row, !.ids = ids])
  PROVE  MInv'
<1>1. PICK me \in Request :
        me = [Idle EXCEPT !.pc = "checked", !.op = op, !.new = row, !.ids = ids]
  BY DEF Idle, Request
<1>2. req' = [req EXCEPT ![r] = me] /\ UNCHANGED <<db, last, published, unqueued>> BY <1>1 DEF Checked
<1>3. used' \in [Counted -> Nat] BY BudgetType DEF Checked, MInv
<1>4. Fits(me) /\ me.pc = "checked" BY <1>1 DEF Idle
<1>5. Fits(me)' BY <1>2, <1>4 DEF Fits, VersionsOf, Table
<1>6. /\ last' \in Nat /\ last' >= last
      /\ Handed \subseteq Handed' /\ Handed' \subseteq Tasks
  BY <1>2 DEF Handed, MInv, TypeOK
<1> QED BY <1>2, <1>3, <1>4, <1>5, <1>6, RequestStep

LEMMA ProductRequestKeeps ==
  ASSUME MInv, NEW r \in Requests, ProductRequest(r)
  PROVE  MInv'
<1>0. {"create", "publish", "archive"} \subseteq Ops /\ Table("product") \subseteq Ids
      /\ NoRow \in Row \cup {NoRow} /\ {} \in SUBSET Ids
  BY DEF Ops, Table
<1>1. ASSUME NEW c \in Codes, CreateProduct(r, c) PROVE MInv'
  <2> DEFINE row == [table |-> "product", code |-> c, status |-> "DRAFT"]
  <2>1. row \in Row BY DEF Row, ProductRow, ProductStatuses
  <2>2. Checked(r, "create", row, {}) BY <1>1 DEF CreateProduct
  <2>3. Fits([Idle EXCEPT !.pc = "checked", !.op = "create", !.new = row, !.ids = {}])
    BY <1>0, <2>1 DEF Fits, Idle, Inserts, TableOf
  <2> HIDE DEF row
  <2> QED BY <1>0, <2>1, <2>2, <2>3, CheckedKeeps
<1>2. ASSUME NEW p \in Table("product"), PublishProduct(r, p) PROVE MInv'
  <2>1. Checked(r, "publish", NoRow, {p}) /\ VersionsOf(p) # {}
    BY <1>2 DEF PublishProduct
  <2>2. Fits([Idle EXCEPT !.pc = "checked", !.op = "publish", !.new = NoRow, !.ids = {p}])
    BY <1>0, <2>1 DEF Fits, Idle, Inserts, TableOf, Table
  <2>3. "publish" \in Ops /\ NoRow \in Row \cup {NoRow} /\ {p} \in SUBSET Ids BY <1>0
  <2> QED BY <2>1, <2>2, <2>3, CheckedKeeps
<1>3. ASSUME NEW p \in Table("product"), ArchiveProduct(r, p) PROVE MInv'
  <2>1. Checked(r, "archive", NoRow, {p}) BY <1>3 DEF ArchiveProduct
  <2>2. Fits([Idle EXCEPT !.pc = "checked", !.op = "archive", !.new = NoRow, !.ids = {p}])
    BY <1>0 DEF Fits, Idle, Inserts, TableOf, Table
  <2>3. "archive" \in Ops /\ NoRow \in Row \cup {NoRow} /\ {p} \in SUBSET Ids BY <1>0
  <2> QED BY <2>1, <2>2, <2>3, CheckedKeeps
<1> QED BY <1>1, <1>2, <1>3 DEF ProductRequest

LEMMA ReleaseRequestKeeps ==
  ASSUME MInv, NEW r \in Requests, ReleaseRequest(r)
  PROVE  MInv'
<1>0. /\ {"version", "pricing", "retire"} \subseteq Ops
      /\ Table("product") \subseteq Ids /\ Table("version") \subseteq Ids
      /\ NoRow \in Row \cup {NoRow} /\ {} \in SUBSET Ids
  BY DEF Ops, Table
<1>1. ASSUME NEW p \in Table("product"), NEW string \in Strings, AddProductVersion(r, p, string)
      PROVE  MInv'
  <2> DEFINE row == [table |-> "version", product |-> p, string |-> string, active |-> TRUE]
  <2>1. row \in Row BY <1>0 DEF Row, VersionRow
  <2>2. Checked(r, "version", row, {}) BY <1>1 DEF AddProductVersion
  <2>3. Fits([Idle EXCEPT !.pc = "checked", !.op = "version", !.new = row, !.ids = {}])
    BY <1>0, <2>1 DEF Fits, Idle, Inserts, TableOf
  <2> HIDE DEF row
  <2> QED BY <1>0, <2>1, <2>2, <2>3, CheckedKeeps
<1>2. ASSUME NEW v \in Table("version"), RetireVersion(r, v) PROVE MInv'
  <2>1. Checked(r, "retire", NoRow, {v}) BY <1>2 DEF RetireVersion
  <2>2. Fits([Idle EXCEPT !.pc = "checked", !.op = "retire", !.new = NoRow, !.ids = {v}])
    BY <1>0 DEF Fits, Idle, Inserts, TableOf, Table
  <2>3. "retire" \in Ops /\ NoRow \in Row \cup {NoRow} /\ {v} \in SUBSET Ids BY <1>0
  <2> QED BY <2>1, <2>2, <2>3, CheckedKeeps
<1>3. ASSUME NEW v \in Table("version"), NEW isDefault \in BOOLEAN, SetPricing(r, v, isDefault)
      PROVE  MInv'
  <2> DEFINE row == [table |-> "plan", version |-> v, default |-> isDefault]
             ids == IF isDefault THEN Defaults(v) ELSE {}
  <2>1. row \in Row /\ ids \in SUBSET Ids BY <1>0 DEF Row, PlanRow, Defaults, Table
  <2>2. Checked(r, "pricing", row, ids) BY <1>3 DEF SetPricing
  <2>3. \A i \in ids : isDefault /\ db[i].table = "plan" /\ db[i].version = v
    BY DEF Defaults, Table
  <2>4. Fits([Idle EXCEPT !.pc = "checked", !.op = "pricing", !.new = row, !.ids = ids])
    <3> HIDE DEF ids
    <3> QED BY <1>0, <2>1, <2>3 DEF Fits, Idle, Inserts, TableOf
  <2> HIDE DEF row, ids
  <2> QED BY <1>0, <2>1, <2>2, <2>4, CheckedKeeps
<1> QED BY <1>1, <1>2, <1>3 DEF ReleaseRequest

LEMMA TenantRequestKeeps ==
  ASSUME MInv, NEW r \in Requests, TenantRequest(r)
  PROVE  MInv'
<1>0. /\ {"install", "upgrade", "uninstall"} \subseteq Ops
      /\ \A t \in {"product", "version", "plan", "sub"} : Table(t) \subseteq Ids
      /\ NoRow \in Row \cup {NoRow} /\ {} \in SUBSET Ids
  BY DEF Ops, Table
<1>1. ASSUME NEW p \in Table("product"), NEW t \in Tenants, InstallProduct(r, t, p)
      PROVE  MInv'
  <2>0. PICK v \in VersionsOf(p) : \E plan \in Table("plan") \cup {DefaultPlan(v)} :
          Checked(r, "install", [table |-> "sub", tenant |-> t, product |-> p,
                                 version |-> v, plan |-> plan, status |-> "PENDING"], {})
    BY <1>1 DEF InstallProduct
  <2>1. PICK plan \in Table("plan") \cup {DefaultPlan(v)} :
          Checked(r, "install", [table |-> "sub", tenant |-> t, product |-> p,
                                 version |-> v, plan |-> plan, status |-> "PENDING"], {})
    BY <2>0
  <2> DEFINE row == [table |-> "sub", tenant |-> t, product |-> p,
                     version |-> v, plan |-> plan, status |-> "PENDING"]
  <2>2. v \in Ids /\ p \in Ids BY <1>0 DEF VersionsOf
  <2>3. DefaultPlan(v) \in Ids \cup {0} BY DefaultPlanType
  <2>4. row \in Row BY <1>0, <2>2, <2>3 DEF Row, SubRow, SubStatuses
  <2>5. Fits([Idle EXCEPT !.pc = "checked", !.op = "install", !.new = row, !.ids = {}])
    BY <1>0, <2>4 DEF Fits, Idle, Inserts, TableOf
  <2>6. Checked(r, "install", row, {}) BY <2>1
  <2> HIDE DEF row
  <2> QED BY <1>0, <2>4, <2>5, <2>6, CheckedKeeps
<1>2. ASSUME NEW s \in Table("sub"), UninstallProduct(r, s) PROVE MInv'
  <2>1. Checked(r, "uninstall", NoRow, {s}) BY <1>2 DEF UninstallProduct
  <2>2. Fits([Idle EXCEPT !.pc = "checked", !.op = "uninstall", !.new = NoRow, !.ids = {s}])
    BY <1>0 DEF Fits, Idle, Inserts, TableOf, Table
  <2>3. "uninstall" \in Ops /\ NoRow \in Row \cup {NoRow} /\ {s} \in SUBSET Ids BY <1>0
  <2> QED BY <2>1, <2>2, <2>3, CheckedKeeps
<1>3. ASSUME NEW s \in Table("sub"), NEW v \in Table("version"), UpgradeProduct(r, s, v)
      PROVE  MInv'
  <2> DEFINE row == [db[s] EXCEPT !.version = v]
  <2>1. db[s] \in SubRow /\ db[s].status = "ACTIVE" /\ s \in Ids /\ v \in Ids
    BY <1>0, <1>3, RowTables DEF UpgradeProduct, Table, MInv, TypeOK
  <2>2. row \in SubRow /\ row.status = "ACTIVE" /\ SameKey(db[s], row)
    BY <2>1 DEF SubRow, SameKey
  <2>3. Checked(r, "upgrade", row, {s}) BY <1>3 DEF UpgradeProduct
  <2> HIDE DEF row
  <2>4. Fits([Idle EXCEPT !.pc = "checked", !.op = "upgrade", !.new = row, !.ids = {s}])
    BY <1>0, <2>2 DEF Fits, Idle, Inserts, TableOf, Table
  <2>5. row \in Row BY <2>2 DEF Row
  <2> QED BY <1>0, <2>1, <2>3, <2>4, <2>5, CheckedKeeps
<1> QED BY <1>1, <1>2, <1>3 DEF TenantRequest

LEMMA FailKeeps ==
  ASSUME MInv, NEW r \in Requests, Fail(r)
  PROVE  MInv'
<1>1. /\ req' = [req EXCEPT ![r] = Idle] /\ UNCHANGED <<db, last, published, unqueued>>
      /\ used' \in [Counted -> Nat]
  BY BudgetType DEF Fail, MInv
<1>2. /\ last' \in Nat /\ last' >= last
      /\ Handed \subseteq Handed' /\ Handed' \subseteq Tasks
  BY <1>1 DEF Handed, MInv, TypeOK
<1>3. Fits(Idle)' BY <1>1, IdleFits DEF Fits, Idle, Inserts
<1> QED BY <1>1, <1>2, <1>3, IdleFits, RequestStep

(* Tasks are due for subscriptions; the ones a Fits needs are among them.  *)
LEMMA DueTasks ==
  ASSUME NEW me, NEW subs \in SUBSET Ids
  PROVE  /\ Due(me, subs) \subseteq Tasks
         /\ me.op = "install"   => \A s \in subs : Provisioning(s) \in Due(me, subs)
         /\ me.op = "uninstall" => \A s \in subs : Decommissioning(s) \in Due(me, subs)
<1>1. DOMAIN TaskOf = {"install", "upgrade", "uninstall"}
      /\ TaskOf["install"] = "provision" /\ TaskOf["upgrade"] = "upgrade"
      /\ TaskOf["uninstall"] = "decommission"
  BY DEF TaskOf
<1> QED BY <1>1 DEF Due, Tasks, Provisioning, Decommissioning

(* What is due reaches the broker or the log.                              *)
LEMMA TriggerHands ==
  ASSUME TypeOK, NEW tasks \in SUBSET Tasks, Trigger(tasks)
  PROVE  /\ Handed \subseteq Handed' /\ Handed' \subseteq Tasks
         /\ tasks \subseteq Handed' /\ used' \in [Counted -> Nat]
BY DEF Trigger, Handed, TypeOK

LEMMA WriteKeeps ==
  ASSUME MInv, NEW r \in Requests, Write(r)
  PROVE  MInv'
<1> DEFINE isNew == req[r].op \in Inserts
           ids   == Matched(req[r].op, req[r].ids)
           at    == IF isNew THEN last + 1 ELSE 0
<1>1. req \in [Requests -> Request] /\ req[r] \in Request /\ Fits(req[r])
  BY DEF MInv, TypeOK, RequestsFit
<1>2. last \in Nat /\ MaxRows \in Nat BY MarketplaceAssumption DEF MInv, TypeOK
<1>3. /\ req[r].pc = "checked" /\ at <= MaxRows /\ UNCHANGED db
      /\ \A q \in Requests : Open(q) /\ isNew => ~Clash(req[q].new, req[r].new)
  BY DEF Write
<1>4. used \in [Counted -> Nat] BY DEF MInv, TypeOK
<1>5. ids \subseteq req[r].ids /\ ids \subseteq Ids BY <1>1 DEF Matched, Request
<1>6. at \in Ids \cup {0} /\ (isNew <=> at # 0) /\ (at # 0 => at = last + 1)
  BY <1>2, <1>3 DEF Ids
<1>7. CASE req' = [req EXCEPT ![r] = Idle] /\ UNCHANGED <<last, published, unqueued, used>>
  <2>1. Fits(Idle)' BY IdleFits DEF Fits, Idle, Inserts
  <2>2. /\ last' \in Nat /\ last' >= last
        /\ Handed \subseteq Handed' /\ Handed' \subseteq Tasks
    BY <1>7 DEF Handed, MInv, TypeOK
  <2> QED BY <1>3, <1>4, <1>7, <2>1, <2>2, IdleFits, RequestStep
<1>8. CASE /\ ~(isNew /\ KeyTaken(req[r].new))
           /\ req' = [req EXCEPT ![r].pc = "written", ![r].ids = ids, ![r].at = at]
           /\ last' = IF isNew THEN at ELSE last
           /\ Trigger(Due(req[r], ids \cup ({at} \ {0})))
  <2> HIDE DEF ids, at
  <2>1. PICK me \in Request :
          me = [req[r] EXCEPT !.pc = "written", !.ids = ids, !.at = at]
    BY <1>1, <1>5, <1>6 DEF Request
  <2>2. /\ me.pc = "written" /\ me.ids = ids /\ me.at = at
        /\ me.op = req[r].op /\ me.new = req[r].new
    BY <1>1, <2>1 DEF Request
  <2>3. req' = [req EXCEPT ![r] = me] BY <1>1, <1>8, <2>1
  <2>4. last' \in Nat /\ last' >= last /\ (at # 0 => at > last /\ at <= last')
    BY <1>2, <1>6, <1>8
  <2>5. at # 0 => db[at] = NoRow BY <1>2, <1>6 DEF MInv, IdsInOrder
  <2>6. ids \cup ({at} \ {0}) \in SUBSET Ids BY <1>5, <1>6
  <2>7. /\ Handed \subseteq Handed' /\ Handed' \subseteq Tasks
        /\ Due(req[r], ids \cup ({at} \ {0})) \subseteq Handed'
        /\ used' \in [Counted -> Nat]
    BY <1>8, <2>6, DueTasks, TriggerHands DEF MInv
  <2>8. /\ me.op = "install" => Provisioning(at) \in Handed'
        /\ me.op = "uninstall" => \A s \in ids : Decommissioning(s) \in Handed'
    <3>1. me.op = "install" => at \in ids \cup ({at} \ {0}) BY <1>6, <2>2 DEF Inserts
    <3> QED BY <2>2, <2>6, <2>7, <3>1, DueTasks
  <2>9. isNew => \A i \in Ids : ~Clash(db[i], me.new) BY <1>8, <2>2 DEF KeyTaken
  <2>10. Fits(me)'
    BY <1>1, <1>3, <1>5, <1>6, <2>2, <2>4, <2>5, <2>8, <2>9 DEF Fits, VersionsOf, Table
  <2> QED BY <1>3, <1>6, <2>2, <2>3, <2>4, <2>7, <2>10, RequestStep
<1> QED BY <1>7, <1>8 DEF Write

-----------------------------------------------------------------------------
(* The commit: what it makes of each row.                                  *)
LEMMA CommitRows ==
  ASSUME MInv, NEW r \in Requests, Commit(r)
  PROVE  /\ db' \in [Ids -> Row \cup {NoRow}]
         /\ \A i \in Ids :
              /\ i = req[r].at => db'[i] = req[r].new /\ db[i] = NoRow /\ db'[i] \in Row
              /\ i # req[r].at /\ i \in req[r].ids =>
                   /\ db'[i] = Updated(req[r].op, db[i], req[r].new)
                   /\ db[i] \in Row /\ db'[i] \in Row /\ SameKey(db[i], db'[i])
                   /\ db[i].table = TableOf[req[r].op]
              /\ i # req[r].at /\ i \notin req[r].ids => db'[i] = db[i]
<1> DEFINE row(i) == CASE i = req[r].at    -> req[r].new
                       [] i \in req[r].ids -> Updated(req[r].op, db[i], req[r].new)
                       [] OTHER            -> db[i]
<1>1. Fits(req[r]) /\ req[r].pc = "written" /\ 0 \notin Ids
  BY DEF MInv, RequestsFit, Commit, Open, Ids
<1>2. db' = [i \in Ids |-> row(i)] BY DEF Commit
<1>3. ASSUME NEW i \in req[r].ids
      PROVE  /\ i \in Ids /\ db[i] \in Row /\ i # req[r].at
             /\ Updated(req[r].op, db[i], req[r].new) \in Row
             /\ SameKey(db[i], Updated(req[r].op, db[i], req[r].new))
             /\ db[i].table = TableOf[req[r].op]
  <2>1. i \in Ids /\ req[r].op \in Ops /\ db[i].table = TableOf[req[r].op]
    BY <1>1, RequestFields DEF MInv, Fits
  <2>2. req[r].op \in DOMAIN TableOf /\ TableOf[req[r].op] \in {"product", "version", "plan", "sub"}
    BY <2>1 DEF TableOf, Ops
  <2>3. db[i] \in Row \cup {NoRow} /\ db[i] # NoRow
    BY <2>1, <2>2 DEF MInv, TypeOK, NoRow
  <2>4. i # req[r].at BY <1>1, <2>1, <2>3 DEF Fits
  <2>5. req[r].op \notin Inserts \/ req[r].op = "pricing"
    BY <1>1, <1>3 DEF Fits, Inserts
  <2>6. req[r].op = "upgrade" => req[r].new \in SubRow /\ SameKey(db[i], req[r].new)
    BY <1>1, <1>3 DEF Fits
  <2> QED BY <2>1, <2>2, <2>3, <2>4, <2>5, <2>6, UpdatedRow
<1>4. ASSUME NEW i \in Ids, i = req[r].at
      PROVE  db[i] = NoRow /\ req[r].new \in Row /\ i \notin req[r].ids
  BY <1>1, <1>3, <1>4 DEF Fits
<1>5. \A i \in Ids :
        /\ i = req[r].at => row(i) = req[r].new
        /\ i # req[r].at /\ i \in req[r].ids => row(i) = Updated(req[r].op, db[i], req[r].new)
        /\ i # req[r].at /\ i \notin req[r].ids => row(i) = db[i]
  BY <1>4
<1> HIDE DEF row
<1>6. \A i \in Ids : row(i) \in Row \cup {NoRow}
  BY <1>3, <1>4, <1>5 DEF MInv, TypeOK
<1> QED BY <1>2, <1>3, <1>4, <1>5, <1>6

(* What a row is it stays, through every commit and activation.            *)
LEMMA VersionsKept ==
  ASSUME \A i \in Ids : db[i] # NoRow => SameKey(db[i], db'[i]), NEW p \in Ids
  PROVE  VersionsOf(p) \subseteq VersionsOf(p)'
<1> SUFFICES ASSUME NEW v \in VersionsOf(p) PROVE v \in VersionsOf(p)'
    OBVIOUS
<1>1. v \in Ids /\ db[v].table = "version" /\ db[v].product = p
  BY DEF VersionsOf, Table
<1>2. SameKey(db[v], db'[v]) BY <1>1 DEF NoRow
<1> QED BY <1>1, <1>2 DEF SameKey, VersionsOf, Table

LEMMA CommitKeepsKeys ==
  ASSUME MInv, NEW r \in Requests, Commit(r)
  PROVE  /\ \A i \in Ids : i # req[r].at => SameKey(db[i], db'[i])
         /\ KeysUnique'
<1>1. \A i \in Ids : i # req[r].at => SameKey(db[i], db'[i])
  BY CommitRows, SameKeyOrder
<1>2. Fits(req[r]) /\ req[r].pc = "written" BY DEF MInv, RequestsFit, Commit, Open
<1>3. ASSUME NEW i \in Ids, i # req[r].at, NEW j \in Ids, j = req[r].at
      PROVE  ~Clash(db'[i], db'[j])
  <2>1. db'[j] = req[r].new /\ req[r].at # 0 BY <1>3, CommitRows DEF Ids
  <2>2. ~Clash(db[i], req[r].new) BY <1>2, <2>1 DEF Fits
  <2> QED BY <1>1, <1>3, <2>1, <2>2, ClashByKey
<1>4. ASSUME NEW i \in Ids, i # req[r].at, NEW j \in Ids, j # req[r].at, i # j
      PROVE  ~Clash(db'[i], db'[j])
  <2>1. ~Clash(db[i], db[j]) BY <1>4 DEF MInv, KeysUnique
  <2>2. ~Clash(db'[i], db[j]) BY <1>1, <1>4, <2>1, ClashByKey
  <2>3. ~Clash(db[j], db'[i]) BY <2>2, ClashSymmetric
  <2>4. ~Clash(db'[j], db'[i]) BY <1>1, <1>4, <2>3, ClashByKey
  <2> QED BY <2>4, ClashSymmetric
<1>5. ASSUME NEW i \in Ids, NEW j \in Ids, i # j PROVE ~Clash(db'[i], db'[j])
  <2>1. CASE i = req[r].at
    <3>1. ~Clash(db'[j], db'[i]) BY <1>3, <1>5, <2>1
    <3> QED BY <3>1, ClashSymmetric
  <2>2. CASE i # req[r].at BY <1>3, <1>4, <1>5, <2>2
  <2> QED BY <2>1, <2>2
<1> QED BY <1>1, <1>5 DEF KeysUnique

LEMMA CommitKeepsRequests ==
  ASSUME MInv, NEW r \in Requests, Commit(r)
  PROVE  RequestsFit' /\ InsertsApart'
<1>1. req \in [Requests -> Request] /\ req' = [req EXCEPT ![r] = Idle]
      /\ UNCHANGED <<last, published, unqueued>> /\ Open(r)
  BY DEF Commit, MInv, TypeOK
<1>2. \A i \in Ids : db[i] # NoRow => SameKey(db[i], db'[i])
  BY CommitRows, SameKeyOrder
<1>3. ASSUME NEW q \in Requests \ {r} PROVE Fits(req[q])'
  <2>1. PICK me \in Request : me = req[q] BY <1>1
  <2>2. Fits(me) /\ Fits(req[r]) BY <2>1 DEF MInv, RequestsFit
  <2>3. me.at # 0 => db'[me.at] = NoRow
    <3> SUFFICES ASSUME me.at # 0 PROVE db'[me.at] = NoRow
        OBVIOUS
    <3>1. me.at \in Ids /\ db[me.at] = NoRow /\ Inserting(q)
      BY <2>1, <2>2 DEF Fits, Request, Inserting, Open
    <3>2. me.at # req[r].at
      <4>1. CASE req[r].at = 0 BY <4>1
      <4>2. CASE req[r].at # 0
        <5>1. Inserting(r) BY <2>2, <4>2, <1>1 DEF Fits, Inserting
        <5> QED BY <2>1, <3>1, <5>1 DEF MInv, InsertsApart
      <4> QED BY <4>1, <4>2
    <3>3. me.at \notin req[r].ids
      <4>1. NoRow \notin Row BY DEF NoRow, Row, ProductRow, VersionRow, PlanRow, SubRow
      <4> QED BY <3>1, <3>2, <4>1, CommitRows
    <3> QED BY <3>1, <3>2, <3>3, CommitRows
  <2>4. ASSUME me.pc = "written", me.op \in Inserts, NEW i \in Ids
        PROVE  ~Clash(db'[i], me.new)
    <3>1. CASE i = req[r].at
      <4>1. db'[i] = req[r].new /\ req[r].at # 0 BY <3>1, CommitRows DEF Ids
      <4>2. Inserting(r) /\ Inserting(q)
        BY <1>1, <2>1, <2>2, <2>4, <4>1 DEF Fits, Inserting, Open
      <4> QED BY <2>1, <4>1, <4>2 DEF MInv, InsertsApart
    <3>2. CASE i # req[r].at
      <4>1. ~Clash(db[i], me.new) BY <2>2, <2>4 DEF Fits
      <4> QED BY <3>2, <4>1, CommitKeepsKeys, ClashByKey
    <3> QED BY <3>1, <3>2
  <2>5. last' >= last /\ last' \in Nat /\ Handed \subseteq Handed' /\ TypeOK
    BY <1>1 DEF Handed, MInv, TypeOK
  <2>6. Fits(me)' BY <1>2, <2>2, <2>3, <2>4, <2>5, FitsKept
  <2>7. req'[q] = me BY <1>1, <2>1
  <2> QED BY <2>6, <2>7 DEF Fits
<1>4. Fits(Idle)' BY IdleFits DEF Fits, Idle, Inserts
<1>5. RequestsFit' BY <1>1, <1>3, <1>4 DEF RequestsFit, Fits
<1>6. InsertsApart' BY <1>1, IdleFits DEF MInv, InsertsApart, Inserting, Open
<1> QED BY <1>5, <1>6

LEMMA CommitKeepsPromises ==
  ASSUME MInv, NEW r \in Requests, Commit(r)
  PROVE  NoRowWithoutTask' /\ PublishedHasVersion'
<1>1. Fits(req[r]) /\ req[r].pc = "written" /\ UNCHANGED Handed /\ 0 \notin Ids
  BY DEF Handed, MInv, RequestsFit, Commit, Open, Ids
<1>2. req[r].op \in Ops BY <1>1 DEF Fits
<1>3. ASSUME NEW s \in Ids, db'[s].table = "sub"
      PROVE  /\ Provisioning(s) \in Handed
             /\ db'[s].status = "CANCELLED" => Decommissioning(s) \in Handed
  <2>1. CASE s = req[r].at
    <3>1. db'[s] = req[r].new /\ req[r].at # 0 BY <1>1, <2>1, CommitRows
    <3>2. req[r].op = "install"
      BY <1>1, <1>2, <1>3, <3>1 DEF Fits, Inserts, TableOf
    <3> QED BY <1>1, <2>1, <3>1, <3>2 DEF Fits
  <2>2. CASE s # req[r].at /\ s \in req[r].ids
    <3>1. /\ db'[s] = Updated(req[r].op, db[s], req[r].new)
          /\ db[s] \in Row /\ db[s].table = "sub" /\ TableOf[req[r].op] = "sub"
      BY <1>3, <2>2, CommitRows DEF SameKey
    <3>2. Provisioning(s) \in Handed
      BY <3>1 DEF Handed, MInv, NoRowWithoutTask, Table, Provisioning
    <3>3. req[r].op \in {"upgrade", "uninstall"}
      BY <1>1, <1>2, <2>2, <3>1 DEF TableOf, Ops, Fits
    <3>4. CASE req[r].op = "uninstall" BY <1>1, <2>2, <3>2, <3>4 DEF Fits
    <3>5. CASE req[r].op = "upgrade"
      BY <1>1, <3>1, <3>2, <3>5 DEF Fits, Updated
    <3> QED BY <3>3, <3>4, <3>5
  <2>3. CASE s # req[r].at /\ s \notin req[r].ids
    <3>1. db'[s] = db[s] BY <2>3, CommitRows
    <3> QED BY <1>3, <3>1 DEF Handed, MInv, NoRowWithoutTask, Table, Provisioning, Decommissioning
  <2> QED BY <2>1, <2>2, <2>3
<1>4. ASSUME NEW p \in Ids, db'[p].table = "product", db'[p].status = "PUBLISHED"
      PROVE  VersionsOf(p)' # {}
  <2>1. VersionsOf(p) # {}
    <3>1. CASE p = req[r].at
      <4>1. db'[p] = req[r].new /\ req[r].at # 0 BY <1>1, <3>1, CommitRows
      <4>2. req[r].op = "create"
        BY <1>1, <1>2, <1>4, <4>1 DEF Fits, Inserts, TableOf
      <4> QED BY <1>1, <1>4, <4>1, <4>2 DEF Fits
    <3>2. CASE p # req[r].at /\ p \in req[r].ids
      <4>1. /\ db'[p] = Updated(req[r].op, db[p], req[r].new)
            /\ db[p] \in Row /\ db[p].table = "product" /\ TableOf[req[r].op] = "product"
        BY <1>4, <3>2, CommitRows DEF SameKey
      <4>2. req[r].op \in {"publish", "archive"}
        BY <1>1, <1>2, <3>2, <4>1 DEF TableOf, Ops, Fits
      <4>3. CASE req[r].op = "publish" BY <1>1, <3>2, <4>3 DEF Fits
      <4>4. CASE req[r].op = "archive"
        <5>1. db[p] \in ProductRow BY <4>1, RowTables
        <5>2. db'[p] = [db[p] EXCEPT !.status = "ARCHIVED"] BY <4>1, <4>4 DEF Updated
        <5> QED BY <1>4, <5>1, <5>2 DEF ProductRow
      <4> QED BY <4>2, <4>3, <4>4
    <3>3. CASE p # req[r].at /\ p \notin req[r].ids
      <4>1. db'[p] = db[p] BY <3>3, CommitRows
      <4> QED BY <1>4, <4>1 DEF MInv, PublishedHasVersion, Catalogue, Available, Table
    <3> QED BY <3>1, <3>2, <3>3
  <2>2. \A i \in Ids : db[i] # NoRow => SameKey(db[i], db'[i])
    BY CommitRows, SameKeyOrder
  <2> QED BY <2>1, <2>2, VersionsKept
<1>5. NoRowWithoutTask'
  BY <1>1, <1>3 DEF Handed, NoRowWithoutTask, Table, Provisioning, Decommissioning
<1>6. PublishedHasVersion'
  BY <1>4 DEF PublishedHasVersion, Catalogue, Available, Table
<1> QED BY <1>5, <1>6

LEMMA CommitKeeps ==
  ASSUME MInv, NEW r \in Requests, Commit(r)
  PROVE  MInv'
<1>1. req' = [req EXCEPT ![r] = Idle] /\ UNCHANGED <<last, published, unqueued, used>>
  BY DEF Commit
<1>2. TypeOK' BY <1>1, CommitRows, IdleFits DEF MInv, TypeOK
<1>3. IdsInOrder'
  <2>1. ASSUME NEW i \in Ids, i > last PROVE db'[i] = NoRow
    <3>1. Fits(req[r]) /\ db[i] = NoRow BY <2>1 DEF MInv, RequestsFit, IdsInOrder
    <3>2. i # req[r].at
      BY <2>1, <3>1, MarketplaceAssumption DEF Fits, Ids, MInv, TypeOK
    <3>3. NoRow \notin Row BY DEF NoRow, Row, ProductRow, VersionRow, PlanRow, SubRow
    <3> QED BY <3>1, <3>2, <3>3, CommitRows
  <2> QED BY <1>1, <2>1 DEF IdsInOrder
<1> QED BY <1>2, <1>3, CommitKeepsKeys, CommitKeepsRequests, CommitKeepsPromises DEF MInv

(* The engine's activation changes one status, and no key.                 *)
LEMMA ActivateRows ==
  ASSUME MInv, NEW s \in Ids, Activate(s)
  PROVE  /\ db' \in [Ids -> Row \cup {NoRow}]
         /\ db[s] \in SubRow /\ db'[s] = [db[s] EXCEPT !.status = "ACTIVE"]
         /\ \A i \in Ids : /\ i # s => db'[i] = db[i]
                           /\ SameKey(db[i], db'[i])
                           /\ db'[i] = NoRow <=> db[i] = NoRow
<1>1. db \in [Ids -> Row \cup {NoRow}] BY DEF MInv, TypeOK
<1>2. db[s] \in SubRow BY <1>1, RowTables DEF Activate, Table
<1>3. PICK row \in SubRow :
        row = [db[s] EXCEPT !.status = "ACTIVE"] /\ SameKey(db[s], row)
  <2> DEFINE new == [db[s] EXCEPT !.status = "ACTIVE"]
  <2>1. new \in SubRow BY <1>2 DEF SubRow, SubStatuses
  <2>2. SameKey(db[s], new) BY <1>2 DEF SubRow, SameKey
  <2> QED BY <2>1, <2>2
<1>4. db' = [db EXCEPT ![s] = row] BY <1>1, <1>3 DEF Activate
<1>5. row # NoRow /\ db[s] # NoRow /\ row \in Row BY <1>2, <1>3 DEF Row, SubRow, NoRow
<1> QED BY <1>1, <1>2, <1>3, <1>4, <1>5, SameKeyOrder

LEMMA ActivateKeeps ==
  ASSUME MInv, NEW s \in Ids, Activate(s)
  PROVE  MInv'
<1>1. UNCHANGED <<last, req, published, unqueued, used>> BY DEF Activate
<1>2. TypeOK' BY <1>1, ActivateRows DEF MInv, TypeOK
<1>3. RequestsFit'
  <2>1. ASSUME NEW q \in Requests PROVE Fits(req[q])'
    <3>1. PICK me \in Request : me = req[q] BY DEF MInv, TypeOK
    <3>2. Fits(me) BY <3>1 DEF MInv, RequestsFit
    <3>3. me.at # 0 => db'[me.at] = NoRow
      BY <3>2, ActivateRows DEF Fits, Request
    <3>4. ASSUME me.pc = "written", me.op \in Inserts, NEW i \in Ids
          PROVE  ~Clash(db'[i], me.new)
      BY <3>2, <3>4, ActivateRows, ClashByKey DEF Fits
    <3>5. last' >= last /\ last' \in Nat /\ Handed \subseteq Handed' /\ TypeOK
      BY <1>1 DEF Handed, MInv, TypeOK
    <3>6. \A i \in Ids : db[i] # NoRow => SameKey(db[i], db'[i]) BY ActivateRows
    <3>7. Fits(me)' BY <3>2, <3>3, <3>4, <3>5, <3>6, FitsKept
    <3>8. req'[q] = me BY <1>1, <3>1
    <3> QED BY <3>7, <3>8 DEF Fits
  <2> QED BY <1>1, <2>1 DEF RequestsFit
<1>4. InsertsApart' BY <1>1 DEF MInv, InsertsApart, Inserting, Open
<1>5. IdsInOrder' BY <1>1, ActivateRows DEF MInv, IdsInOrder
<1>6. KeysUnique'
  <2>1. ASSUME NEW i \in Ids, NEW j \in Ids, i # j PROVE ~Clash(db'[i], db'[j])
    <3>1. ~Clash(db[i], db[j]) BY <2>1 DEF MInv, KeysUnique
    <3>2. ~Clash(db'[i], db[j]) BY <3>1, ActivateRows, ClashByKey
    <3>3. ~Clash(db[j], db'[i]) BY <3>2, ClashSymmetric
    <3>4. ~Clash(db'[j], db'[i]) BY <3>3, ActivateRows, ClashByKey
    <3> QED BY <3>4, ClashSymmetric
  <2> QED BY <2>1 DEF KeysUnique
<1>7. NoRowWithoutTask'
  <2>1. db'[s].status = "ACTIVE" BY ActivateRows DEF SubRow
  <2>2. ASSUME NEW i \in Ids, db'[i].table = "sub"
        PROVE  /\ Provisioning(i) \in Handed
               /\ db'[i].status = "CANCELLED" => Decommissioning(i) \in Handed
    <3>1. CASE i = s BY <2>1, <3>1 DEF Handed, Activate, Provisioning
    <3>2. CASE i # s
      BY <2>2, <3>2, ActivateRows
         DEF Handed, MInv, NoRowWithoutTask, Table, Provisioning, Decommissioning
    <3> QED BY <3>1, <3>2
  <2> QED BY <1>1, <2>2 DEF Handed, NoRowWithoutTask, Table, Provisioning, Decommissioning
<1>8. PublishedHasVersion'
  <2>1. ASSUME NEW p \in Ids, db'[p].table = "product", db'[p].status = "PUBLISHED"
        PROVE  VersionsOf(p)' # {}
    <3>1. p # s /\ db'[p] = db[p] BY <2>1, ActivateRows DEF SubRow
    <3>2. VersionsOf(p) # {}
      BY <2>1, <3>1 DEF MInv, PublishedHasVersion, Catalogue, Available, Table
    <3> QED BY <3>2, VersionsKept, ActivateRows
  <2> QED BY <2>1 DEF PublishedHasVersion, Catalogue, Available, Table
<1> QED BY <1>2, <1>3, <1>4, <1>5, <1>6, <1>7, <1>8 DEF MInv

-----------------------------------------------------------------------------
LEMMA InitHolds == Init => MInv
<1> SUFFICES ASSUME Init PROVE MInv
    OBVIOUS
<1> DEFINE code == CHOOSE c \in Codes : TRUE
           string == CHOOSE v \in Strings : TRUE
<1>1. code \in Codes /\ string \in Strings BY MarketplaceAssumption
<1>2. 1 \in Ids /\ 2 \in Ids /\ 3 \in Ids /\ \A i \in Ids : i \in Nat
  BY MarketplaceAssumption DEF Ids
<1> HIDE DEF code, string
<1>3. /\ DOMAIN db = Ids
      /\ db[1] = [table |-> "product", code |-> code, status |-> "PUBLISHED"]
      /\ db[2] = [table |-> "version", product |-> 1, string |-> string, active |-> TRUE]
      /\ db[3] = [table |-> "plan", version |-> 2, default |-> TRUE]
      /\ \A i \in Ids \ {1, 2, 3} : db[i] = NoRow
      /\ db = [i \in Ids |-> db[i]]
  BY <1>2 DEF Init, code, string
<1>4. db[1] \in Row /\ db[2] \in Row /\ db[3] \in Row
  BY <1>1, <1>2, <1>3 DEF Row, ProductRow, VersionRow, PlanRow, ProductStatuses
<1>5. TypeOK
  <2>1. db \in [Ids -> Row \cup {NoRow}] BY <1>3, <1>4
  <2> QED BY <2>1, IdleFits DEF Init, TypeOK
<1>6. RequestsFit BY IdleFits DEF Init, RequestsFit
<1>7. InsertsApart BY IdleFits DEF Init, InsertsApart, Inserting, Open
<1>8. IdsInOrder BY <1>2, <1>3 DEF Init, IdsInOrder
<1>9. KeysUnique BY <1>2, <1>3 DEF KeysUnique, Clash, NoRow
<1>10. NoRowWithoutTask BY <1>2, <1>3 DEF NoRowWithoutTask, Table, NoRow
<1>11. PublishedHasVersion
  <2>1. 2 \in VersionsOf(1) BY <1>2, <1>3 DEF VersionsOf, Table
  <2>2. \A p \in Catalogue : p = 1 BY <1>2, <1>3 DEF Catalogue, Table, NoRow
  <2> QED BY <2>1, <2>2 DEF PublishedHasVersion
<1> QED BY <1>5, <1>6, <1>7, <1>8, <1>9, <1>10, <1>11 DEF MInv

LEMMA StepKeeps == MInv /\ [Next]_vars => MInv'
<1> SUFFICES ASSUME MInv, [Next]_vars PROVE MInv'
    OBVIOUS
<1>1. ASSUME NEW r \in Requests,
             ProductRequest(r) \/ ReleaseRequest(r) \/ TenantRequest(r)
             \/ Write(r) \/ Commit(r) \/ Fail(r)
      PROVE  MInv'
  BY <1>1, ProductRequestKeeps, ReleaseRequestKeeps, TenantRequestKeeps,
     WriteKeeps, CommitKeeps, FailKeeps
<1>2. ASSUME NEW s \in Ids, Activate(s) PROVE MInv'
  BY <1>2, ActivateKeeps
<1>3. CASE UNCHANGED vars
  BY <1>3 DEF Handed, vars, MInv, TypeOK, RequestsFit, Fits, InsertsApart, Inserting, Open,
     IdsInOrder, KeysUnique, NoRowWithoutTask, PublishedHasVersion, Catalogue,
     Available, VersionsOf, Table
<1> QED BY <1>1, <1>2, <1>3 DEF Next

(* The invariant the theorems rest on, for every value of the constants.   *)
THEOREM Invariance == Spec => []MInv
BY InitHolds, StepKeeps, PTL DEF Spec

(* Every row, request and task has its type.                               *)
THEOREM MarketplaceTyping == Spec => []TypeOK
BY Invariance, PTL DEF MInv

(* However requests interleave between the exists() check and the insert,  *)
(* no code, version string or subscription is there twice.                 *)
THEOREM KeysStayUnique == Spec => []KeysUnique
BY Invariance, PTL DEF MInv

(* A subscription's provisioning, and a cancelled one's decommissioning,   *)
(* was handed to the engine, delay() coming before the commit, or the log  *)
(* says that the engine could not be imported.                             *)
THEOREM RowsHaveTasks == Spec => []NoRowWithoutTask
BY Invariance, PTL DEF MInv

(* A product in the catalogue has a release.                               *)
THEOREM PublishedProductsHaveVersions == Spec => []PublishedHasVersion
BY Invariance, PTL DEF MInv

-----------------------------------------------------------------------------
(* What a step may not do.                                                 *)
LEMMA CommitKeepsDefaults ==
  ASSUME MInv, NEW r \in Requests, Commit(r), NEW v, NEW i \in Defaults(v)
  PROVE  Defaults(v)' # {}
<1>1. i \in Ids /\ db[i].table = "plan" /\ db[i].version = v /\ db[i].default
  BY DEF Defaults, Table
<1>2. Fits(req[r]) /\ req[r].pc = "written" /\ req[r].op \in Ops
  BY DEF MInv, RequestsFit, Commit, Open, Fits
<1>3. i # req[r].at BY <1>1, CommitRows DEF NoRow
<1>4. CASE i \in req[r].ids
  <2>1. req[r].op = "pricing"
    BY <1>1, <1>2, <1>4 DEF Fits, TableOf, Ops
  <2>2. /\ req[r].at \in Ids /\ req[r].new.table = "plan"
        /\ req[r].new.default /\ req[r].new.version = v
    BY <1>1, <1>2, <1>4, <2>1, RequestFields DEF Fits, TableOf, Inserts, MInv
  <2>3. db'[req[r].at] = req[r].new BY <2>2, CommitRows
  <2>4. req[r].at \in Defaults(v)' BY <2>2, <2>3 DEF Defaults, Table
  <2> QED BY <2>4
<1>5. CASE i \notin req[r].ids
  <2>1. db'[i] = db[i] BY <1>1, <1>3, <1>5, CommitRows
  <2>2. i \in Defaults(v)' BY <1>1, <2>1 DEF Defaults, Table
  <2> QED BY <2>2
<1> QED BY <1>4, <1>5

LEMMA RowsChange ==
  ASSUME [Next]_vars
  PROVE  \/ UNCHANGED db
         \/ \E r \in Requests : Commit(r)
         \/ \E s \in Ids : Activate(s)
BY DEF Next, vars, ProductRequest, ReleaseRequest, TenantRequest, CreateProduct,
   PublishProduct, ArchiveProduct, AddProductVersion, RetireVersion, SetPricing,
   InstallProduct, UninstallProduct, UpgradeProduct, Checked, Write, Fail

(* A version with a default plan has one after every step, whatever other  *)
(* request set_pricing overlaps: the plan it inserts commits with the      *)
(* clearing of the ones it read.                                           *)
THEOREM DefaultsLast == Spec => DefaultPlanKept
<1>1. ASSUME MInv, [Next]_vars
      PROVE  [\A v \in Table("version") : Defaults(v) # {} => Defaults(v)' # {}]_vars
  <2>1. ASSUME NEW v, NEW i \in Defaults(v) PROVE Defaults(v)' # {}
    <3>1. CASE UNCHANGED db BY <2>1, <3>1 DEF Defaults, Table
    <3>2. ASSUME NEW r \in Requests, Commit(r) PROVE Defaults(v)' # {}
      BY <1>1, <2>1, <3>2, CommitKeepsDefaults
    <3>3. ASSUME NEW s \in Ids, Activate(s) PROVE Defaults(v)' # {}
      <4>1. i \in Ids /\ db[i].table = "plan" BY <2>1 DEF Defaults, Table
      <4>2. i # s BY <3>3, <4>1 DEF Activate, Table
      <4>3. db'[i] = db[i] BY <1>1, <3>3, <4>1, <4>2, ActivateRows
      <4>4. i \in Defaults(v)' BY <2>1, <4>3 DEF Defaults, Table
      <4> QED BY <4>4
    <3> QED BY <1>1, <3>1, <3>2, <3>3, RowsChange
  <2> QED BY <2>1
<1> QED BY <1>1, Invariance, PTL DEF Spec, DefaultPlanKept

(* A subscription that left PENDING never goes back: an upgrade's save()   *)
(* puts back a whole row it read before, but a row it read ACTIVE.         *)
THEOREM ActivationsLast == Spec => ActivationKept
<1>1. ASSUME MInv, [Next]_vars
      PROVE  [\A s \in Table("sub") :
                db[s].status # "PENDING" => db'[s].status # "PENDING"]_vars
  <2>1. ASSUME NEW s \in Table("sub"), db[s].status # "PENDING"
        PROVE  db'[s].status # "PENDING"
    <3>0. s \in Ids /\ db[s].table = "sub" BY DEF Table
    <3>1. CASE UNCHANGED db BY <2>1, <3>1
    <3>2. ASSUME NEW r \in Requests, Commit(r) PROVE db'[s].status # "PENDING"
      <4>1. Fits(req[r]) /\ req[r].op \in Ops
        BY <1>1, <3>2 DEF MInv, RequestsFit, Commit, Open, Fits
      <4>2. s # req[r].at BY <1>1, <3>0, <3>2, CommitRows DEF NoRow
      <4>3. CASE s \in req[r].ids
        <5>1. db'[s] = Updated(req[r].op, db[s], req[r].new) /\ db[s] \in SubRow
          BY <1>1, <3>0, <3>2, <4>2, <4>3, CommitRows, RowTables
        <5>2. req[r].op \in {"upgrade", "uninstall"}
          BY <3>0, <4>1, <4>3 DEF Fits, TableOf, Ops
        <5>3. CASE req[r].op = "upgrade" BY <4>1, <5>1, <5>3 DEF Fits, Updated
        <5>4. CASE req[r].op = "uninstall"
          <6>1. db'[s] = [db[s] EXCEPT !.status = "CANCELLED"] BY <5>1, <5>4 DEF Updated
          <6> QED BY <5>1, <6>1 DEF SubRow
        <5> QED BY <5>2, <5>3, <5>4
      <4>4. CASE s \notin req[r].ids
        BY <1>1, <2>1, <3>0, <3>2, <4>2, <4>4, CommitRows
      <4> QED BY <4>3, <4>4
    <3>3. ASSUME NEW t \in Ids, Activate(t) PROVE db'[s].status # "PENDING"
      <4>1. CASE s = t BY <1>1, <3>3, <4>1, ActivateRows DEF SubRow
      <4>2. CASE s # t BY <1>1, <2>1, <3>0, <3>3, <4>2, ActivateRows
      <4> QED BY <4>1, <4>2
    <3> QED BY <1>1, <3>1, <3>2, <3>3, RowsChange
  <2> QED BY <2>1
<1> QED BY <1>1, Invariance, PTL DEF Spec, ActivationKept
=============================================================================
