------------------------------ MODULE Records ------------------------------
(***************************************************************************)
(* Rows of a tenant's schema that refer to each other, and the requests    *)
(* that check and then write them.  A handler of master data, access       *)
(* management or billing is a script: the reads that may refuse it, each a *)
(* statement of its own, and then the statements that write.  Between two  *)
(* steps of a script any other request may take its own.                   *)
(*                                                                         *)
(* An id stands for the unique code of its row, so that a create of an id  *)
(* that is there meets the unique index.  Names, addresses and contacts    *)
(* are left out.                                                           *)
(***************************************************************************)
EXTENDS Naturals, Sequences, SequencesExt

CONSTANTS
    Customer, Company, Warehouse, Area, Zone, Bin, Product, Supplier, Uom, Conversion,
    User, Role, Menu, PlatformUser, Contract, Rate, Transaction,
    Req,      \* requests that may be in flight at a time
    MaxRequests,  \* bound: requests of a behaviour
    Focus,    \* bound: sets of tables, one of which a behaviour changes
    Refused,  \* a statement that the database refuses
    None      \* no row, no value given, no scope

Id == UNION {Customer, Company, Warehouse, Area, Zone, Bin, Product, Supplier, Uom, Conversion,
             User, Role, Menu, PlatformUser, Contract, Rate, Transaction}
Tables == <<Customer, Company, Warehouse, Area, Zone, Bin, Product, Supplier, Uom, Conversion,
            User, Role, Menu, PlatformUser, Contract, Rate, Transaction>>
Idle == <<>>

ASSUME RecordsAssumption ==
    /\ MaxRequests \in Nat
    /\ {None, Refused} \cap (Id \cup BOOLEAN) = {} /\ Refused # None
    /\ \A i, j \in DOMAIN Tables : i # j => Tables[i] \cap Tables[j] = {}
    /\ \A tables \in Focus : \A t \in tables : \E i \in DOMAIN Tables : t = Tables[i]

VARIABLES
    db,     \* rows, the links between two or more of them, and those switched on
    req,    \* requests in flight
    focus,  \* the tables this behaviour changes
    left,   \* requests that may still begin
    moved   \* history: places whose warehouse, area or zone was ever updated

vars == <<db, req, focus, left, moved>>

-----------------------------------------------------------------------------
(* The schema: where a field points, and which tables clear it when the    *)
(* row it points to is deleted.  Every other reference restricts.          *)
Target == [customer |-> Customer, owner |-> Company, operator |-> Company,
           warehouse |-> Warehouse, area |-> Area, zone |-> Zone, product |-> Product,
           from |-> Uom, to |-> Uom, base |-> Uom, parent |-> Menu, contract |-> Contract]
Cleared == [customer |-> Warehouse, owner |-> {}, operator |-> Warehouse \cup User \cup Transaction,
            warehouse |-> Transaction, area |-> Zone, zone |-> {}, product |-> {}, from |-> {},
            to |-> {}, base |-> Product, parent |-> Menu, contract |-> {}]
LinkType == (Warehouse \X Customer) \cup (Product \X Supplier) \cup (User \X Warehouse)
            \cup (User \X Role) \cup (Role \X Menu)
            \cup (Customer \X Warehouse \X Bin \X Product)

(* A row that is not there yet, and one that was deleted: ids are not      *)
(* given out twice.                                                        *)
Absent == [active |-> None]
Gone == [active |-> Refused]
There(row) == row.active \in BOOLEAN
Fields(row) == DOMAIN row \cap DOMAIN Target
Has(link, x) == \E i \in DOMAIN link : link[i] = x

(* Foreign keys.                                                           *)
Valid(d) ==
    /\ \A x \in Id : \A f \in Fields(d.rows[x]) :
          d.rows[x][f] = None \/ There(d.rows[d.rows[x][f]])
    /\ \A link \in d.links : \A i \in DOMAIN link : There(d.rows[link[i]])

-----------------------------------------------------------------------------
(* Checks.  Those of the second group read the request's scope.            *)
Exists(x) == <<[do |-> "exists", of |-> x]>>
Active(x) == <<[do |-> "active", of |-> x]>>
AllActive(S) == <<[do |-> "allActive", of |-> S]>>
Within(x, f, y) == <<[do |-> "within", of |-> x, field |-> f, to |-> y]>>
AllOf(S, x) == <<[do |-> "allOf", of |-> S, as |-> x]>>
Shared(w) == <<[do |-> "shared", of |-> w]>>
Admits(w, c) == <<[do |-> "admits", of |-> w, to |-> c]>>
NoChild(m) == <<[do |-> "noChild", of |-> m]>>

AdminOnly == <<[do |-> "scope", of |-> "admin"]>>
SomeScope == <<[do |-> "scope", of |-> "any"]>>
Allowed(w) == <<[do |-> "scope", of |-> "warehouse", in |-> w]>>
AllowedAt(x) == <<[do |-> "scope", of |-> "place", in |-> x]>>
AllowedCustomer(c) == <<[do |-> "scope", of |-> "customer", in |-> c]>>
AllowedCustomerOf(x) == <<[do |-> "scope", of |-> "customerOf", in |-> x]>>
AllowedOperator(o) == <<[do |-> "scope", of |-> "operator", in |-> o]>>
AllowedOwnerOperator(o, p) ==
    <<[do |-> "scope", of |-> "operator", in |-> IF p = None THEN o ELSE p]>>

(* Statements, and a transaction of several.                               *)
Insert(x, row) == <<[do |-> "insert", of |-> x, row |-> row]>>
Change(x, fields) == <<[do |-> "change", of |-> x, fields |-> fields]>>
Erase(x) == <<[do |-> "erase", of |-> x]>>
Upsert(links) == <<[do |-> "upsert", links |-> links]>>
CreateMany(links) == <<[do |-> "createMany", links |-> links]>>
SwitchOff(x, others) == <<[do |-> "off", of |-> x, others |-> others]>>
DeleteMany(x, others) == <<[do |-> "unlink", of |-> x, others |-> others]>>
EraseAll(S, f, x) == <<[do |-> "eraseAll", of |-> x, field |-> f, in |-> S]>>
Transact(all) == <<[do |-> "tx", all |-> all]>>

(* An array of statements handed to $transaction.  The tenant extension    *)
(* sends each to the tenant's own client, so that they run on their own,   *)
(* in any order, and one that fails does not take the others back.         *)
Batch(statements) == <<[do |-> "batch", any |-> ToSet(statements)]>>

When(given, steps) == IF given THEN steps ELSE <<>>

(* Fields of an update: a value of None means that it was not given.       *)
Given(f, v) == [g \in IF v = None THEN {} ELSE {f} |-> v]
OneField(f, S) == {[g \in {f} |-> v] : v \in S}
With(row, fields) ==
    [f \in DOMAIN fields \cup DOMAIN row |-> IF f \in DOMAIN fields THEN fields[f] ELSE row[f]]
Activity == OneField("active", BOOLEAN)

(* deleteX: a hard delete removes the row, any other deactivates it.       *)
Delete(x, hard) == IF hard THEN Erase(x) ELSE Change(x, [active |-> FALSE])

-----------------------------------------------------------------------------
Between(d, x, others) == {link \in d.links : Has(link, x) /\ \E y \in others : Has(link, y)}

(* What a deleted row takes with it.                                       *)
(* Mutated form: links that go with a row stay switched on.                *)
RemovedLeavingLinks(d, x) ==
    [rows |-> [d.rows EXCEPT ![x] = Gone],
     links |-> d.links \ Between(d, x, User \cup Warehouse), on |-> d.on]
Removed(d, x) ==
    LET gone == {link \in d.links : link \in User \X Warehouse /\ Has(link, x)}
    IN  [rows |-> [y \in Id |->
             IF y = x THEN Gone
             ELSE [f \in DOMAIN d.rows[y] |->
                      IF f \in Fields(d.rows[y]) /\ d.rows[y][f] = x /\ y \in Cleared[f]
                      THEN None ELSE d.rows[y][f]]],
         links |-> d.links \ gone, on |-> d.on \ gone]

Linked(d, links, on) == [rows |-> d.rows, links |-> links, on |-> on]

Ran(d, s) ==
    CASE s.do = "insert" ->
            IF d.rows[s.of] # Absent THEN Refused ELSE [d EXCEPT !.rows[s.of] = s.row]
      [] s.do = "change" ->
            IF ~There(d.rows[s.of]) THEN Refused ELSE [d EXCEPT !.rows[s.of] = With(@, s.fields)]
      [] s.do = "erase" -> IF ~There(d.rows[s.of]) THEN Refused ELSE Removed(d, s.of)
      [] s.do = "eraseAll" ->
            [d EXCEPT !.rows = [y \in Id |-> IF y \in s.in /\ There(@[y]) /\ @[y][s.field] = s.of
                                             THEN Gone ELSE @[y]]]
      [] s.do = "upsert" -> Linked(d, d.links \cup s.links, d.on \cup s.links)
      [] s.do = "createMany" ->
            IF s.links \cap d.links # {} THEN Refused
            ELSE Linked(d, d.links \cup s.links, d.on \cup s.links)
      [] s.do = "off" -> Linked(d, d.links, d.on \ Between(d, s.of, s.others))
      [] s.do = "unlink" -> Linked(d, d.links \ Between(d, s.of, s.others),
                                   d.on \ Between(d, s.of, s.others))
One(d, s) == IF d = Refused THEN Refused ELSE Ran(d, s)

(* The statements of a transaction, one after the other.                   *)
All(d, statements) ==
    LET after[i \in 0..Len(statements)] ==
            IF i = 0 THEN d ELSE One(after[i - 1], statements[i])
    IN  after[Len(statements)]

After(s) ==
    LET d == IF s.do = "tx" THEN All(db, s.all) ELSE One(db, s)
    IN  IF d = Refused THEN Refused ELSE IF Valid(d) THEN d ELSE Refused

-----------------------------------------------------------------------------
(* At first there are one company, warehouse and platform account, as the  *)
(* seed scripts leave them, and rows of the tables that the behaviour does *)
(* not change.                                                             *)
FirstOf(S) == IF S = {} THEN None ELSE CHOOSE x \in S : TRUE
Seeded == {FirstOf(Company), FirstOf(Warehouse), FirstOf(PlatformUser)}

Init ==
    /\ focus \in Focus
    /\ LET there(x) ==
               \/ x \in Seeded
               \/ x \notin Company \cup PlatformUser /\ \A t \in focus : x \notin t
           row(x) ==
               CASE x \in Customer \cup Company \cup Uom \cup Role -> [active |-> TRUE]
                 [] x \in PlatformUser -> [active |-> TRUE, role |-> "SUPER_ADMIN"]
                 [] x \in User -> [active |-> TRUE, operator |-> FirstOf(Company)]
                 [] x \in Warehouse ->
                       [active |-> TRUE, type |-> "SHARED", customer |-> None,
                        owner |-> FirstOf(Company), operator |-> None]
                 [] x \in Product /\ Customer \notin focus ->
                       [active |-> TRUE, customer |-> FirstOf(Customer), base |-> None]
                 [] OTHER -> Absent
           scoped == {l \in User \X Warehouse : there(l[1]) /\ l[2] = FirstOf(Warehouse)}
       IN  db = [rows |-> [x \in Id |-> IF there(x) THEN row(x) ELSE Absent],
                 links |-> scoped, on |-> scoped]
    /\ req = [r \in Req |-> Idle]
    /\ left = MaxRequests /\ moved = {}

Row(x) == db.rows[x]

(* What a request can name: rows that are there, and codes not yet taken.  *)
(* Any other id is refused by the first read, and no request begins here.  *)
Present(S) == {x \in S : There(Row(x))}
Fresh(S) == {x \in S : Row(x) = Absent}

IsActive(x) == Row(x).active = TRUE
WarehousesOf(u) == {w \in Warehouse : <<u, w>> \in db.links}

(* allowedCustomerIdsForUser: a warehouse's own customer and those mapped. *)
Reach(warehouses) ==
    {c \in Customer : \E w \in warehouses :
        (There(Row(w)) /\ Row(w).customer = c) \/ <<w, c>> \in db.on}

(* JwtStrategy.validate: None for a system administrator, or what the user *)
(* may act for, as read when the request begins.                           *)
Scopes == {None} \cup {[warehouses |-> WarehousesOf(u), operator |-> Row(u).operator] :
                           u \in {v \in User : IsActive(v)}}

(* assertUserAllowed...                                                    *)
InScope(scope, s) ==
    CASE s.of = "admin" -> FALSE
      [] s.of = "any" -> scope.warehouses # {} /\ scope.operator # None
      [] s.of = "warehouse" -> s.in \in scope.warehouses
      [] s.of = "place" -> There(Row(s.in)) /\ Row(s.in).warehouse \in scope.warehouses
      [] s.of = "customer" -> s.in \in Reach(scope.warehouses)
      [] s.of = "customerOf" -> There(Row(s.in)) /\ Row(s.in).customer \in Reach(scope.warehouses)
      [] s.of = "operator" -> scope.operator # None /\ s.in \in {None, scope.operator}

(* assertCustomerAllowedInWarehouse.                                       *)
Admitted(w, c) ==
    LET mapped == {x \in Customer : <<w, x>> \in db.on}
    IN  /\ IsActive(w)
        /\ IF Row(w).type = "DEDICATED" THEN Row(w).customer \in {None, c}
           ELSE mapped = {} \/ c \in mapped

OwnerOf(x) == IF x \in Customer THEN x ELSE IF There(Row(x)) THEN Row(x).customer ELSE None

Passes(scope, s) ==
    CASE s.do = "exists" -> There(Row(s.of))
      [] s.do = "active" -> IsActive(s.of)
      [] s.do = "allActive" -> \A x \in s.of : IsActive(x)
      [] s.do = "within" -> IsActive(s.of) /\ (s.to # None => Row(s.of)[s.field] = s.to)
      [] s.do = "allOf" -> \A x \in s.of : IsActive(x) /\ Row(x).customer = OwnerOf(s.as)
      [] s.do = "shared" -> IsActive(s.of) /\ Row(s.of).type = "SHARED"
      [] s.do = "admits" -> Admitted(s.of, s.to)
      [] s.do = "noChild" -> \A m \in Menu : ~There(Row(m)) \/ Row(m).parent # s.of
      [] s.do = "scope" -> scope # None => InScope(scope, s)

-----------------------------------------------------------------------------
IsScope(s) == s.do = "scope"
IsCheck(s) == s.do \in {"exists", "active", "allActive", "within", "allOf", "shared", "admits",
                        "noChild", "scope"}
IsStatement(s) == s.do \in {"insert", "change", "erase", "eraseAll", "upsert", "createMany", "off",
                            "unlink", "tx"}

(* What a check reads besides the request and the scope of its user.       *)
Reads(s) ==
    CASE s.do \in {"exists", "active", "within", "shared"} -> {s.of}
      [] s.do = "allActive" -> s.of
      [] s.do = "allOf" -> s.of \cup {s.as}
      [] s.do = "admits" -> Warehouse \cup Customer
      [] s.do = "noChild" -> Menu
      [] s.do = "scope" -> CASE s.of = "place" -> {s.in}
                             [] s.of = "customer" -> Warehouse
                             [] s.of = "customerOf" -> {s.in} \cup Warehouse
                             [] OTHER -> {}
      [] OTHER -> Id

(* A check of rows that nothing in this behaviour changes comes out the    *)
(* same at any time, and is done as the request begins.  A user without a  *)
(* scope is asked for none.                                                *)
Settled(s) == IsCheck(s) /\ \A x \in Reads(s) : \A t \in focus : x \notin t
Skipped(scope, s) == Settled(s) \/ (scope = None /\ IsScope(s))

Pending(scope, steps) ==
    LET open == {i \in DOMAIN steps : ~Skipped(scope, steps[i])}
    IN  IF open = {} THEN <<>> ELSE SubSeq(steps, Min(open), Len(steps))

Begin(r, table, script) ==
    /\ table \in focus /\ req[r] = Idle /\ left > 0
    /\ \E scope \in IF \E i \in DOMAIN script : IsScope(script[i]) THEN Scopes ELSE {None} :
          /\ \A i \in DOMAIN script : Settled(script[i]) => Passes(scope, script[i])
          /\ req' = [req EXCEPT ![r] =
                [todo |-> Pending(scope, script), scope |-> scope,
                 raced |-> FALSE, wrote |-> FALSE, sums |-> <<>>,
                 reach |-> IF scope = None THEN {} ELSE Reach(scope.warehouses)]]
    /\ left' = left - 1
    /\ UNCHANGED <<db, focus, moved>>

Onward(q, todo, wrote) ==
    [todo |-> todo, scope |-> q.scope, raced |-> q.raced, wrote |-> wrote, sums |-> q.sums,
     reach |-> q.reach]

Rest(r) == LET q == req[r]
               todo == Pending(q.scope, Tail(q.todo))
           IN  IF todo = <<>> THEN Idle ELSE Onward(q, todo, q.wrote \/ IsStatement(Head(q.todo)))

Check(r) ==
    /\ req[r] # Idle /\ IsCheck(Head(req[r].todo))
    /\ req' = [req EXCEPT ![r] = IF Passes(req[r].scope, Head(req[r].todo)) THEN Rest(r) ELSE Idle]
    /\ UNCHANGED <<db, focus, left, moved>>

(* Statement s of r takes effect: the others in flight have been raced.    *)
Commit(r, s, next) ==
    /\ After(s) # Refused
    /\ db' = After(s)
    /\ req' = [q \in Req |-> IF q = r THEN next
                             ELSE IF req[q] = Idle THEN Idle ELSE [req[q] EXCEPT !.raced = TRUE]]
    /\ moved' = IF s.do = "change" /\ DOMAIN s.fields \cap {"warehouse", "area", "zone"} # {}
                THEN moved \cup {s.of} ELSE moved
    /\ UNCHANGED <<focus, left>>

Write(r) ==
    /\ req[r] # Idle
    /\ IsStatement(Head(req[r].todo))
    /\ Commit(r, Head(req[r].todo), Rest(r))

(* One statement of an array, and the array once none of it is left.       *)
WriteOne(r) ==
    /\ req[r] # Idle /\ Head(req[r].todo).do = "batch"
    /\ \E s \in Head(req[r].todo).any :
          LET rest == Head(req[r].todo).any \ {s}
              next == IF rest = {} THEN Rest(r)
                      ELSE Onward(req[r], [req[r].todo EXCEPT ![1].any = rest], TRUE)
          IN  \/ Commit(r, s, next)
              \/ /\ After(s) = Refused
                 /\ req' = [req EXCEPT ![r] = next]
                 /\ UNCHANGED <<db, focus, left, moved>>

(* A statement fails or the process ends: what was written stays.  A       *)
(* request that ends before it wrote is as good as none.                   *)
Fail(r) ==
    /\ req[r] # Idle
    /\ \/ req[r].wrote
       \/ IsStatement(Head(req[r].todo)) /\ After(Head(req[r].todo)) = Refused
    /\ req' = [req EXCEPT ![r] = Idle]
    /\ UNCHANGED <<db, focus, left, moved>>

Step(r) == Check(r) \/ Write(r) \/ WriteOne(r) \/ Fail(r)
=============================================================================
