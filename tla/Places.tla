------------------------------- MODULE Places -------------------------------
(***************************************************************************)
(* Customers, operator companies, warehouses and the places in them:       *)
(* src/src/modules/master-data/master-data.service.ts, first half, and the *)
(* balances of its second half, as rows.                                   *)
(***************************************************************************)
EXTENDS Records

Optional(S) == S \cup {None}

(* customerIds of a request: duplicates dropped, the first one stands out. *)
Lists == {<<>>} \cup {<<c>> : c \in Present(Customer)}
         \cup {l \in Present(Customer) \X Present(Customer) : l[1] # l[2]}
First(list) == IF list = <<>> THEN None ELSE list[1]

-----------------------------------------------------------------------------
CreateCustomer(r, c) == Begin(r, Customer, AdminOnly \o Insert(c, [active |-> TRUE]))

UpdateCustomer(r, c, on) ==
    Begin(r, Customer, AllowedCustomer(c) \o Exists(c) \o Transact(Change(c, on)))

DeleteCustomer(r, c, hard) ==
    Begin(r, Customer, AllowedCustomer(c) \o Exists(c) \o Delete(c, hard))

CreateOperatorCompany(r, o) == Begin(r, Company, AdminOnly \o Insert(o, [active |-> TRUE]))

UpdateOperatorCompany(r, o, on) ==
    Begin(r, Company, AllowedOperator(o) \o Exists(o) \o Transact(Change(o, on)))

DeleteOperatorCompany(r, o, hard) ==
    Begin(r, Company, AllowedOperator(o) \o Exists(o) \o Delete(o, hard))

-----------------------------------------------------------------------------
ScopeOfEach(list) == [i \in DOMAIN list |-> AllowedCustomer(list[i])[1]]
MapEach(w, list) == [i \in DOMAIN list |-> Upsert({<<w, list[i]>>})[1]]

(* assignWarehouseCustomers: five kinds of statements, no transaction.     *)
Assigned(w, list) ==
    When(list # <<>>, AllActive(ToSet(list)))
    \o SwitchOff(w, Customer) \o MapEach(w, list) \o Change(w, [customer |-> First(list)])
(* Mutated form: the customers are not looked up in the user's scope.      *)
AssignUnscoped(w, list) == Allowed(w) \o Shared(w) \o Assigned(w, list)
Assign(w, list) == Allowed(w) \o Shared(w) \o ScopeOfEach(list) \o Assigned(w, list)

AssignWarehouseCustomers(r, w, list) == Begin(r, Warehouse, Assign(w, list))

(* createWarehouse assigns the customers of a shared warehouse without the *)
(* user, whose scope it has looked at before.                              *)
CreateWarehouse(r, w, type, owner, operator, list) ==
    /\ type = "DEDICATED" => Len(list) < 2
    /\ Begin(r, Warehouse,
          AllowedOwnerOperator(owner, operator) \o ScopeOfEach(list)
          \o Active(owner) \o When(operator # None, Active(operator))
          \o When(list # <<>>, AllActive(ToSet(list)))
          \o Insert(w, [active |-> TRUE, type |-> type, customer |-> First(list),
                        owner |-> owner, operator |-> operator])
          \o When(type = "SHARED" /\ list # <<>>, Shared(w) \o Assigned(w, list)))

(* dto: the fields given.  Those left out are checked as they are stored.  *)
UpdateWarehouse(r, w, dto) ==
    LET gives(f) == f \in DOMAIN dto
        kept(f) == IF gives(f) THEN dto[f] ELSE Row(w)[f]
    IN  Begin(r, Warehouse,
            Allowed(w) \o Exists(w) \o AllowedOwnerOperator(kept("owner"), kept("operator"))
            \o When(gives("owner"), Active(dto.owner))
            \o When(gives("operator"), Active(dto.operator))
            \o When(gives("customer"), AllowedCustomer(dto.customer) \o Active(dto.customer))
            \o Change(w, dto))

(* Bound: an update of a warehouse gives one field.                        *)
WarehouseDto ==
    OneField("type", {"SHARED", "DEDICATED"}) \cup OneField("owner", Present(Company))
    \cup OneField("operator", Present(Company)) \cup OneField("customer", Present(Customer))
    \cup Activity

DeleteWarehouse(r, w, hard) == Begin(r, Warehouse, Allowed(w) \o Exists(w) \o Delete(w, hard))

-----------------------------------------------------------------------------
CreateArea(r, a, w) ==
    Begin(r, Area, Allowed(w) \o Active(w) \o Insert(a, [active |-> TRUE, warehouse |-> w]))

UpdateArea(r, a, w, on) ==
    Begin(r, Area, AllowedAt(a) \o When(w # None, Allowed(w)) \o Exists(a)
                   \o When(w # None, Active(w))
                   \o Change(a, With(on, Given("warehouse", w))))

DeleteArea(r, a, hard) == Begin(r, Area, AllowedAt(a) \o Exists(a) \o Delete(a, hard))

(* Mutated form: the area may be one of any warehouse.                     *)
AreaOfAny(w, a) == When(a # None, Active(a))
AreaOf(w, a) == When(a # None, Within(a, "warehouse", w))

CreateZone(r, z, w, a) ==
    Begin(r, Zone, Allowed(w) \o Active(w) \o AreaOf(w, a)
                   \o Insert(z, [active |-> TRUE, warehouse |-> w, area |-> a]))

(* Within an update, the place above is compared with the warehouse only   *)
(* if the request names one.                                               *)
UpdateZone(r, z, w, a, on) ==
    Begin(r, Zone, AllowedAt(z) \o When(w # None, Allowed(w)) \o Exists(z)
                   \o When(w # None, Active(w)) \o When(a # None, Within(a, "warehouse", w))
                   \o Change(z, With(With(on, Given("area", a)), Given("warehouse", w))))

DeleteZone(r, z, hard) == Begin(r, Zone, AllowedAt(z) \o Exists(z) \o Delete(z, hard))

CreateBin(r, b, w, z) ==
    Begin(r, Bin, Allowed(w) \o Active(w) \o Within(z, "warehouse", w)
                  \o Insert(b, [active |-> TRUE, warehouse |-> w, zone |-> z]))

UpdateBin(r, b, w, z, on) ==
    Begin(r, Bin, AllowedAt(b) \o When(w # None, Allowed(w)) \o Exists(b)
                  \o When(w # None, Active(w)) \o When(z # None, Within(z, "warehouse", w))
                  \o Change(b, With(With(on, Given("zone", z)), Given("warehouse", w))))

DeleteBin(r, b, hard) == Begin(r, Bin, AllowedAt(b) \o Exists(b) \o Delete(b, hard))

(* upsertInventoryBalance; the quantity is the subject of StockMoves.      *)
UpsertInventoryBalance(r, c, w, b, p) ==
    Begin(r, Bin, Allowed(w) \o Active(c) \o Admits(w, c) \o Within(b, "warehouse", w)
                  \o Within(p, "customer", c) \o Upsert({<<c, w, b, p>>}))

PlaceRequest(r) ==
    \/ \E c \in Fresh(Customer) : CreateCustomer(r, c)
    \/ \E c \in Present(Customer) :
          \/ \E on \in Activity : UpdateCustomer(r, c, on)
          \/ \E hard \in BOOLEAN : DeleteCustomer(r, c, hard)
    \/ \E o \in Fresh(Company) : CreateOperatorCompany(r, o)
    \/ \E o \in Present(Company) :
          \/ \E on \in Activity : UpdateOperatorCompany(r, o, on)
          \/ \E hard \in BOOLEAN : DeleteOperatorCompany(r, o, hard)
    \/ \E w \in Fresh(Warehouse), type \in {"SHARED", "DEDICATED"}, owner \in Present(Company),
          operator \in Optional(Present(Company)), list \in Lists :
          CreateWarehouse(r, w, type, owner, operator, list)
    \/ \E w \in Present(Warehouse) :
          \/ \E list \in Lists : AssignWarehouseCustomers(r, w, list)
          \/ \E dto \in WarehouseDto : UpdateWarehouse(r, w, dto)
          \/ \E hard \in BOOLEAN : DeleteWarehouse(r, w, hard)
    \/ \E a \in Fresh(Area), w \in Present(Warehouse) : CreateArea(r, a, w)
    \/ \E a \in Present(Area) :
          \/ \E w \in Optional(Present(Warehouse)), on \in Activity : UpdateArea(r, a, w, on)
          \/ \E hard \in BOOLEAN : DeleteArea(r, a, hard)
    \/ \E z \in Fresh(Zone), w \in Present(Warehouse), a \in Optional(Present(Area)) :
          CreateZone(r, z, w, a)
    \/ \E z \in Present(Zone) :
          \/ \E w \in Optional(Present(Warehouse)), a \in Optional(Present(Area)), on \in Activity :
                UpdateZone(r, z, w, a, on)
          \/ \E hard \in BOOLEAN : DeleteZone(r, z, hard)
    \/ \E b \in Fresh(Bin), w \in Present(Warehouse), z \in Present(Zone) : CreateBin(r, b, w, z)
    \/ \E b \in Present(Bin) :
          \/ \E w \in Optional(Present(Warehouse)), z \in Optional(Present(Zone)), on \in Activity :
                UpdateBin(r, b, w, z, on)
          \/ \E hard \in BOOLEAN : DeleteBin(r, b, hard)
          \/ \E c \in Present(Customer), w \in Present(Warehouse), p \in Present(Product) :
                UpsertInventoryBalance(r, c, w, b, p)
-----------------------------------------------------------------------------
(* A zone lies in the warehouse of its area and a bin in that of its zone. *)
PlaceInParent(x) ==
    LET up == IF x \in Zone THEN Row(x).area ELSE Row(x).zone
    IN  up # None => Row(up).warehouse = Row(x).warehouse

(* ... as the checks of createZone and createBin want it ('does not belong *)
(* to warehouse'), also when requests overlap, unless it or the place      *)
(* above it was moved by an update, which compares only what it is given.  *)
PlacedTogetherUnlessMoved ==
    \A x \in Zone \cup Bin :
        There(Row(x)) /\ x \notin moved =>
            (IF x \in Zone THEN Row(x).area ELSE Row(x).zone) \in moved \/ PlaceInParent(x)

(* Nothing a user with a scope does widens the set of customers that its   *)
(* warehouses reach, unless another request wrote in between: whoever      *)
(* assigns customers can only assign those it reaches already.             *)
ReachNeverGrowsUnlessRaced ==
    [][\A r \in Req :
          (Write(r) \/ WriteOne(r)) /\ req[r].scope # None /\ ~req[r].raced =>
              LET S == req[r].scope.warehouses
              IN  {c \in Customer : \E w \in S :
                      (There(db'.rows[w]) /\ db'.rows[w].customer = c) \/ <<w, c>> \in db'.on}
                  \subseteq req[r].reach]_vars
=============================================================================
