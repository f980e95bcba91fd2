--------------------------- MODULE AccessControl ---------------------------
(***************************************************************************)
(* Roles, menus and users of a tenant                                      *)
(* (src/src/modules/access-management/access-management.service.ts), which *)
(* only administrators may change, and the accounts of the platform        *)
(* (src/src/modules/platform/platform-users.service.ts).                   *)
(***************************************************************************)
EXTENDS Records

CreateRole(r, o) == Begin(r, Role, Insert(o, [active |-> TRUE]))
UpdateRole(r, o, on) == Begin(r, Role, Exists(o) \o Change(o, on))
DeleteRole(r, o, hard) ==
    Begin(r, Role, Exists(o)
        \o IF hard THEN Batch(DeleteMany(o, User) \o DeleteMany(o, Menu) \o Erase(o))
           ELSE Change(o, [active |-> FALSE]))

CreateMenu(r, m, parent) ==
    Begin(r, Menu, When(parent # None, Active(parent))
                   \o Insert(m, [active |-> TRUE, parent |-> parent]))
UpdateMenu(r, m, parent, on) ==
    Begin(r, Menu, Exists(m) \o When(parent # None, Active(parent))
                   \o Change(m, With(on, Given("parent", parent))))
DeleteMenu(r, m, hard) ==
    Begin(r, Menu, Exists(m)
        \o IF hard THEN NoChild(m) \o Batch(DeleteMany(m, Role) \o Erase(m))
           ELSE Change(m, [active |-> FALSE]))

-----------------------------------------------------------------------------
(* A user's warehouses must be active; its roles only have to exist.       *)
CreateUser(r, u, operator, warehouses, roles) ==
    Begin(r, User,
        When(operator # None, Active(operator)) \o When(warehouses # {}, AllActive(warehouses))
        \o Transact(Insert(u, [active |-> TRUE, operator |-> operator])
                    \o CreateMany({u} \X (warehouses \cup roles))))

UpdateUser(r, u, operator, given, warehouses, on) ==
    Begin(r, User,
        Exists(u) \o When(operator # None, Active(operator))
        \o When(warehouses # {}, AllActive(warehouses))
        \o Transact(Change(u, With(on, Given("operator", operator)))
                    \o When(given, DeleteMany(u, Warehouse) \o CreateMany({u} \X warehouses))))

DeleteUser(r, u, hard) ==
    Begin(r, User, Exists(u)
        \o IF hard THEN Batch(DeleteMany(u, Warehouse) \o DeleteMany(u, Role) \o Erase(u))
           ELSE Change(u, [active |-> FALSE]))

(* Old assignments out and new ones in, as two statements of an array.     *)
AssignUserRoles(r, u, roles) ==
    Begin(r, User, Active(u) \o When(roles # {}, AllActive(roles))
        \o Batch(DeleteMany(u, Role) \o When(roles # {}, CreateMany({u} \X roles))))

AssignRoleMenus(r, o, menus) ==
    Begin(r, Role, Active(o) \o When(menus # {}, AllActive(menus))
        \o Batch(DeleteMany(o, Menu) \o When(menus # {}, CreateMany({o} \X menus))))

-----------------------------------------------------------------------------
PlatformRoles == {"SUPER_ADMIN", "SUPPORT"}

(* PlatformJwtStrategy and PlatformRolesGuard, as the request comes in.    *)
MayAdminister(actor) == IsActive(actor) /\ Row(actor).role = "SUPER_ADMIN"

(* Mutated form: an account may deactivate itself.                         *)
NotOwnUnchecked(actor, u, on) == TRUE
NotOwn(actor, u, on) == u # actor \/ on # [active |-> FALSE]

CreatePlatformUser(r, actor, u, role) ==
    /\ MayAdminister(actor)
    /\ Begin(r, PlatformUser, Insert(u, [active |-> TRUE, role |-> role]))

UpdatePlatformUser(r, actor, u, role, on) ==
    /\ MayAdminister(actor)
    /\ NotOwn(actor, u, on)
    /\ Begin(r, PlatformUser, Exists(u) \o Change(u, With(on, [role |-> role])))

AccessRequest(r) ==
    \/ \E o \in Fresh(Role) : CreateRole(r, o)
    \/ \E o \in Present(Role) :
          \/ \E on \in Activity : UpdateRole(r, o, on)
          \/ \E hard \in BOOLEAN : DeleteRole(r, o, hard)
          \/ \E menus \in SUBSET Present(Menu) : AssignRoleMenus(r, o, menus)
    \/ \E m \in Fresh(Menu), parent \in Present(Menu) \cup {None} : CreateMenu(r, m, parent)
    \/ \E m \in Present(Menu) :
          \/ \E parent \in (Present(Menu) \ {m}) \cup {None}, on \in Activity :
                UpdateMenu(r, m, parent, on)
          \/ \E hard \in BOOLEAN : DeleteMenu(r, m, hard)
    \/ \E u \in Fresh(User), operator \in Present(Company) \cup {None},
          warehouses \in SUBSET Present(Warehouse), roles \in SUBSET Present(Role) :
          CreateUser(r, u, operator, warehouses, roles)
    \/ \E u \in Present(User) :
          \/ \E operator \in Present(Company) \cup {None}, warehouses \in SUBSET Present(Warehouse),
                given \in BOOLEAN, on \in Activity :
                (given \/ warehouses = {}) /\ UpdateUser(r, u, operator, given, warehouses, on)
          \/ \E hard \in BOOLEAN : DeleteUser(r, u, hard)
          \/ \E roles \in SUBSET Present(Role) : AssignUserRoles(r, u, roles)
    \/ \E actor \in Present(PlatformUser), role \in PlatformRoles :
          \/ \E u \in Fresh(PlatformUser) : CreatePlatformUser(r, actor, u, role)
          \/ \E u \in Present(PlatformUser), on \in Activity :
                UpdatePlatformUser(r, actor, u, role, on)
-----------------------------------------------------------------------------
(* No write leaves the platform without an account that can sign in,       *)
(* unless two of them change accounts at the same time: the account that   *)
(* asks stays active ('Cannot deactivate your own platform account').      *)
PlatformKeepsAnAccountUnlessRaced ==
    [][\A r \in Req :
          req[r] # Idle /\ ~req[r].raced /\ Write(r) =>
              \/ \A u \in PlatformUser : ~IsActive(u)
              \/ \E u \in PlatformUser : db'.rows[u].active = TRUE]_vars
=============================================================================
