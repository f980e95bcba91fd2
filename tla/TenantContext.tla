---------------------------- MODULE TenantContext ----------------------------
(***************************************************************************)
(* Which tenant's schema a request is served from:                         *)
(* src/src/modules/tenant-context/tenant-resolution.service.ts and its     *)
(* middleware, src/src/modules/prisma/tenant-prisma.extension.ts and the   *)
(* tenant checks of src/src/modules/auth/strategies/jwt.strategy.ts.       *)
(* A slug, an id and a schema name stand for the same tenant; a slug that  *)
(* is missing or malformed is None.                                        *)
(***************************************************************************)
EXTENDS Naturals

CONSTANTS
    Tenant,
    None,     \* no slug
    Public,   \* the schema served when no tenant is resolved
    Refused   \* a request answered with an error

ASSUME TenantContextAssumption ==
    /\ None \notin Tenant /\ Public \notin Tenant /\ Refused \notin Tenant
    /\ None # Public /\ Public # Refused

TenantStatus == {"ABSENT", "PROVISIONING", "TRIAL", "ACTIVE", "PAST_DUE",
                 "SUSPENDED", "CANCELLED"}
MaybeTenant == Tenant \cup {None}

(* claim: the tenant the token was issued for, None if it names none.      *)
(* polls: whether the path asks for the provision status.                  *)
Request == [claim : MaybeTenant, header : MaybeTenant, body : MaybeTenant,
            host : MaybeTenant, default : MaybeTenant,
            required : BOOLEAN, polls : BOOLEAN]

(* issueTenantTokens signs the tenant a request runs in, or none.          *)
Claim(tenant) == IF tenant \in Tenant THEN tenant ELSE None

First(x, y) == IF x # None THEN x ELSE y

(* resolveSlug: token, header, body, host, configured default.             *)
ResolveSlug(rq) ==
    First(rq.claim, First(rq.header, First(rq.body, First(rq.host, rq.default))))

(* assertTenantAccessible.                                                 *)
(* Mutated form: suspended tenants are let through.                        *)
AccessibleToAll(status, polls) == status \notin {"ABSENT", "PROVISIONING", "CANCELLED"}
Accessible(status, polls) ==
    status \in {"TRIAL", "ACTIVE", "PAST_DUE"} \/ (status = "PROVISIONING" /\ polls)

(* resolveForRequest and the middleware that runs the handler in it.       *)
(* status: of every tenant in the registry.                                *)
Resolve(rq, status) ==
    LET t == ResolveSlug(rq)
    IN  CASE t = None /\ rq.required -> Refused
          [] t = None /\ ~rq.required -> Public
          [] t # None /\ ~Accessible(status[t], rq.polls) -> Refused
          [] t # None /\ Accessible(status[t], rq.polls) ->
                IF rq.claim \in {None, t} THEN t ELSE Refused
=============================================================================
