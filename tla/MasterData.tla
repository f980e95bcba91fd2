----------------------------- MODULE MasterData -----------------------------
(***************************************************************************)
(* The rows that everything else refers to, with every request that        *)
(* changes them: places, catalogue, access and billing over one database.  *)
(***************************************************************************)
EXTENDS Places, Catalogue, AccessControl, Billing

Next ==
    \E r \in Req :
        \/ PlaceRequest(r) \/ CatalogueRequest(r) \/ AccessRequest(r) \/ BillingRequest(r)
        \/ Step(r) \/ Sum(r) \/ Answer(r)

Spec == Init /\ [][Next]_vars

-----------------------------------------------------------------------------
(* References point to rows that are there, of the right table, and what   *)
(* goes with a deleted row leaves nothing of it switched on.               *)
TypeOK ==
    /\ focus \in Focus /\ left \in 0..MaxRequests /\ moved \subseteq Id
    /\ db.on \subseteq db.links /\ db.links \subseteq LinkType
    /\ \A x \in Id : db.rows[x] \in {Absent, Gone} \/ There(db.rows[x])
    /\ \A x \in Id : \A f \in Fields(db.rows[x]) :
          db.rows[x][f] = None \/ (db.rows[x][f] \in Target[f] /\ There(db.rows[db.rows[x][f]]))
    /\ \A r \in Req :
          req[r] # Idle => /\ req[r].todo # <<>> /\ req[r].raced \in BOOLEAN
                           /\ req[r].reach \subseteq Customer
                           /\ Len(req[r].sums) <= 2
=============================================================================
