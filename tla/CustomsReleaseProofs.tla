------------------------ MODULE CustomsReleaseProofs ------------------------
(* Theorems about CustomsRelease, for every value of its constants.        *)
EXTENDS CustomsRelease, FiniteSetTheorems, TLAPS

ReceiveReq == [at : {"receive.read"}, asn : Asn, hub : BOOLEAN]
CreateReq == [at : {"create.checked"}, cons : Consignment, asns : SUBSET Asn,
              no : Nat, named : BOOLEAN]
UpdateReq == [at : {"update.checked", "update.deleting"}, cons : Consignment,
              asns : SUBSET Asn, seen : SUBSET Asn]
ReleaseReq ==
    [at : {"release.read", "release.gated", "release.linked", "release.passed"},
     rcpt : Receipt, cons : Consignment \cup {None}]
Updates(r) == req[r].at \in {"update.checked", "update.deleting"}

(* The step a request is at says which record it is.                       *)
LEMMA ReqShape ==
    ASSUME TypeOK, NEW r \in Req
    PROVE  /\ Receives(r) => req[r] \in ReceiveReq
           /\ req[r].at = "create.checked" => req[r] \in CreateReq
           /\ Updates(r) => req[r] \in UpdateReq
           /\ Releases(r) => req[r] \in ReleaseReq
           /\ req[r].at \in {"idle", "receive.read", "create.checked", "update.checked",
                             "update.deleting", "release.read", "release.gated",
                             "release.linked", "release.passed"}
<1>1. req[r] = Idle \/ req[r] \in ReceiveReq \/ req[r] \in CreateReq
        \/ req[r] \in UpdateReq \/ req[r] \in ReleaseReq
    BY DEF TypeOK, ReceiveReq, CreateReq, UpdateReq, ReleaseReq
<1>2. CASE req[r] = Idle
    BY <1>2 DEF Idle, Receives, Updates, Releases
<1>3. CASE req[r] \in ReceiveReq
    BY <1>3 DEF ReceiveReq, Receives, Updates, Releases
<1>4. CASE req[r] \in CreateReq
    BY <1>4 DEF CreateReq, Receives, Updates, Releases
<1>5. CASE req[r] \in UpdateReq
    BY <1>5 DEF UpdateReq, Receives, Updates, Releases
<1>6. CASE req[r] \in ReleaseReq
    BY <1>6 DEF ReleaseReq, Receives, Updates, Releases
<1> QED BY <1>1, <1>2, <1>3, <1>4, <1>5, <1>6

(* The fields of each record.                                              *)
LEMMA ReqFields ==
    ASSUME TypeOK, NEW r \in Req
    PROVE  /\ Receives(r) => req[r].asn \in Asn /\ req[r].hub \in BOOLEAN
           /\ req[r].at = "create.checked" =>
                 /\ req[r].cons \in Consignment /\ req[r].asns \subseteq Asn
                 /\ req[r].no \in Nat /\ req[r].named \in BOOLEAN
           /\ Updates(r) => /\ req[r].cons \in Consignment
                            /\ req[r].asns \subseteq Asn /\ req[r].seen \subseteq Asn
           /\ Releases(r) => /\ req[r].rcpt \in Receipt
                             /\ req[r].cons \in Consignment \cup {None}
<1>1. Receives(r) => req[r] \in ReceiveReq
    BY ReqShape
<1>2. req[r].at = "create.checked" => req[r] \in CreateReq
    BY ReqShape
<1>3. Updates(r) => req[r] \in UpdateReq
    BY ReqShape
<1>4. Releases(r) => req[r] \in ReleaseReq
    BY ReqShape
<1> QED BY <1>1, <1>2, <1>3, <1>4 DEF ReceiveReq, CreateReq, UpdateReq, ReleaseReq

(* The numbers of the day are counted by a natural number.                 *)
LEMMA NextNoType == NextNo \in Nat
<1> DEFINE numbered == {c \in Consignment : no[c] # 0}
<1>1. IsFiniteSet(numbered)
    BY CustomsReleaseAssumption, FS_Subset
<1>2. Cardinality(numbered) \in Nat
    BY <1>1, FS_CardinalityType
<1> QED BY <1>2 DEF NextNo

LEMMA ChoicesType == Choices \subseteq [no : Nat, named : BOOLEAN]
<1>1. Cardinality(Consignment) \in Nat
    BY CustomsReleaseAssumption, FS_CardinalityType
<1>2. OtherForm \in Nat
    BY <1>1 DEF OtherForm
<1> SUFFICES ASSUME NEW choice \in Choices
             PROVE  choice \in [no : Nat, named : BOOLEAN]
    OBVIOUS
<1>3. CASE choice = [no |-> NextNo, named |-> FALSE]
    BY <1>3, NextNoType
<1>4. CASE choice \in [no : {0, OtherForm} \cup PickedNo, named : {TRUE}]
    <2>1. {0, OtherForm} \cup PickedNo \subseteq Nat
        BY <1>2, CustomsReleaseAssumption
    <2> QED BY <1>4, <2>1
<1> QED BY <1>3, <1>4 DEF Choices

RowType == [asn : Asn, clr : Clearance, bills : Nat] \cup {NoReceipt}
ReqType == {Idle} \cup ReceiveReq \cup CreateReq \cup UpdateReq \cup ReleaseReq

(* A row that is written by id stays typed.                                *)
LEMMA ClearedType ==
    ASSUME NEW row \in RowType, NEW n \in {0, 1}, row # NoReceipt
    PROVE  [row EXCEPT !.clr = "CLEARED", !.bills = @ + n]
              \in [asn : Asn, clr : Clearance, bills : Nat]
<1>1. row \in [asn : Asn, clr : Clearance, bills : Nat]
    BY DEF RowType
<1>2. [row EXCEPT !.bills = @ + n] \in [asn : Asn, clr : Clearance, bills : Nat]
    BY <1>1
<1> QED BY <1>1, <1>2 DEF Clearance

(* The rows a release goes by exist.                                       *)
Booking == \A r \in Req : Releases(r) => Booked(req[r].rcpt)

(* Type correctness, with what the typing of ReleaseLink's read rests on.  *)
LEMMA TypedAndBooking == Spec => [](TypeOK /\ Booking)
<1> DEFINE I == TypeOK /\ Booking
<1>1. Init => I
    BY CustomsReleaseAssumption DEF Init, TypeOK, NoReceipt, Booking, Releases, Idle
<1>2. I /\ [Next]_vars => I'
    <2> SUFFICES ASSUME TypeOK, Booking, [Next]_vars
                 PROVE  TypeOK' /\ Booking'
        OBVIOUS
    <2>0. stale' \subseteq Req
        BY DEF Next, vars, TypeOK, Watch, SetFlags, ReceiveRead, ReceiveCommit, CreateCheck,
           CreateCommit, UpdateCheck, UpdateDelete, UpdateCommit, UpdateManifestReview,
           ReleaseRead, ReleaseFlags, ReleaseLink, ReleaseReview, ReleaseCommit, Abort
    <2>1. CASE SetFlags
        BY <2>0, <2>1 DEF SetFlags, TypeOK, Booking, Releases, Booked
    <2>2. ASSUME NEW c \in Consignment, UpdateManifestReview(c)
          PROVE  TypeOK' /\ Booking'
        BY <2>0, <2>2 DEF UpdateManifestReview, TypeOK, Booking, Releases, Booked
    <2>3. ASSUME NEW r \in Req, NEW a \in Asn, ReceiveRead(r, a)
          PROVE  TypeOK' /\ Booking'
        BY <2>0, <2>3 DEF ReceiveRead, TypeOK, Booking, Releases, Booked
    <2>4. ASSUME NEW r \in Req, NEW x \in Receipt, ReceiveCommit(r, x)
          PROVE  TypeOK' /\ Booking'
        <3>1. req[r].asn \in Asn /\ req[r].hub \in BOOLEAN
            BY <2>4, ReqFields DEF ReceiveCommit
        <3>2. TypeOK'
            BY <2>0, <2>4, <3>1 DEF ReceiveCommit, TypeOK, Finish, Clearance
        <3>3. Booking'
            BY <2>4, ReqFields DEF ReceiveCommit, Booking, Releases, Booked, Finish, Idle,
               TypeOK, NoReceipt
        <3> QED BY <3>2, <3>3
    <2>5. ASSUME NEW r \in Req, NEW x \in Receipt, ReleaseRead(r, x)
          PROVE  TypeOK' /\ Booking'
        BY <2>0, <2>5 DEF ReleaseRead, Releasable, Starts, Uses, TypeOK, Booking, Releases,
           Booked, NoReceipt
    <2>6. ASSUME NEW r \in Req, NEW c \in Consignment, CreateCheck(r, c)
          PROVE  TypeOK' /\ Booking'
        <3>1. \A choice \in Choices : choice.no \in Nat /\ choice.named \in BOOLEAN
            BY ChoicesType
        <3>2. req' \in [Req -> ReqType]
            BY <2>6, <3>1 DEF CreateCheck, TypeOK, ReqType, ReceiveReq, CreateReq, UpdateReq,
               ReleaseReq
        <3>3. Booking'
            BY <2>6 DEF CreateCheck, TypeOK, Booking, Releases, Booked
        <3> QED BY <2>0, <2>6, <3>2, <3>3
              DEF CreateCheck, TypeOK, ReqType, ReceiveReq, CreateReq, UpdateReq, ReleaseReq
    <2>7. ASSUME NEW r \in Req, NEW c \in Consignment, UpdateCheck(r, c)
          PROVE  TypeOK' /\ Booking'
        BY <2>0, <2>7 DEF UpdateCheck, TypeOK, Booking, Releases, Booked
    <2>8. ASSUME NEW r \in Req, CreateCommit(r)
          PROVE  TypeOK' /\ Booking'
        <3>1. /\ req[r].cons \in Consignment /\ req[r].asns \subseteq Asn
              /\ req[r].no \in Nat /\ req[r].named \in BOOLEAN
            BY <2>8, ReqFields DEF CreateCommit
        <3>2. "DRAFT" \in ReviewStatus
            BY CustomsReleaseAssumption
        <3>3. TypeOK'
            BY <2>0, <2>8, <3>1, <3>2 DEF CreateCommit, TypeOK, Finish, FirstReview
        <3>4. Booking'
            BY <2>8 DEF CreateCommit, TypeOK, Booking, Releases, Booked, Finish, Idle
        <3> QED BY <3>3, <3>4
    <2>9. ASSUME NEW r \in Req, UpdateDelete(r)
          PROVE  TypeOK' /\ Booking'
        <3>1. req[r] \in UpdateReq
            BY <2>9, ReqShape DEF UpdateDelete, Updates
        <3>2. [req[r] EXCEPT !.at = "update.deleting", !.seen = Bound(req[r].cons)]
                 \in UpdateReq
            BY <3>1 DEF UpdateReq, Bound
        <3>3. TypeOK'
            BY <2>0, <2>9, <3>2 DEF UpdateDelete, TypeOK, UpdateReq
        <3>4. Booking'
            BY <2>9, <3>1 DEF UpdateDelete, UpdateReq, TypeOK, Booking, Releases, Booked
        <3> QED BY <3>3, <3>4
    <2>10. ASSUME NEW r \in Req, UpdateCommit(r)
           PROVE  TypeOK' /\ Booking'
        <3>1. req[r].cons \in Consignment /\ req[r].asns \subseteq Asn
            BY <2>10, ReqFields DEF UpdateCommit, Updates
        <3>2. ASSUME NEW s \in Req, req[s].at = "update.deleting"
              PROVE  [req[s] EXCEPT !.seen = @ \ Deleted(r)] \in UpdateReq
            <4>1. req[s] \in UpdateReq
                BY <3>2, ReqShape DEF Updates
            <4> QED BY <4>1 DEF UpdateReq
        <3>3. \A s \in Req : req'[s] \in ReqType
            <4> TAKE s \in Req
            <4>1. CASE s # r /\ req[s].at = "update.deleting" /\ req[s].cons = req[r].cons
                BY <2>10, <3>2, <4>1 DEF UpdateCommit, ReqType
            <4>2. CASE ~(s # r /\ req[s].at = "update.deleting" /\ req[s].cons = req[r].cons)
                <5>1. req'[s] = Idle \/ req'[s] = req[s]
                    BY <2>10, <4>2 DEF UpdateCommit
                <5> QED BY <5>1 DEF TypeOK, ReqType, ReceiveReq, CreateReq, UpdateReq, ReleaseReq
            <4> QED BY <4>1, <4>2
        <3>4. req' \in [Req -> ReqType]
            BY <2>10, <3>3 DEF UpdateCommit
        <3>5. link' \in [Asn -> Consignment \cup {None}]
            BY <2>10, <3>1 DEF UpdateCommit, TypeOK
        <3>6. TypeOK'
            BY <2>0, <2>10, <3>4, <3>5
               DEF UpdateCommit, TypeOK, ReqType, ReceiveReq, CreateReq, UpdateReq, ReleaseReq
        <3>7. \A s \in Req : Releases(s)' => req'[s] = req[s]
            <4> TAKE s \in Req
            <4>1. CASE s # r /\ req[s].at = "update.deleting" /\ req[s].cons = req[r].cons
                <5>1. req'[s] \in UpdateReq
                    BY <2>10, <3>2, <4>1 DEF UpdateCommit
                <5> QED BY <5>1 DEF UpdateReq, Releases
            <4>2. CASE ~(s # r /\ req[s].at = "update.deleting" /\ req[s].cons = req[r].cons)
                BY <2>10, <4>2 DEF UpdateCommit, Releases, Idle
            <4> QED BY <4>1, <4>2
        <3>8. Booking'
            BY <2>10, <3>7 DEF UpdateCommit, Booking, Releases, Booked
        <3> QED BY <3>6, <3>8
    <2>11. ASSUME NEW r \in Req, ReleaseFlags(r)
           PROVE  TypeOK' /\ Booking'
        <3>1. req[r] \in ReleaseReq
            BY <2>11, ReqShape DEF ReleaseFlags, Releases
        <3>2. \A at \in {"release.gated", "release.passed"} :
                 [req[r] EXCEPT !.at = at] \in ReleaseReq
            BY <3>1 DEF ReleaseReq
        <3>3. TypeOK'
            BY <2>0, <2>11, <3>2 DEF ReleaseFlags, Goto, TypeOK, ReleaseReq
        <3>4. Booking'
            BY <2>11, <3>1 DEF ReleaseFlags, Goto, ReleaseReq, TypeOK, Booking, Releases, Booked
        <3> QED BY <3>3, <3>4
    <2>12. ASSUME NEW r \in Req, ReleaseLink(r)
           PROVE  TypeOK' /\ Booking'
        <3>1. req[r] \in ReleaseReq
            BY <2>12, ReqShape DEF ReleaseLink, Releases
        <3>2. receipt[req[r].rcpt] # NoReceipt /\ req[r].rcpt \in Receipt
            BY <2>12, <3>1 DEF ReleaseLink, Releases, Booking, Booked, ReleaseReq
        <3>3. link[receipt[req[r].rcpt].asn] \in Consignment \cup {None}
            BY <3>2 DEF TypeOK
        <3>4. [req[r] EXCEPT !.at = "release.linked",
                             !.cons = link[receipt[req[r].rcpt].asn]] \in ReleaseReq
            BY <3>1, <3>3 DEF ReleaseReq
        <3>5. TypeOK'
            BY <2>0, <2>12, <3>4 DEF ReleaseLink, TypeOK, ReleaseReq
        <3>6. Booking'
            BY <2>12, <3>1 DEF ReleaseLink, ReleaseReq, TypeOK, Booking, Releases, Booked
        <3> QED BY <3>5, <3>6
    <2>13. ASSUME NEW r \in Req, ReleaseReview(r)
           PROVE  TypeOK' /\ Booking'
        <3>1. req[r] \in ReleaseReq
            BY <2>13, ReqShape DEF ReleaseReview, Releases
        <3>2. [req[r] EXCEPT !.at = "release.passed"] \in ReleaseReq
            BY <3>1 DEF ReleaseReq
        <3>3. TypeOK'
            BY <2>0, <2>13, <3>2 DEF ReleaseReview, Goto, TypeOK, ReleaseReq
        <3>4. Booking'
            BY <2>13, <3>1 DEF ReleaseReview, Goto, ReleaseReq, TypeOK, Booking, Releases, Booked
        <3> QED BY <3>3, <3>4
    <2>14. ASSUME NEW r \in Req, ReleaseCommit(r)
           PROVE  TypeOK' /\ Booking'
        <3> DEFINE x == req[r].rcpt
        <3>1. x \in Receipt /\ receipt[x] # NoReceipt
            BY <2>14, ReqFields DEF ReleaseCommit, Releases, Booking, Booked
        <3>2. PICK n \in {0, 1} :
                 receipt' = [receipt EXCEPT ![x].clr = "CLEARED", ![x].bills = @ + n]
            BY <2>14 DEF ReleaseCommit
        <3>3. receipt[x] \in RowType
            BY <3>1 DEF TypeOK, RowType
        <3>4. [receipt[x] EXCEPT !.clr = "CLEARED", !.bills = @ + n]
                 \in [asn : Asn, clr : Clearance, bills : Nat]
            BY <3>1, <3>3, ClearedType
        <3>5. receipt' = [receipt EXCEPT ![x] =
                 [receipt[x] EXCEPT !.clr = "CLEARED", !.bills = @ + n]]
            BY <3>1, <3>2, <3>3 DEF TypeOK, RowType, NoReceipt
        <3>6. TypeOK'
            BY <2>0, <2>14, <3>1, <3>4, <3>5 DEF ReleaseCommit, Finish, TypeOK
        <3>7. receipt'[x].clr = "CLEARED" /\ \A y \in Receipt \ {x} : receipt'[y] = receipt[y]
            BY <3>1, <3>4, <3>5 DEF TypeOK
        <3>8. \A s \in Req : Releases(s)' => Releases(s) /\ req'[s] = req[s]
            BY <2>14 DEF ReleaseCommit, Finish, Releases, Idle, TypeOK
        <3>9. Booking'
            BY <3>7, <3>8, ReqFields DEF Booking, Booked, NoReceipt
        <3> QED BY <3>6, <3>9
    <2>15. ASSUME NEW r \in Req, Abort(r)
           PROVE  TypeOK' /\ Booking'
        BY <2>0, <2>15 DEF Abort, Finish, TypeOK, Booking, Releases, Booked, Idle
    <2>16. CASE UNCHANGED vars
        BY <2>16 DEF vars, TypeOK, Booking, Releases, Booked
    <2> QED
        BY <2>1, <2>2, <2>3, <2>4, <2>5, <2>6, <2>7, <2>8, <2>9, <2>10, <2>11, <2>12,
           <2>13, <2>14, <2>15, <2>16 DEF Next
<1> QED
    BY <1>1, <1>2, PTL DEF Spec

(* Every variable has its type, whatever requests overlap or fail.         *)
THEOREM TypeCorrect == Spec => []TypeOK
BY TypedAndBooking, PTL

-----------------------------------------------------------------------------
(***************************************************************************)
(* What a step does to the requests and to the rows they go by.            *)
(***************************************************************************)
LEMMA RequestStep ==
    ASSUME TypeOK, [Next]_vars, NEW s \in Req
    PROVE  \/ /\ req'[s].at = req[s].at
              /\ Receives(s) \/ Releases(s) => req'[s] = req[s]
              /\ Updates(s) => req'[s].cons = req[s].cons
           \/ /\ req[s] = Idle
              /\ \/ \E a \in Asn : ReceiveRead(s, a)
                 \/ \E c \in Consignment : CreateCheck(s, c) \/ UpdateCheck(s, c)
                 \/ \E x \in Receipt : ReleaseRead(s, x)
           \/ UpdateDelete(s) \/ ReleaseFlags(s) \/ ReleaseLink(s) \/ ReleaseReview(s)
           \/ req'[s] = Idle
<1>1. ASSUME NEW r \in Req, UpdateCommit(r)
      PROVE  \/ /\ req'[s].at = req[s].at
                /\ Receives(s) \/ Releases(s) => req'[s] = req[s]
                /\ Updates(s) => req'[s].cons = req[s].cons
             \/ req'[s] = Idle
    <2>1. CASE s # r /\ req[s].at = "update.deleting" /\ req[s].cons = req[r].cons
        <3>1. req[s] \in UpdateReq
            BY <2>1, ReqShape DEF Updates
        <3>2. req'[s] = [req[s] EXCEPT !.seen = @ \ Deleted(r)]
            BY <1>1, <2>1 DEF UpdateCommit
        <3> QED BY <2>1, <3>1, <3>2 DEF UpdateReq, Receives, Releases
    <2>2. CASE ~(s # r /\ req[s].at = "update.deleting" /\ req[s].cons = req[r].cons)
        BY <1>1, <2>2 DEF UpdateCommit
    <2> QED BY <2>1, <2>2
<1>2. ASSUME NEW r \in Req, NEW v, req' = [req EXCEPT ![r] = v], r # s
      PROVE  req'[s] = req[s]
    BY <1>2 DEF TypeOK
<1>3. CASE UNCHANGED req
    BY <1>3
<1>4. ASSUME NEW r \in Req, NEW a \in Asn, ReceiveRead(r, a)
      PROVE  req'[s] = req[s] \/ (s = r /\ req[s] = Idle)
    BY <1>2, <1>4 DEF ReceiveRead
<1>5. ASSUME NEW r \in Req, NEW c \in Consignment, CreateCheck(r, c) \/ UpdateCheck(r, c)
      PROVE  req'[s] = req[s] \/ (s = r /\ req[s] = Idle)
    BY <1>2, <1>5 DEF CreateCheck, UpdateCheck
<1>6. ASSUME NEW r \in Req, NEW x \in Receipt, ReleaseRead(r, x)
      PROVE  req'[s] = req[s] \/ (s = r /\ req[s] = Idle)
    BY <1>2, <1>6 DEF ReleaseRead
<1>7. ASSUME NEW r \in Req,
             UpdateDelete(r) \/ ReleaseFlags(r) \/ ReleaseLink(r) \/ ReleaseReview(r)
      PROVE  req'[s] = req[s] \/ s = r
    BY <1>7 DEF UpdateDelete, ReleaseFlags, ReleaseLink, ReleaseReview, Goto, TypeOK
<1>8. ASSUME NEW r \in Req, Finish(r)
      PROVE  req'[s] = req[s] \/ req'[s] = Idle
    BY <1>8 DEF Finish, TypeOK
<1> QED
    BY <1>1, <1>3, <1>4, <1>5, <1>6, <1>7, <1>8
       DEF Next, vars, SetFlags, UpdateManifestReview, ReceiveCommit, CreateCommit,
           ReleaseCommit, Abort

(* A booked receipt keeps its ASN and stays booked; only a release of it   *)
(* changes it at all.                                                      *)
LEMMA ReceiptStep ==
    ASSUME TypeOK, Booking, [Next]_vars, NEW x \in Receipt
    PROVE  \/ receipt'[x] = receipt[x]
           \/ ~Booked(x) /\ receipt'[x].bills = 0
           \/ /\ \E r \in Req : ReleaseCommit(r) /\ Releases(r) /\ req[r].rcpt = x
              /\ receipt'[x].asn = receipt[x].asn
              /\ receipt'[x].clr = "CLEARED"
              /\ receipt'[x].bills \in {receipt[x].bills, receipt[x].bills + 1}
<1>1. CASE UNCHANGED receipt
    BY <1>1
<1>2. ASSUME NEW r \in Req, NEW y \in Receipt, ReceiveCommit(r, y)
      PROVE  receipt'[x] = receipt[x] \/ (~Booked(x) /\ receipt'[x].bills = 0)
    BY <1>2 DEF ReceiveCommit, TypeOK
<1>3. ASSUME NEW r \in Req, ReleaseCommit(r)
      PROVE  \/ receipt'[x] = receipt[x]
             \/ /\ Releases(r) /\ req[r].rcpt = x
                /\ receipt'[x].asn = receipt[x].asn
                /\ receipt'[x].clr = "CLEARED"
                /\ receipt'[x].bills \in {receipt[x].bills, receipt[x].bills + 1}
    <2>1. Releases(r) /\ req[r].rcpt \in Receipt /\ Booked(req[r].rcpt)
        BY <1>3, ReqFields DEF ReleaseCommit, Releases, Booking
    <2>2. receipt[req[r].rcpt] \in [asn : Asn, clr : Clearance, bills : Nat]
        BY <2>1 DEF TypeOK, Booked
    <2>3. PICK n \in {0, 1} :
             receipt' = [receipt EXCEPT ![req[r].rcpt].clr = "CLEARED",
                                        ![req[r].rcpt].bills = @ + n]
        BY <1>3 DEF ReleaseCommit
    <2>4. CASE x # req[r].rcpt
        BY <2>1, <2>3, <2>4 DEF TypeOK
    <2>5. CASE x = req[r].rcpt
        <3>1. receipt'[x] = [receipt[x] EXCEPT !.clr = "CLEARED", !.bills = @ + n]
            BY <2>2, <2>3, <2>5 DEF TypeOK
        <3> QED BY <2>1, <2>2, <2>5, <3>1
    <2> QED BY <2>4, <2>5
<1> QED
    BY <1>1, <1>2, <1>3
       DEF Next, vars, SetFlags, UpdateManifestReview, ReceiveRead, CreateCheck,
           CreateCommit, UpdateCheck, UpdateDelete, UpdateCommit, ReleaseRead,
           ReleaseFlags, ReleaseLink, ReleaseReview, Abort

-----------------------------------------------------------------------------
(***************************************************************************)
(* Billing.  A release that shares its receipt with no other finds it as   *)
(* it read it, held and without a bill.                                    *)
(***************************************************************************)
AloneUnlessRaced == \A r, s \in Req : r # s => Uses(r) \cap Uses(s) \subseteq raced

StillHeldUnlessRaced ==
    \A r \in Req : Releases(r) /\ req[r].rcpt \notin raced
        => receipt[req[r].rcpt].clr = "HELD"

(* A request comes to use a thing only by starting on it.                  *)
LEMMA UsesStep ==
    ASSUME TypeOK, [Next]_vars, NEW s \in Req
    PROVE  Uses(s)' \subseteq Uses(s) \/ \E x : Uses(s)' = {x} /\ Starts(s, x)
<1>1. CASE req'[s].at = req[s].at /\ (Receives(s) \/ Releases(s) => req'[s] = req[s])
             /\ (Updates(s) => req'[s].cons = req[s].cons)
    BY <1>1 DEF Uses, Releases, Updates
<1>2. ASSUME NEW a \in Asn, ReceiveRead(s, a)
      PROVE  Uses(s)' = {}
    BY <1>2 DEF ReceiveRead, Uses, Releases, Updates, TypeOK
<1>3. ASSUME NEW c \in Consignment, CreateCheck(s, c)
      PROVE  Uses(s)' = {}
    BY <1>3 DEF CreateCheck, Uses, Releases, Updates, TypeOK
<1>4. ASSUME NEW c \in Consignment, UpdateCheck(s, c)
      PROVE  Uses(s)' = {}
    BY <1>4 DEF UpdateCheck, Uses, Releases, Updates, TypeOK
<1>5. ASSUME NEW x \in Receipt, ReleaseRead(s, x)
      PROVE  Uses(s)' = {x} /\ Starts(s, x)
    BY <1>5 DEF ReleaseRead, Uses, Releases, Updates, TypeOK
<1>6. CASE UpdateDelete(s)
    <2>1. req[s] \in UpdateReq
        BY <1>6, ReqShape DEF UpdateDelete, Updates
    <2>2. req'[s].at = "update.deleting" /\ req'[s].cons = req[s].cons
        BY <1>6, <2>1 DEF UpdateDelete, UpdateReq, TypeOK
    <2> QED BY <1>6, <2>2 DEF UpdateDelete, Uses, Releases, Updates
<1>7. CASE ReleaseFlags(s) \/ ReleaseLink(s) \/ ReleaseReview(s)
    <2>1. req[s] \in ReleaseReq
        BY <1>7, ReqShape DEF ReleaseFlags, ReleaseLink, ReleaseReview, Releases
    <2>2. req'[s].at \in {"release.gated", "release.linked", "release.passed"}
             /\ req'[s].rcpt = req[s].rcpt
        BY <1>7, <2>1 DEF ReleaseFlags, ReleaseLink, ReleaseReview, Goto, ReleaseReq, TypeOK
    <2> QED BY <1>7, <2>2 DEF ReleaseFlags, ReleaseLink, ReleaseReview, Uses, Releases
<1>8. CASE req'[s] = Idle
    BY <1>8 DEF Uses, Releases, Updates, Idle
<1> QED BY <1>1, <1>2, <1>3, <1>4, <1>5, <1>6, <1>7, <1>8, RequestStep

(* At most one request starts in a step, and raced only grows.             *)
LEMMA OthersStay ==
    ASSUME TypeOK, [Next]_vars, NEW r \in Req, NEW s \in Req, r # s,
           ~(Uses(r)' \subseteq Uses(r))
    PROVE  Uses(s)' \subseteq Uses(s)
<1>1. CASE \/ \E a \in Asn : ReceiveRead(r, a)
           \/ \E c \in Consignment : CreateCheck(r, c) \/ UpdateCheck(r, c)
           \/ \E x \in Receipt : ReleaseRead(r, x)
    <2>1. req'[s] = req[s]
        BY <1>1 DEF ReceiveRead, CreateCheck, UpdateCheck, ReleaseRead, TypeOK
    <2> QED BY <2>1 DEF Uses, Releases, Updates
<1>2. CASE req'[r].at = req[r].at /\ (Receives(r) \/ Releases(r) => req'[r] = req[r])
             /\ (Updates(r) => req'[r].cons = req[r].cons)
    BY <1>2 DEF Uses, Releases, Updates
<1>3. CASE UpdateDelete(r) \/ ReleaseFlags(r) \/ ReleaseLink(r) \/ ReleaseReview(r)
    <2>1. req'[s] = req[s]
        BY <1>3 DEF UpdateDelete, ReleaseFlags, ReleaseLink, ReleaseReview, Goto, TypeOK
    <2> QED BY <2>1 DEF Uses, Releases, Updates
<1>4. CASE req'[r] = Idle
    BY <1>4 DEF Uses, Releases, Updates, Idle
<1> QED BY <1>1, <1>2, <1>3, <1>4, RequestStep

LEMMA RacedGrows ==
    ASSUME [Next]_vars
    PROVE  raced \subseteq raced'
BY DEF Next, vars, SetFlags, ReceiveRead, ReceiveCommit, CreateCheck, CreateCommit,
   UpdateCheck, UpdateDelete, UpdateCommit, UpdateManifestReview, ReleaseRead,
   ReleaseFlags, ReleaseLink, ReleaseReview, ReleaseCommit, Abort, Starts

LEMMA AloneStep ==
    ASSUME TypeOK, AloneUnlessRaced, [Next]_vars
    PROVE  AloneUnlessRaced'
<1> SUFFICES ASSUME NEW r \in Req, NEW s \in Req, r # s
             PROVE  Uses(r)' \cap Uses(s)' \subseteq raced'
    BY DEF AloneUnlessRaced
<1>1. CASE Uses(r)' \subseteq Uses(r) /\ Uses(s)' \subseteq Uses(s)
    BY <1>1, RacedGrows DEF AloneUnlessRaced
<1>2. CASE ~(Uses(r)' \subseteq Uses(r))
    <2>1. PICK x : Uses(r)' = {x} /\ Starts(r, x)
        BY <1>2, UsesStep
    <2>2. Uses(s)' \subseteq Uses(s)
        BY <1>2, OthersStay
    <2> QED BY <2>1, <2>2 DEF Starts
<1>3. CASE ~(Uses(s)' \subseteq Uses(s))
    <2>1. PICK x : Uses(s)' = {x} /\ Starts(s, x)
        BY <1>3, UsesStep
    <2>2. Uses(r)' \subseteq Uses(r)
        BY <1>3, OthersStay
    <2> QED BY <2>1, <2>2 DEF Starts
<1> QED BY <1>1, <1>2, <1>3

(* A release in flight after a step was in flight before, or has just read *)
(* a held receipt.                                                         *)
LEMMA ReleaseStep ==
    ASSUME TypeOK, [Next]_vars, NEW s \in Req, Releases(s)'
    PROVE  \/ Releases(s) /\ req'[s].rcpt = req[s].rcpt
           \/ /\ ~Releases(s)
              /\ req'[s].at = "release.read"
              /\ receipt'[req'[s].rcpt].clr = "HELD"
<1>1. CASE /\ req'[s].at = req[s].at
           /\ Receives(s) \/ Releases(s) => req'[s] = req[s]
    BY <1>1 DEF Releases
<1>2. CASE req[s] = Idle
    <2>1. ASSUME NEW x \in Receipt, ReleaseRead(s, x)
          PROVE  /\ ~Releases(s)
                 /\ req'[s].at = "release.read"
                 /\ receipt'[req'[s].rcpt].clr = "HELD"
        BY <2>1 DEF ReleaseRead, Releasable, Releases, Idle, TypeOK
    <2>2. ASSUME NEW a \in Asn, ReceiveRead(s, a)
          PROVE  ~Releases(s)'
        BY <2>2 DEF ReceiveRead, Releases, TypeOK
    <2>3. ASSUME NEW c \in Consignment, CreateCheck(s, c) \/ UpdateCheck(s, c)
          PROVE  ~Releases(s)'
        BY <2>3 DEF CreateCheck, UpdateCheck, Releases, TypeOK
    <2>4. req'[s].at # "idle"
        BY DEF Releases
    <2>5. UpdateDelete(s) \/ ReleaseFlags(s) \/ ReleaseLink(s) \/ ReleaseReview(s) => FALSE
        BY <1>2 DEF Idle, UpdateDelete, ReleaseFlags, ReleaseLink, ReleaseReview
    <2>6. ~(req'[s].at = req[s].at) /\ req'[s] # Idle
        BY <1>2, <2>4 DEF Idle
    <2> QED BY <2>1, <2>2, <2>3, <2>5, <2>6, RequestStep
<1>3. CASE ReleaseFlags(s) \/ ReleaseLink(s) \/ ReleaseReview(s)
    <2>1. req[s] \in ReleaseReq /\ Releases(s)
        BY <1>3, ReqShape DEF ReleaseFlags, ReleaseLink, ReleaseReview, Releases
    <2>2. req'[s].rcpt = req[s].rcpt
        BY <1>3, <2>1 DEF ReleaseFlags, ReleaseLink, ReleaseReview, Goto, ReleaseReq, TypeOK
    <2> QED BY <2>1, <2>2
<1>4. CASE UpdateDelete(s)
    <2>1. req[s] \in UpdateReq
        BY <1>4, ReqShape DEF UpdateDelete, Updates
    <2>2. req'[s].at = "update.deleting"
        BY <1>4, <2>1 DEF UpdateDelete, UpdateReq, TypeOK
    <2> QED BY <2>2 DEF Releases
<1>5. CASE req'[s] = Idle
    BY <1>5 DEF Releases, Idle
<1> QED BY <1>1, <1>2, <1>3, <1>4, <1>5, RequestStep

(* A receipt has no bill before it is cleared: one write does both.        *)
BilledOnlyCleared == \A x \in Receipt : receipt[x].bills > 0 => receipt[x].clr = "CLEARED"

Billing == /\ BilledOnlyCleared
           /\ BilledOnceUnlessRaced
           /\ AloneUnlessRaced
           /\ StillHeldUnlessRaced

LEMMA BillingStep ==
    ASSUME TypeOK, Booking, Billing, [Next]_vars
    PROVE  Billing'
<1> USE DEF Billing
<1>1. BilledOnlyCleared'
    BY ReceiptStep DEF BilledOnlyCleared
<1>2. AloneUnlessRaced'
    BY AloneStep
<1>3. BilledOnceUnlessRaced'
    <2> SUFFICES ASSUME NEW x \in Receipt, x \notin raced'
                 PROVE  receipt'[x].bills <= 1
        BY DEF BilledOnceUnlessRaced
    <2>1. x \notin raced
        BY RacedGrows
    <2>2. CASE \E r \in Req : ReleaseCommit(r) /\ Releases(r) /\ req[r].rcpt = x
        <3>1. receipt[x].clr = "HELD" /\ Booked(x)
            BY <2>1, <2>2 DEF StillHeldUnlessRaced, Booking
        <3>2. receipt[x].bills = 0
            BY <3>1 DEF BilledOnlyCleared, TypeOK, Booked
        <3> QED BY <3>1, <3>2, ReceiptStep
    <2> QED BY <2>1, <2>2, ReceiptStep DEF BilledOnceUnlessRaced
<1>4. StillHeldUnlessRaced'
    <2> SUFFICES ASSUME NEW s \in Req, Releases(s)', req'[s].rcpt \notin raced'
                 PROVE  receipt'[req'[s].rcpt].clr = "HELD"
        BY DEF StillHeldUnlessRaced
    <2>1. CASE Releases(s) /\ req'[s].rcpt = req[s].rcpt
        <3> DEFINE x == req[s].rcpt
        <3>1. x \in Receipt /\ x \notin raced /\ Booked(x)
            BY <2>1, RacedGrows, ReqFields DEF Booking
        <3>2. receipt[x].clr = "HELD"
            BY <2>1, <3>1 DEF StillHeldUnlessRaced
        <3>3. ASSUME NEW r \in Req, ReleaseCommit(r), Releases(r), req[r].rcpt = x
              PROVE  FALSE
            <4>1. r # s
                BY <3>3 DEF ReleaseCommit, Finish, Releases, Idle, TypeOK
            <4>2. x \in Uses(r) \cap Uses(s)
                BY <2>1, <3>3 DEF Uses
            <4> QED BY <3>1, <4>1, <4>2 DEF AloneUnlessRaced
        <3>4. receipt'[x] = receipt[x]
            BY <3>1, <3>3, ReceiptStep
        <3> QED BY <2>1, <3>2, <3>4
    <2> QED BY <2>1, ReleaseStep
<1> QED BY <1>1, <1>2, <1>3, <1>4

LEMMA BillingHolds == Spec => []Billing
<1>1. Init => Billing
    BY DEF Init, Billing, BilledOnlyCleared, BilledOnceUnlessRaced, AloneUnlessRaced,
       StillHeldUnlessRaced, NoReceipt, Uses, Releases, Updates, Idle
<1>2. TypeOK /\ Booking /\ Billing /\ [Next]_vars => Billing'
    BY BillingStep
<1> QED BY <1>1, <1>2, TypedAndBooking, PTL DEF Spec

(* Dwell is billed once for a receipt no two releases of which overlapped, *)
(* whatever else runs.                                                     *)
THEOREM OnceBilled == Spec => []BilledOnceUnlessRaced
BY BillingHolds, PTL DEF Billing

-----------------------------------------------------------------------------
(***************************************************************************)
(* Links.  What binds an ASN exists, and so has a review.                  *)
(***************************************************************************)
UpdatesExisting == \A r \in Req : Updates(r) => Exists(req[r].cons)
LinkedExisting ==
    \A r \in Req : req[r].at = "release.linked" => req[r].cons \in Consignment
Linking == LinkedIsReviewed /\ UpdatesExisting /\ LinkedExisting

LEMMA ExistsStep ==
    ASSUME TypeOK, [Next]_vars, NEW c \in Consignment, Exists(c)
    PROVE  Exists(c)'
<1>1. CASE UNCHANGED review
    BY <1>1 DEF Exists
<1>2. ASSUME NEW d \in Consignment, UpdateManifestReview(d)
      PROVE  Exists(c)'
    BY <1>2, CustomsReleaseAssumption DEF UpdateManifestReview, Exists, TypeOK
<1>3. ASSUME NEW r \in Req, CreateCommit(r)
      PROVE  Exists(c)'
    BY <1>3 DEF CreateCommit, Exists, TypeOK, FirstReview
<1> QED
    BY <1>1, <1>2, <1>3
       DEF Next, vars, SetFlags, ReceiveRead, ReceiveCommit, CreateCheck, UpdateCheck,
           UpdateDelete, UpdateCommit, ReleaseRead, ReleaseFlags, ReleaseLink,
           ReleaseReview, ReleaseCommit, Abort

LEMMA LinkingStep ==
    ASSUME TypeOK, Booking, Linking, [Next]_vars
    PROVE  Linking'
<1> USE DEF Linking
<1>1. ASSUME NEW a \in Asn, link'[a] # None
      PROVE  Exists(link[a])'
    <2>1. CASE link'[a] = link[a]
        <3>1. link[a] \in Consignment /\ Exists(link[a])
            BY <1>1, <2>1 DEF LinkedIsReviewed, TypeOK
        <3> QED BY <2>1, <3>1, ExistsStep DEF Exists
    <2>2. ASSUME NEW r \in Req, CreateCommit(r), link'[a] # link[a]
          PROVE  Exists(link[a])'
        <3>1. link'[a] = req[r].cons /\ req[r].cons \in Consignment
            BY <2>2, ReqFields DEF CreateCommit
        <3> QED BY <2>2, <3>1 DEF CreateCommit, Exists, FirstReview, TypeOK
    <2>3. ASSUME NEW r \in Req, UpdateCommit(r), link'[a] # link[a]
          PROVE  Exists(link[a])'
        <3>1. link'[a] = req[r].cons
            BY <1>1, <2>3 DEF UpdateCommit
        <3>2. req[r].cons \in Consignment /\ Exists(req[r].cons)
            BY <2>3, ReqFields DEF UpdateCommit, Updates, UpdatesExisting
        <3> QED BY <3>1, <3>2, ExistsStep DEF Exists
    <2>4. \/ link' = link
          \/ \E r \in Req : CreateCommit(r) \/ UpdateCommit(r)
        BY DEF Next, vars, SetFlags, UpdateManifestReview, ReceiveRead, ReceiveCommit,
               CreateCheck, UpdateCheck, UpdateDelete, ReleaseRead, ReleaseFlags,
               ReleaseLink, ReleaseReview, ReleaseCommit, Abort
    <2> QED BY <2>1, <2>2, <2>3, <2>4
<1>2. ASSUME NEW s \in Req, Updates(s)'
      PROVE  Exists(req[s].cons)'
    <2>1. CASE Updates(s) /\ req'[s].cons = req[s].cons
        <3>1. req[s].cons \in Consignment /\ Exists(req[s].cons)
            BY <2>1, ReqFields DEF UpdatesExisting
        <3> QED BY <2>1, <3>1, ExistsStep DEF Exists
    <2>2. ASSUME NEW c \in Consignment, UpdateCheck(s, c)
          PROVE  Exists(req[s].cons)'
        <3>1. req'[s].cons = c /\ Exists(c)
            BY <2>2 DEF UpdateCheck, TypeOK
        <3> QED BY <3>1, ExistsStep DEF Exists
    <2>3. CASE UpdateDelete(s)
        <3>1. req[s] \in UpdateReq /\ Updates(s)
            BY <2>3, ReqShape DEF UpdateDelete, Updates
        <3>2. req'[s].cons = req[s].cons
            BY <2>3, <3>1 DEF UpdateDelete, UpdateReq, TypeOK
        <3> QED BY <2>1, <3>1, <3>2
    <2>4. CASE /\ req'[s].at = req[s].at
               /\ Updates(s) => req'[s].cons = req[s].cons
        BY <1>2, <2>1, <2>4 DEF Updates
    <2>5. ASSUME \/ \E a \in Asn : ReceiveRead(s, a)
                 \/ \E c \in Consignment : CreateCheck(s, c)
                 \/ \E x \in Receipt : ReleaseRead(s, x)
          PROVE  FALSE
        BY <1>2, <2>5 DEF ReceiveRead, CreateCheck, ReleaseRead, Updates, TypeOK
    <2>6. ASSUME ReleaseFlags(s) \/ ReleaseLink(s) \/ ReleaseReview(s)
          PROVE  FALSE
        <3>1. req[s] \in ReleaseReq
            BY <2>6, ReqShape DEF ReleaseFlags, ReleaseLink, ReleaseReview, Releases
        <3>2. req'[s].at \in {"release.gated", "release.linked", "release.passed"}
            BY <2>6, <3>1 DEF ReleaseFlags, ReleaseLink, ReleaseReview, Goto, ReleaseReq, TypeOK
        <3> QED BY <1>2, <3>2 DEF Updates
    <2>7. req'[s] # Idle
        BY <1>2 DEF Updates, Idle
    <2> QED BY <2>2, <2>3, <2>4, <2>5, <2>6, <2>7, RequestStep
<1>3. ASSUME NEW s \in Req, req'[s].at = "release.linked"
      PROVE  Exists(req[s].cons)' /\ req'[s].cons \in Consignment
    <2>1. CASE req'[s] = req[s]
        BY <1>3, <2>1, ExistsStep DEF LinkedIsReviewed, LinkedExisting, Exists
    <2>2. CASE ReleaseLink(s)
        <3>1. req[s] \in ReleaseReq /\ receipt[req[s].rcpt] # NoReceipt
            BY <2>2, ReqShape DEF ReleaseLink, Releases, Booking, Booked
        <3>2. receipt[req[s].rcpt].asn \in Asn
            BY <3>1 DEF ReleaseReq, TypeOK
        <3>3. req'[s].cons = link[receipt[req[s].rcpt].asn]
            BY <2>2, <3>1 DEF ReleaseLink, ReleaseReq, TypeOK
        <3>4. req'[s].cons \in Consignment /\ Exists(req'[s].cons)
            BY <2>2, <3>2, <3>3 DEF ReleaseLink, LinkedIsReviewed, TypeOK
        <3> QED BY <3>4, ExistsStep DEF Exists
    <2>3. ASSUME ReleaseFlags(s) \/ ReleaseReview(s)
          PROVE  FALSE
        <3>1. req[s] \in ReleaseReq
            BY <2>3, ReqShape DEF ReleaseFlags, ReleaseReview, Releases
        <3>2. req'[s].at \in {"release.gated", "release.passed"}
            BY <2>3, <3>1 DEF ReleaseFlags, ReleaseReview, Goto, ReleaseReq, TypeOK
        <3> QED BY <1>3, <3>2
    <2>4. ASSUME UpdateDelete(s)
          PROVE  FALSE
        <3>1. req[s] \in UpdateReq
            BY <2>4, ReqShape DEF UpdateDelete, Updates
        <3>2. req'[s].at = "update.deleting"
            BY <2>4, <3>1 DEF UpdateDelete, UpdateReq, TypeOK
        <3> QED BY <1>3, <3>2
    <2>5. ASSUME \/ \E a \in Asn : ReceiveRead(s, a)
                 \/ \E c \in Consignment : CreateCheck(s, c) \/ UpdateCheck(s, c)
                 \/ \E x \in Receipt : ReleaseRead(s, x)
          PROVE  FALSE
        BY <1>3, <2>5 DEF ReceiveRead, CreateCheck, UpdateCheck, ReleaseRead, TypeOK
    <2>6. req'[s] # Idle
        BY <1>3 DEF Idle
    <2>7. req'[s].at = req[s].at => Releases(s)
        BY <1>3 DEF Releases
    <2> QED BY <2>1, <2>2, <2>3, <2>4, <2>5, <2>6, <2>7, RequestStep
<1> QED
    BY <1>1, <1>2, <1>3 DEF LinkedIsReviewed, UpdatesExisting, LinkedExisting

LEMMA LinkingHolds == Spec => []Linking
<1>1. Init => Linking
    BY DEF Init, Linking, LinkedIsReviewed, UpdatesExisting, LinkedExisting, Updates, Idle
<1>2. TypeOK /\ Booking /\ Linking /\ [Next]_vars => Linking'
    BY LinkingStep
<1> QED BY <1>1, <1>2, TypedAndBooking, PTL DEF Spec

(* The gate always finds a review: an ASN is only ever bound to a          *)
(* consignment that has one, and consignments are never deleted.           *)
THEOREM ReviewFound == Spec => []LinkedIsReviewed
BY LinkingHolds, PTL DEF Linking

-----------------------------------------------------------------------------
(***************************************************************************)
(* The gate.  A release whose gate data nobody changed goes by the link    *)
(* its ASN still has.                                                      *)
(***************************************************************************)
AsnOf(r) == receipt[req[r].rcpt].asn

LinkedUnlessStale ==
    \A r \in Req \ stale : req[r].at = "release.linked" => req[r].cons = link[AsnOf(r)]

Gating == GateHoldsUnlessStale /\ LinkedUnlessStale

LEMMA Watched ==
    ASSUME [Next]_vars, ~UNCHANGED vars
    PROVE  Watch
BY DEF Next, SetFlags, ReceiveRead, ReceiveCommit, CreateCheck, CreateCommit, UpdateCheck,
   UpdateDelete, UpdateCommit, UpdateManifestReview, ReleaseRead, ReleaseFlags,
   ReleaseLink, ReleaseReview, ReleaseCommit, Abort

(* A release that goes on and is not stale has the gate data it had.       *)
LEMMA GateStays ==
    ASSUME TypeOK, Booking, [Next]_vars, NEW s \in Req, s \notin stale',
           Releases(s), Releases(s)'
    PROVE  /\ s \notin stale
           /\ req'[s].rcpt = req[s].rcpt
           /\ AsnOf(s)' = AsnOf(s)
           /\ link'[AsnOf(s)] = link[AsnOf(s)]
           /\ GateOpen(AsnOf(s)) => GateOpen(AsnOf(s))'
<1>1. CASE UNCHANGED vars
    BY <1>1 DEF vars, AsnOf, GateOpen, Accepted
<1>2. CASE ~UNCHANGED vars
    <2>1. s \notin stale /\ GateData(AsnOf(s)) = GateData(AsnOf(s))'
        BY <1>2, Watched DEF Watch, AsnOf
    <2>2. req'[s].rcpt = req[s].rcpt /\ req[s].rcpt \in Receipt /\ Booked(req[s].rcpt)
        BY ReleaseStep, ReqFields DEF Booking
    <2>3. receipt'[req[s].rcpt].asn = receipt[req[s].rcpt].asn
        BY <2>2, ReceiptStep
    <2>4. AsnOf(s)' = AsnOf(s)
        BY <2>2, <2>3 DEF AsnOf
    <2>5. /\ hub' = hub /\ gate' = gate /\ link'[AsnOf(s)] = link[AsnOf(s)]
          /\ link[AsnOf(s)] # None => review'[link[AsnOf(s)]] = review[link[AsnOf(s)]]
        BY <2>1, <2>4 DEF GateData
    <2>6. GateOpen(AsnOf(s)) => GateOpen(AsnOf(s))'
        BY <2>4, <2>5 DEF GateOpen, Accepted
    <2> QED BY <2>1, <2>2, <2>4, <2>5, <2>6
<1> QED BY <1>1, <1>2

LEMMA GatingStep ==
    ASSUME TypeOK, Booking, Linking, Gating, [Next]_vars
    PROVE  Gating'
<1>1. ASSUME NEW s \in Req, s \notin stale', Receives(s)'
      PROVE  req'[s].hub = hub'
    <2>1. CASE UNCHANGED vars
        BY <1>1, <2>1 DEF vars, Gating, GateHoldsUnlessStale, Receives
    <2>2. CASE Receives(s) /\ ~UNCHANGED vars
        <3>1. s \notin stale /\ hub' = hub
            BY <1>1, <2>2, Watched DEF Watch
        <3>2. req'[s] = req[s]
            <4>1. ~(UpdateDelete(s) \/ ReleaseFlags(s) \/ ReleaseLink(s) \/ ReleaseReview(s))
                BY <2>2 DEF Receives, UpdateDelete, ReleaseFlags, ReleaseLink, ReleaseReview
            <4>2. req[s] # Idle /\ req'[s] # Idle
                BY <1>1, <2>2 DEF Receives, Idle
            <4> QED BY <2>2, <4>1, <4>2, RequestStep
        <3> QED BY <2>2, <3>1, <3>2 DEF Gating, GateHoldsUnlessStale
    <2>3. ASSUME NEW a \in Asn, ReceiveRead(s, a)
          PROVE  req'[s].hub = hub'
        BY <2>3 DEF ReceiveRead, TypeOK
    <2>4. ASSUME \/ \E c \in Consignment : CreateCheck(s, c) \/ UpdateCheck(s, c)
                 \/ \E x \in Receipt : ReleaseRead(s, x)
          PROVE  FALSE
        BY <1>1, <2>4 DEF CreateCheck, UpdateCheck, ReleaseRead, Receives, TypeOK
    <2>5. ASSUME ReleaseFlags(s) \/ ReleaseLink(s) \/ ReleaseReview(s) \/ UpdateDelete(s)
          PROVE  FALSE
        <3>1. req[s] \in ReleaseReq \/ req[s] \in UpdateReq
            BY <2>5, ReqShape
               DEF ReleaseFlags, ReleaseLink, ReleaseReview, UpdateDelete, Releases, Updates
        <3>2. req'[s].at # "receive.read"
            BY <2>5, <3>1 DEF ReleaseFlags, ReleaseLink, ReleaseReview, UpdateDelete, Goto,
               ReleaseReq, UpdateReq, TypeOK
        <3> QED BY <1>1, <3>2 DEF Receives
    <2>6. req'[s] # Idle
        BY <1>1 DEF Receives, Idle
    <2>7. req'[s].at = req[s].at => Receives(s)
        BY <1>1 DEF Receives
    <2> QED BY <2>1, <2>2, <2>3, <2>4, <2>5, <2>6, <2>7, RequestStep
<1>2. ASSUME NEW s \in Req, s \notin stale', Releases(s)'
      PROVE  /\ req'[s].at = "release.passed" => GateOpen(AsnOf(s))'
             /\ req'[s].at = "release.linked" => req'[s].cons = link'[AsnOf(s)']
    <2>1. CASE ~Releases(s)
        BY <1>2, <2>1, ReleaseStep
    <2>2. CASE Releases(s)
        <3>1. /\ s \notin stale
              /\ AsnOf(s)' = AsnOf(s)
              /\ link'[AsnOf(s)] = link[AsnOf(s)]
              /\ GateOpen(AsnOf(s)) => GateOpen(AsnOf(s))'
            BY <1>2, <2>2, GateStays
        <3>2. req[s] \in ReleaseReq
            BY <2>2, ReqShape
        <3>3. CASE req'[s] = req[s]
            <4>1. req[s].at = "release.passed" => GateOpen(AsnOf(s))
                BY <3>1 DEF Gating, GateHoldsUnlessStale, PassedIsOpen, AsnOf
            <4>2. req[s].at = "release.linked" => req[s].cons = link[AsnOf(s)]
                BY <3>1 DEF Gating, LinkedUnlessStale
            <4> QED BY <3>1, <3>3, <4>1, <4>2
        <3>4. CASE ReleaseFlags(s)
            <4>1. req'[s].at = IF GateApplies THEN "release.gated" ELSE "release.passed"
                BY <3>2, <3>4 DEF ReleaseFlags, Goto, ReleaseReq, TypeOK
            <4>2. ~GateApplies => GateOpen(AsnOf(s))
                BY DEF GateApplies, GateOpen
            <4> QED BY <3>1, <4>1, <4>2
        <3>5. CASE ReleaseLink(s)
            BY <3>1, <3>2, <3>5 DEF ReleaseLink, ReleaseReq, AsnOf, TypeOK
        <3>6. CASE ReleaseReview(s)
            <4>1. req'[s].at = "release.passed"
                BY <3>2, <3>6 DEF ReleaseReview, Goto, ReleaseReq, TypeOK
            <4>2. req[s].cons = link[AsnOf(s)] /\ req[s].cons \in Consignment
                BY <3>1, <3>6 DEF ReleaseReview, Gating, LinkedUnlessStale, Linking, LinkedExisting
            <4>3. GateOpen(AsnOf(s))
                BY <3>6, <4>2, CustomsReleaseAssumption DEF ReleaseReview, GateOpen
            <4> QED BY <3>1, <4>1, <4>3
        <3>7. ~UpdateDelete(s) /\ req[s] # Idle /\ req'[s] # Idle
            BY <1>2, <2>2 DEF UpdateDelete, Releases, Idle
        <3> QED BY <2>2, <3>3, <3>4, <3>5, <3>6, <3>7, RequestStep
    <2> QED BY <2>1, <2>2
<1>3. GateHoldsUnlessStale'
    BY <1>1, <1>2 DEF GateHoldsUnlessStale, PassedIsOpen, Releases, AsnOf
<1>4. LinkedUnlessStale'
    BY <1>2 DEF LinkedUnlessStale, Releases
<1> QED BY <1>3, <1>4 DEF Gating

(* A release that has passed the gate could pass it again when it commits, *)
(* and a receive books by the hub flag of that moment, unless what they    *)
(* read was changed while they ran.                                        *)
THEOREM GateHolds == Spec => []GateHoldsUnlessStale
<1>1. Init => Gating
    BY DEF Init, Gating, GateHoldsUnlessStale, LinkedUnlessStale, PassedIsOpen, Receives, Idle
<1>2. TypeOK /\ Booking /\ Linking /\ Gating /\ [Next]_vars => Gating'
    BY GatingStep
<1>3. Spec => []Gating
    BY <1>1, <1>2, TypedAndBooking, LinkingHolds, PTL DEF Spec
<1> QED BY <1>3, PTL DEF Gating

-----------------------------------------------------------------------------
(***************************************************************************)
(* Numbering.  A generated number is at most the count it was generated    *)
(* from plus one, and the count only grows.                                *)
(***************************************************************************)
Numbered == {c \in Consignment : no[c] # 0}

(* No number is beyond the count but one that a caller named.              *)
NumbersCounted ==
    /\ \A c \in Consignment : ~Exists(c) => no[c] = 0
    /\ \A c \in Consignment : no[c] < NextNo \/ c \in named
    /\ \A r \in Req : req[r].at = "create.checked" =>
          req[r].no <= NextNo \/ req[r].named

LEMMA NextNoIsCount ==
    /\ IsFiniteSet(Numbered) /\ Cardinality(Numbered) \in Nat
    /\ NextNo = Cardinality(Numbered) + 1
<1>1. IsFiniteSet(Numbered)
    BY CustomsReleaseAssumption, FS_Subset DEF Numbered
<1>2. Cardinality(Numbered) \in Nat
    BY <1>1, FS_CardinalityType
<1> QED BY <1>1, <1>2 DEF NextNo, Numbered

(* A number already there keeps, one more counts.                          *)
LEMMA NextNoCreated ==
    ASSUME TypeOK, NumbersCounted, NEW r \in Req, CreateCommit(r)
    PROVE  /\ NextNo' = IF req[r].no = 0 THEN NextNo ELSE NextNo + 1
           /\ req[r].cons \in Consignment /\ req[r].no \in Nat
           /\ no' = [no EXCEPT ![req[r].cons] = req[r].no]
<1>1. PICK c \in Consignment : c = req[r].cons
    BY ReqFields DEF CreateCommit
<1>2. req[r].no \in Nat /\ no' = [no EXCEPT ![c] = req[r].no] /\ no[c] = 0
    BY <1>1, ReqFields DEF CreateCommit, NumbersCounted
<1>3. NextNo' = Cardinality(Numbered') + 1
    BY NextNoIsCount DEF NextNo, Numbered
<1>4. CASE req[r].no = 0
    <2>1. no' = no
        BY <1>2, <1>4 DEF TypeOK
    <2> QED BY <1>1, <1>2, <1>4, <2>1 DEF NextNo
<1>5. CASE req[r].no # 0
    <2>1. Numbered' = Numbered \cup {c} /\ c \notin Numbered
        BY <1>2, <1>5 DEF Numbered, TypeOK
    <2>2. Cardinality(Numbered \cup {c}) = Cardinality(Numbered) + 1
        BY <2>1, NextNoIsCount, FS_AddElement
    <2> QED BY <1>1, <1>2, <1>3, <1>5, <2>1, <2>2, NextNoIsCount
<1> QED BY <1>1, <1>2, <1>4, <1>5

LEMMA NumbersStep ==
    ASSUME TypeOK, NumbersCounted, [Next]_vars
    PROVE  NumbersCounted'
<1>0. NextNo \in Nat /\ \A c \in Consignment : no[c] \in Nat
    BY NextNoType DEF TypeOK
<1>1. ASSUME NEW r \in Req, CreateCommit(r)
      PROVE  NumbersCounted'
    <2>1. PICK c \in Consignment : c = req[r].cons
        BY <1>1, NextNoCreated
    <2>2. /\ NextNo' = IF req[r].no = 0 THEN NextNo ELSE NextNo + 1
          /\ req[r].no \in Nat /\ no' = [no EXCEPT ![c] = req[r].no]
        BY <1>1, <2>1, NextNoCreated
    <2>3. Exists(c)' /\ \A d \in Consignment \ {c} : Exists(d)' = Exists(d)
        BY <1>1, <2>1, CustomsReleaseAssumption DEF CreateCommit, Exists, FirstReview, TypeOK
    <2>4. \A d \in Consignment : ~Exists(d)' => no'[d] = 0
        BY <2>2, <2>3 DEF NumbersCounted, TypeOK
    <2>5. \A d \in Consignment : no'[d] < NextNo' \/ d \in named'
        <3>1. no'[c] < NextNo' \/ c \in named'
            BY <1>0, <1>1, <2>2 DEF NumbersCounted, CreateCommit, TypeOK
        <3>2. \A d \in Consignment \ {c} : no'[d] = no[d]
            BY <2>2 DEF TypeOK
        <3>3. named \subseteq named'
            BY <1>1 DEF CreateCommit
        <3> QED BY <1>0, <2>2, <3>1, <3>2, <3>3 DEF NumbersCounted
    <2>6. ASSUME NEW s \in Req, req'[s].at = "create.checked"
          PROVE  req'[s].no <= NextNo' \/ req'[s].named
        <3>1. req'[s] = req[s]
            BY <1>1, <2>6 DEF CreateCommit, Finish, Idle, TypeOK
        <3>2. req[s].no \in Nat
            BY <2>6, <3>1, ReqFields
        <3> QED BY <1>0, <2>2, <2>6, <3>1, <3>2 DEF NumbersCounted
    <2> QED BY <2>4, <2>5, <2>6 DEF NumbersCounted
<1>2. ASSUME UNCHANGED <<no, named>>,
             \A c \in Consignment : ~Exists(c)' => ~Exists(c),
             \A s \in Req : req'[s].at = "create.checked" =>
                 \/ req'[s] = req[s]
                 \/ req'[s].no <= NextNo \/ req'[s].named
      PROVE  NumbersCounted'
    <2>1. NextNo' = NextNo
        BY <1>2 DEF NextNo
    <2> QED BY <1>0, <1>2, <2>1 DEF NumbersCounted
<1>3. ASSUME NEW c \in Consignment, UpdateManifestReview(c)
      PROVE  NumbersCounted'
    <2>1. \A d \in Consignment : ~Exists(d)' => ~Exists(d)
        BY <1>3, CustomsReleaseAssumption DEF UpdateManifestReview, Exists, TypeOK
    <2>2. UNCHANGED <<no, named, req>>
        BY <1>3 DEF UpdateManifestReview
    <2> QED BY <1>2, <2>1, <2>2
<1>4. ASSUME NEW r \in Req, NEW c \in Consignment, CreateCheck(r, c)
      PROVE  NumbersCounted'
    <2>1. \A s \in Req \ {r} : req'[s] = req[s]
        BY <1>4 DEF CreateCheck, TypeOK
    <2>2. req'[r].no <= NextNo \/ req'[r].named
        <3>1. PICK choice \in Choices : req'[r].no = choice.no /\ req'[r].named = choice.named
            BY <1>4 DEF CreateCheck, TypeOK
        <3>2. CASE choice = [no |-> NextNo, named |-> FALSE]
            BY <1>0, <3>1, <3>2
        <3>3. CASE choice \in [no : {0, OtherForm} \cup PickedNo, named : {TRUE}]
            BY <3>1, <3>3
        <3> QED BY <3>2, <3>3 DEF Choices
    <2>3. UNCHANGED <<no, named, review>>
        BY <1>4 DEF CreateCheck
    <2> QED BY <1>2, <2>1, <2>2, <2>3 DEF Exists
<1>5. CASE /\ UNCHANGED <<no, named, review>>
           /\ \A s \in Req : req'[s].at = "create.checked" => req'[s] = req[s]
    BY <1>2, <1>5 DEF Exists
<1>6. ASSUME NEW r \in Req, UpdateCommit(r)
      PROVE  NumbersCounted'
    <2>1. \A s \in Req : req'[s].at = "create.checked" => req'[s] = req[s]
        <3>1. \A s \in Req : req[s].at = "update.deleting" => req[s] \in UpdateReq
            BY ReqShape DEF Updates
        <3> QED BY <1>6, <3>1 DEF UpdateCommit, UpdateReq, Idle
    <2> QED BY <1>5, <1>6, <2>1 DEF UpdateCommit
<1>7. ASSUME NEW r \in Req, UNCHANGED <<no, named, review>>, req'[r].at # "create.checked",
             \A s \in Req \ {r} : req'[s] = req[s]
      PROVE  NumbersCounted'
    BY <1>5, <1>7
<1>8. ASSUME NEW r \in Req,
             ReleaseFlags(r) \/ ReleaseLink(r) \/ ReleaseReview(r) \/ UpdateDelete(r)
      PROVE  NumbersCounted'
    <2>1. Releases(r) \/ Updates(r)
        BY <1>8 DEF ReleaseFlags, ReleaseLink, ReleaseReview, UpdateDelete, Releases, Updates
    <2>2. req[r] \in ReleaseReq \cup UpdateReq
        BY <2>1, ReqShape
    <2>3. req'[r].at # "create.checked" /\ \A s \in Req \ {r} : req'[s] = req[s]
        BY <1>8, <2>2 DEF ReleaseFlags, ReleaseLink, ReleaseReview, UpdateDelete, Goto,
           ReleaseReq, UpdateReq, TypeOK
    <2> QED BY <1>7, <1>8, <2>3
            DEF ReleaseFlags, ReleaseLink, ReleaseReview, UpdateDelete
<1>9. ASSUME NEW r \in Req,
             \/ \E a \in Asn : ReceiveRead(r, a)
             \/ \E c \in Consignment : UpdateCheck(r, c)
             \/ \E x \in Receipt : ReleaseRead(r, x)
      PROVE  NumbersCounted'
    <2>1. req'[r].at # "create.checked" /\ \A s \in Req \ {r} : req'[s] = req[s]
        BY <1>9 DEF ReceiveRead, UpdateCheck, ReleaseRead, TypeOK
    <2> QED BY <1>7, <1>9, <2>1 DEF ReceiveRead, UpdateCheck, ReleaseRead
<1>10. ASSUME NEW r \in Req, Finish(r), UNCHANGED <<no, named, review>>
       PROVE  NumbersCounted'
    BY <1>7, <1>10 DEF Finish, Idle, TypeOK
<1>11. CASE UNCHANGED <<no, named, review, req>>
    BY <1>5, <1>11
<1> QED
    BY <1>1, <1>3, <1>4, <1>6, <1>8, <1>9, <1>10, <1>11
       DEF Next, vars, SetFlags, ReceiveCommit, ReleaseCommit, Abort

(* The number generated next is taken only if a caller had named it: what  *)
(* the generator makes, and what it counts in another form, is behind the  *)
(* count (generateConsignmentNo counts every number that begins with       *)
(* IC-<today> and adds one).                                               *)
THEOREM GeneratedNotAhead == Spec => []OnlyNamedIsAhead
<1>1. Init => NumbersCounted
    <2> SUFFICES ASSUME Init PROVE NumbersCounted
        OBVIOUS
    <2>1. NextNo \in Nat /\ NextNo > 0
        BY NextNoIsCount
    <2> QED BY <2>1 DEF Init, NumbersCounted, Idle
<1>2. TypeOK /\ NumbersCounted /\ [Next]_vars => NumbersCounted'
    BY NumbersStep
<1>3. NumbersCounted => OnlyNamedIsAhead
    BY NextNoType DEF NumbersCounted, TodaysNos, OnlyNamedIsAhead
<1> QED BY <1>1, <1>2, <1>3, TypeCorrect, PTL DEF Spec
=============================================================================
