--------------------------- MODULE CustomsRelease ---------------------------
(***************************************************************************)
(* Customs hold in one warehouse: receipts booked at a transit hub are     *)
(* held; an import consignment binds ASNs to a manifest review; a held     *)
(* receipt is released, and its dwell time billed, once the gate is open.  *)
(* Sources: src/src/modules/import-consignment/import-consignment.service  *)
(* .ts, releaseInboundReceiptCustoms and the hold of receiveItem in        *)
(* inbound.service.ts, the two flags of master-data's updateWarehouse.     *)
(*                                                                         *)
(* Requests interleave between statements, as in Receiving: reads return   *)
(* committed rows and may be stale when they are used.                     *)
(***************************************************************************)
EXTENDS Integers, FiniteSets

CONSTANTS
    Req,          \* request slots
    Receipt,      \* ids of inbound receipts
    Asn,          \* ids of existing ASNs of the warehouse and customer
    Consignment,  \* ids of import consignments
    None,         \* no consignment, or no receipt
    PickedNo,     \* numbers n such that a caller may name IC-<today>-n himself
    ReviewStatus  \* the manifest review statuses in use

ASSUME CustomsReleaseAssumption ==
    /\ None \notin Consignment
    /\ IsFiniteSet(Consignment)
    /\ PickedNo \subseteq Nat \ {0}
    /\ {"DRAFT", "MATCHED"} \subseteq ReviewStatus
    /\ ReviewStatus \subseteq
          {"DRAFT", "IN_PROGRESS", "MATCHED", "DISCREPANCY", "WAIVED"}

VARIABLES
    hub,      \* warehouses.is_transit_import_hub
    gate,     \* warehouses.require_manifest_review_gate
    receipt,  \* inbound_receipts: ASN, clearance status, dwell billing rows
    link,     \* import_consignment_asns: one consignment at most per ASN
    review,   \* manifest_reviews.status, "ABSENT" before the consignment
    no,       \* n when the consignment's number is IC-<today>-n; 0, OtherForm
    named,    \* history: consignments whose number a caller gave
    req,      \* what each request in flight has read and still has to do
    raced,    \* history: receipts of which two releases overlapped
    stale     \* history: requests under which the gate data they use changed

vars == <<hub, gate, receipt, link, review, no, named, req, raced, stale>>

Clearance == {"NONE", "HELD", "CLEARED"}
NoReceipt == [asn |-> None, clr |-> "NONE", bills |-> 0]
Idle == [at |-> "idle"]

(* A number that begins with IC-<today> but is not IC-<today>-n for an n   *)
(* the generator writes: beyond every count.  0 is a number without it.    *)
OtherForm == Cardinality(Consignment) + 2

TypeOK ==
    /\ hub \in BOOLEAN
    /\ gate \in BOOLEAN
    /\ receipt \in [Receipt -> [asn : Asn, clr : Clearance, bills : Nat] \cup {NoReceipt}]
    /\ link \in [Asn -> Consignment \cup {None}]
    /\ review \in [Consignment -> ReviewStatus \cup {"ABSENT"}]
    /\ no \in [Consignment -> Nat]
    /\ named \subseteq Consignment
    /\ req \in [Req ->
          {Idle}
          \cup [at : {"receive.read"}, asn : Asn, hub : BOOLEAN]
          \cup [at : {"create.checked"}, cons : Consignment, asns : SUBSET Asn,
                no : Nat, named : BOOLEAN]
          \cup [at : {"update.checked", "update.deleting"}, cons : Consignment,
                asns : SUBSET Asn, seen : SUBSET Asn]
          \cup [at : {"release.read", "release.gated", "release.linked", "release.passed"},
                rcpt : Receipt, cons : Consignment \cup {None}]]
    /\ raced \subseteq Receipt
    /\ stale \subseteq Req

-----------------------------------------------------------------------------
Exists(c) == review[c] # "ABSENT"
Booked(x) == receipt[x] # NoReceipt
Bound(c) == {a \in Asn : link[a] = c}

Receives(r) == req[r].at = "receive.read"
Releases(r) ==
    req[r].at \in {"release.read", "release.gated", "release.linked", "release.passed"}

Uses(r) == IF Releases(r) THEN {req[r].rcpt} ELSE {}

(* Release r of x starts; x is raced if another one is in flight.          *)
Starts(r, x) == raced' = IF \E s \in Req \ {r} : x \in Uses(s)
                         THEN raced \cup {x} ELSE raced

Finish(r) == req' = [req EXCEPT ![r] = Idle]
Goto(r, at) == req' = [req EXCEPT ![r].at = at]

(* What decides whether a receipt of ASN a may be released.                *)
GateData(a) ==
    <<hub, gate, link[a], IF link[a] = None THEN "ABSENT" ELSE review[link[a]]>>

Accepted(st) == st \in {"MATCHED", "WAIVED"}

GateOpen(a) ==
    (hub /\ gate) => link[a] # None /\ Accepted(review[link[a]])

(* History: the requests whose gate data this step, or an earlier one of   *)
(* theirs, changed under them.                                             *)
Watch ==
    stale' = {r \in Req :
        \/ Releases(r) /\ Releases(r)'
           /\ \/ r \in stale
              \/ GateData(receipt[req[r].rcpt].asn)
                    # GateData(receipt[req[r].rcpt].asn)'
        \/ Receives(r) /\ Receives(r)' /\ (r \in stale \/ hub' # hub)}

-----------------------------------------------------------------------------
Init ==
    /\ hub \in BOOLEAN
    /\ gate \in BOOLEAN
    /\ receipt = [x \in Receipt |-> NoReceipt]
    /\ link = [a \in Asn |-> None]
    /\ review = [c \in Consignment |-> "ABSENT"]
    /\ no = [c \in Consignment |-> 0]
    /\ named = {}
    /\ req = [r \in Req |-> Idle]
    /\ raced = {}
    /\ stale = {}

(* updateWarehouse writes either flag, whatever is held or under review.   *)
SetFlags ==
    /\ hub' \in BOOLEAN
    /\ gate' \in BOOLEAN
    /\ UNCHANGED <<receipt, link, review, no, named, req, raced>>
    /\ Watch

(* receiveItem reads the hub flag, and books the receipt held if it was    *)
(* set.  (What else a receive reads and writes is in Receiving.)           *)
ReceiveRead(r, a) ==
    /\ req[r] = Idle
    /\ req' = [req EXCEPT ![r] = [at |-> "receive.read", asn |-> a, hub |-> hub]]
    /\ UNCHANGED <<hub, gate, receipt, link, review, no, named, raced>>
    /\ Watch

ReceiveCommit(r, x) ==
    /\ Receives(r)
    /\ ~Booked(x)
    /\ receipt' = [receipt EXCEPT ![x] =
          [asn |-> req[r].asn, clr |-> IF req[r].hub THEN "HELD" ELSE "NONE", bills |-> 0]]
    /\ Finish(r)
    /\ UNCHANGED <<hub, gate, link, review, no, named, raced>>
    /\ Watch

-----------------------------------------------------------------------------
(***************************************************************************)
(* create: the ASNs' links and the number are looked up first, then one    *)
(* transaction inserts the consignment, its links and its draft review.    *)
(* The unique indexes on ASN and number make it fail when either is taken. *)
(* The number is the caller's, of any form, or the count of the numbers    *)
(* that begin with IC-<today>, whoever wrote them, plus one.               *)
(***************************************************************************)
TodaysNos == {no[c] : c \in Consignment} \ {0, OtherForm}

(* Mutated forms: the consignments of the day not counted, one too few.    *)
NextNoUncounted == 1
NextNoTooLow == Cardinality({c \in Consignment : no[c] # 0}) - 1

NextNo == Cardinality({c \in Consignment : no[c] # 0}) + 1

(* A number, and whether the caller named it.                              *)
Choices == [no : {0, OtherForm} \cup PickedNo, named : {TRUE}]
              \cup {[no |-> NextNo, named |-> FALSE]}

CreateCheck(r, c) ==
    /\ req[r] = Idle
    /\ ~Exists(c)
    /\ \E asns \in SUBSET Asn, choice \in Choices :
          /\ \A a \in asns : link[a] = None
          /\ req' = [req EXCEPT ![r] =
                [at |-> "create.checked", cons |-> c, asns |-> asns,
                 no |-> choice.no, named |-> choice.named]]
    /\ UNCHANGED <<hub, gate, receipt, link, review, no, named, raced>>
    /\ Watch

(* Mutated form: a consignment created without its manifest review.        *)
NoReview == "ABSENT"

FirstReview == "DRAFT"

CreateCommit(r) ==
    LET c == req[r].cons
    IN  /\ req[r].at = "create.checked"
        /\ ~Exists(c)
        /\ \A a \in req[r].asns : link[a] = None
        /\ req[r].no \notin TodaysNos
        /\ link' = [a \in Asn |-> IF a \in req[r].asns THEN c ELSE link[a]]
        /\ review' = [review EXCEPT ![c] = FirstReview]
        /\ no' = [no EXCEPT ![c] = req[r].no]
        /\ named' = IF req[r].named THEN named \cup {c} ELSE named
        /\ Finish(r)
        /\ UNCHANGED <<hub, gate, receipt, raced>>
        /\ Watch

(***************************************************************************)
(* update: the ASNs are checked before the transaction, which deletes the  *)
(* links its statement sees and inserts the new ones.                      *)
(***************************************************************************)
UpdateCheck(r, c) ==
    /\ req[r] = Idle
    /\ Exists(c)
    /\ \E asns \in SUBSET Asn :
          /\ \A a \in asns : link[a] \in {None, c}
          /\ req' = [req EXCEPT ![r] =
                [at |-> "update.checked", cons |-> c, asns |-> asns, seen |-> {}]]
    /\ UNCHANGED <<hub, gate, receipt, link, review, no, named, raced>>
    /\ Watch

UpdateDelete(r) ==
    /\ req[r].at = "update.checked"
    /\ req' = [req EXCEPT ![r].at = "update.deleting",
                          ![r].seen = Bound(req[r].cons)]
    /\ UNCHANGED <<hub, gate, receipt, link, review, no, named, raced>>
    /\ Watch

Deleted(r) == req[r].seen

(* A transaction that waited for the rows this one deletes finds them gone,*)
(* and does not see the rows this one inserts in their place.              *)
UpdateCommit(r) ==
    LET c == req[r].cons
    IN  /\ req[r].at = "update.deleting"
        /\ \A a \in req[r].asns : link[a] = None \/ a \in Deleted(r)
        /\ link' = [a \in Asn |-> IF a \in req[r].asns THEN c
                                  ELSE IF a \in Deleted(r) THEN None ELSE link[a]]
        /\ req' = [s \in Req |->
              IF s = r THEN Idle
              ELSE IF req[s].at = "update.deleting" /\ req[s].cons = c
              THEN [req[s] EXCEPT !.seen = @ \ Deleted(r)]
              ELSE req[s]]
        /\ UNCHANGED <<hub, gate, receipt, review, no, named, raced>>
        /\ Watch

(* updateManifestReview: any status to any status, in one write.           *)
UpdateManifestReview(c) ==
    /\ Exists(c)
    /\ \E st \in ReviewStatus : review' = [review EXCEPT ![c] = st]
    /\ UNCHANGED <<hub, gate, receipt, link, no, named, req, raced>>
    /\ Watch

-----------------------------------------------------------------------------
(***************************************************************************)
(* releaseInboundReceiptCustoms: reads the receipt, then the gate in up to *)
(* three reads (assertCustomsReleaseAllowedForReceipt), then writes the    *)
(* receipt by id and inserts the billing row.                              *)
(***************************************************************************)
(* Mutated form: the clearance status not checked.                         *)
ReleasableAny(x) == Booked(x)

Releasable(x) == receipt[x].clr = "HELD"

ReleaseRead(r, x) ==
    /\ req[r] = Idle
    /\ Releasable(x)
    /\ req' = [req EXCEPT ![r] = [at |-> "release.read", rcpt |-> x, cons |-> None]]
    /\ Starts(r, x)
    /\ UNCHANGED <<hub, gate, receipt, link, review, no, named>>
    /\ Watch

(* Mutated form: the gate applied only where the hub flag is off.          *)
GateOffHub == ~hub /\ gate

GateApplies == hub /\ gate

ReleaseFlags(r) ==
    /\ req[r].at = "release.read"
    /\ Goto(r, IF GateApplies THEN "release.gated" ELSE "release.passed")
    /\ UNCHANGED <<hub, gate, receipt, link, review, no, named, raced>>
    /\ Watch

ReleaseLink(r) ==
    LET a == receipt[req[r].rcpt].asn
    IN  /\ req[r].at = "release.gated"
        /\ link[a] # None
        /\ req' = [req EXCEPT ![r].at = "release.linked", ![r].cons = link[a]]
        /\ UNCHANGED <<hub, gate, receipt, link, review, no, named, raced>>
        /\ Watch

ReleaseReview(r) ==
    /\ req[r].at = "release.linked"
    /\ Accepted(review[req[r].cons])
    /\ Goto(r, "release.passed")
    /\ UNCHANGED <<hub, gate, receipt, link, review, no, named, raced>>
    /\ Watch

(* No billing row when the clocks show no dwell time.                      *)
ReleaseCommit(r) ==
    LET x == req[r].rcpt
    IN  /\ req[r].at = "release.passed"
        /\ \E billed \in {0, 1} :
              receipt' = [receipt EXCEPT ![x].clr = "CLEARED",
                                         ![x].bills = @ + billed]
        /\ Finish(r)
        /\ UNCHANGED <<hub, gate, link, review, no, named, raced>>
        /\ Watch

(* A failed check, a unique conflict, a timeout or a crash: no effect.     *)
Abort(r) ==
    /\ req[r] # Idle
    /\ Finish(r)
    /\ UNCHANGED <<hub, gate, receipt, link, review, no, named, raced>>
    /\ Watch

Next ==
    \/ SetFlags
    \/ \E c \in Consignment : UpdateManifestReview(c)
    \/ \E r \in Req :
          \/ \E a \in Asn : ReceiveRead(r, a)
          \/ \E x \in Receipt : ReceiveCommit(r, x) \/ ReleaseRead(r, x)
          \/ \E c \in Consignment : CreateCheck(r, c) \/ UpdateCheck(r, c)
          \/ CreateCommit(r)
          \/ UpdateDelete(r)
          \/ UpdateCommit(r)
          \/ ReleaseFlags(r)
          \/ ReleaseLink(r)
          \/ ReleaseReview(r)
          \/ ReleaseCommit(r)
          \/ Abort(r)

Spec == Init /\ [][Next]_vars
-----------------------------------------------------------------------------
(* A receipt's dwell is billed once (inbound.service.ts:232: 'Only         *)
(* receipts in HELD customs status can be released'), and never twice      *)
(* unless two releases of it overlapped.                                   *)
BilledOnceUnlessRaced == \A x \in Receipt \ raced : receipt[x].bills <= 1

(* A release that has passed the gate is still entitled to when it commits *)
(* (import-consignment.service.ts:82: the review must be MATCHED or WAIVED *)
(* 'sebelum customs release'), and a receive holds the receipt as the hub  *)
(* flag says, unless what they read changed while they ran.                *)
PassedIsOpen(r) == req[r].at = "release.passed" => GateOpen(receipt[req[r].rcpt].asn)

GateHoldsUnlessStale ==
    \A r \in Req \ stale : PassedIsOpen(r) /\ (Receives(r) => req[r].hub = hub)

(* A linked ASN's consignment has a manifest review: the gate's branch     *)
(* 'Manifest review tidak ditemukan' (import-consignment.service.ts:78)    *)
(* cannot be reached.                                                      *)
LinkedIsReviewed ==
    /\ \A a \in Asn : link[a] # None => Exists(link[a])
    /\ \A r \in Req : req[r].at = "release.linked" => Exists(req[r].cons)

(* The generator never runs into a number it made itself, nor into one it  *)
(* counted in another form: when the number generated next is taken, a     *)
(* caller had named it (import-consignment.service.ts:202 takes any number *)
(* the dto gives).  Such a number does stop every create that names none,  *)
(* until the count has passed it; and two creates that overlap may still   *)
(* generate the same number, one of which the unique index refuses.        *)
OnlyNamedIsAhead ==
    NextNo \in TodaysNos => \E c \in named : no[c] = NextNo
=============================================================================
