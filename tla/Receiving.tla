----------------------------- MODULE Receiving -----------------------------
(***************************************************************************)
(* The inbound side of the warehouse: advance shipping notices (ASNs),     *)
(* their lines, the receipts booked against them and the stock balances    *)
(* the receipts feed.  Source: src/src/modules/inbound/inbound.service.ts  *)
(* (createAsn, updateAsn, updateAsnItems, softDeleteAsn, receiveItem).     *)
(*                                                                         *)
(* Several HTTP requests run at once, each on a slot of Req.  A handler is *)
(* cut where another request can come between two of its statements: the   *)
(* database is PostgreSQL at READ COMMITTED, so a read returns committed   *)
(* rows, a write holds its row until the transaction ends, and what was    *)
(* read earlier may be stale when it is used.                              *)
(***************************************************************************)
EXTENDS Integers, Sequences, Functions

CONSTANTS
    Req,          \* request slots
    Asn,          \* ids of ASNs
    Product,      \* the products, each from one supplier: a product names a line
    Bin,          \* the active bins of the ASNs' warehouse
    Serial,       \* serial numbers a receipt may carry
    ExpectedQty,  \* quantities a line may expect; the DTO sets no minimum
    ReceiveQty,   \* quantities a receive request may carry
    MaxReceipts,  \* bound: receipts ever booked
    MaxGen        \* bound: times the lines of one ASN are written

ASSUME ReceivingAssumption ==
    /\ Asn \cap Serial = {}
    /\ ExpectedQty \subseteq Int
    /\ ReceiveQty \subseteq Int
    /\ MaxReceipts \in Nat
    /\ MaxGen \in Nat

VARIABLES
    status,   \* inbound_asns.status, "ABSENT" before the row exists
    items,    \* inbound_asn_items: one row at most per ASN and product
    lastGen,  \* generation of the rows last inserted for an ASN
    receipts, \* inbound_receipts, in commit order
    balance,  \* inventory_balances.qty_on_hand
    outside,  \* serials of each product that a transformation put out or a
              \* DONE outbound task names
    req,      \* what each request in flight has read and still has to do
    raced     \* history: ASNs and serials two requests in flight have shared

vars == <<status, items, lastGen, receipts, balance, outside, req, raced>>

AsnStatus == {"DRAFT", "RECEIVING", "COMPLETED", "CANCELLED"}

(***************************************************************************)
(* A line's row.  gen is its identity: rows replaced by updateAsnItems get *)
(* new ids, so a stale id names no row.  gen = 0 says there is no row.     *)
(***************************************************************************)
ItemRow == [gen : Nat, exp : Int, rcv : Nat]
NoRow == [gen |-> 0, exp |-> 0, rcv |-> 0]

(* The lines of a DTO: at least one, each product once.                    *)
Lines == UNION {[S -> ExpectedQty] : S \in SUBSET Product \ {{}}}

(* gen = 0 in a receipt: its line was deleted (ON DELETE SET NULL).        *)
Receipt == [asn : Asn, prod : Product, gen : Nat, bin : Bin,
            qty : Nat \ {0}, sn : SUBSET Serial]

Idle == [at |-> "idle"]
ReceiveReq == [at : {"receive.read", "receive.written"}, asn : Asn,
               prod : Product, bin : Bin, qty : Nat \ {0}, sn : SUBSET Serial,
               row : ItemRow, allDone : BOOLEAN]
UpdateReq == [at : {"update.read"}, asn : Asn, status : AsnStatus]
ItemsReq == [at : {"items.checked", "items.deleting"}, asn : Asn,
             lines : Lines, seen : [Product -> Nat]]
CancelReq == [at : {"cancel.read"}, asn : Asn]

TypeOK ==
    /\ status \in [Asn -> AsnStatus \cup {"ABSENT"}]
    /\ items \in [Asn -> [Product -> ItemRow]]
    /\ lastGen \in [Asn -> Nat]
    /\ receipts \in Seq(Receipt)
    /\ balance \in [Bin -> [Product -> Nat]]
    /\ outside \in [Product -> SUBSET Serial]
    /\ req \in [Req -> {Idle} \cup ReceiveReq \cup UpdateReq \cup ItemsReq
                         \cup CancelReq]
    /\ raced \subseteq Asn \cup Serial

-----------------------------------------------------------------------------
InFlight(r) == req[r].at # "idle"
Receives(r) == req[r].at \in {"receive.read", "receive.written"}

(* The ASN and the serial numbers a request in flight works on.            *)
Uses(r) == IF ~InFlight(r) THEN {}
           ELSE {req[r].asn} \cup (IF Receives(r) THEN req[r].sn ELSE {})

(* Request r starts on the ASN and serials X: those another request is     *)
(* working on are raced from here on.                                      *)
Starts(r, X) == raced' = raced \cup {x \in X : \E s \in Req \ {r} : x \in Uses(s)}

Finish(r) == req' = [req EXCEPT ![r] = Idle]

(* The rows of lines, freshly inserted as generation g.                    *)
NewRows(lines, g) ==
    [p \in Product |-> IF p \in DOMAIN lines
                       THEN [gen |-> g, exp |-> lines[p], rcv |-> 0]
                       ELSE NoRow]

-----------------------------------------------------------------------------
Init ==
    /\ status = [a \in Asn |-> "ABSENT"]
    /\ items = [a \in Asn |-> [p \in Product |-> NoRow]]
    /\ lastGen = [a \in Asn |-> 0]
    /\ receipts = <<>>
    /\ balance = [b \in Bin |-> [p \in Product |-> 0]]
    /\ outside = [p \in Product |-> {}]
    /\ req = [r \in Req |-> Idle]
    /\ raced = {}

(* createAsn: one nested create, atomic, after the master data checks.     *)
CreateAsn(a) ==
    /\ status[a] = "ABSENT"
    /\ \E lines \in Lines :
          items' = [items EXCEPT ![a] = NewRows(lines, 1)]
    /\ status' = [status EXCEPT ![a] = "DRAFT"]
    /\ lastGen' = [lastGen EXCEPT ![a] = 1]
    /\ UNCHANGED <<receipts, balance, outside, req, raced>>

(* Mutated form: the reopening check dropped.                              *)
MayBecomeAny(cur, st) == cur # "ABSENT"

MayBecome(cur, st) == cur # "ABSENT" /\ (cur = "COMPLETED" => st = "COMPLETED")

(* updateAsn reads the status, then updates the row with the status the    *)
(* caller asked for, whatever it is by then.  (A request that names no     *)
(* status changes nothing kept here.)                                      *)
UpdateRead(r, a) ==
    /\ ~InFlight(r)
    /\ \E st \in AsnStatus :
          /\ MayBecome(status[a], st)
          /\ req' = [req EXCEPT ![r] =
                        [at |-> "update.read", asn |-> a, status |-> st]]
    /\ Starts(r, {a})
    /\ UNCHANGED <<status, items, lastGen, receipts, balance, outside>>

UpdateWrite(r) ==
    /\ req[r].at = "update.read"
    /\ status' = [status EXCEPT ![req[r].asn] = req[r].status]
    /\ Finish(r)
    /\ UNCHANGED <<items, lastGen, receipts, balance, outside, raced>>

(* softDeleteAsn: the same two statements, to CANCELLED.                   *)
CancelRead(r, a) ==
    /\ ~InFlight(r)
    /\ status[a] \notin {"ABSENT", "COMPLETED"}
    /\ req' = [req EXCEPT ![r] = [at |-> "cancel.read", asn |-> a]]
    /\ Starts(r, {a})
    /\ UNCHANGED <<status, items, lastGen, receipts, balance, outside>>

CancelWrite(r) ==
    /\ req[r].at = "cancel.read"
    /\ status' = [status EXCEPT ![req[r].asn] = "CANCELLED"]
    /\ Finish(r)
    /\ UNCHANGED <<items, lastGen, receipts, balance, outside, raced>>

-----------------------------------------------------------------------------
(***************************************************************************)
(* updateAsnItems: the checks run outside the transaction; the transaction *)
(* deletes the rows its statement sees (a snapshot: rows inserted while it *)
(* waits for a lock are not in it) and inserts the new ones.               *)
(***************************************************************************)
(* Mutated form: the count of receipts dropped.                            *)
NeverReceived(a) == FALSE

HasReceipts(a) == \E i \in DOMAIN receipts : receipts[i].asn = a

ItemsCheck(r, a) ==
    /\ ~InFlight(r)
    /\ status[a] = "DRAFT"
    /\ ~HasReceipts(a)
    /\ lastGen[a] < MaxGen
    /\ \E lines \in Lines :
          req' = [req EXCEPT ![r] =
                     [at |-> "items.checked", asn |-> a, lines |-> lines,
                      seen |-> [p \in Product |-> 0]]]
    /\ Starts(r, {a})
    /\ UNCHANGED <<status, items, lastGen, receipts, balance, outside>>

ItemsDelete(r) ==
    /\ req[r].at = "items.checked"
    /\ req' = [req EXCEPT
                  ![r].at = "items.deleting",
                  ![r].seen = [p \in Product |-> items[req[r].asn][p].gen]]
    /\ UNCHANGED <<status, items, lastGen, receipts, balance, outside, raced>>

(* A receive transaction that has written a row keeps it locked.           *)
Locked(a, p) ==
    \E s \in Req : /\ req[s].at = "receive.written"
                   /\ req[s].asn = a
                   /\ req[s].prod = p

ItemsCommit(r) ==
    LET a == req[r].asn
        deleted(p) == items[a][p].gen # 0 /\ items[a][p].gen = req[r].seen[p]
        kept(p) == items[a][p].gen # 0 /\ ~deleted(p)
        new == NewRows(req[r].lines, lastGen[a] + 1)
    IN  /\ req[r].at = "items.deleting"
        /\ \A p \in Product : deleted(p) => ~Locked(a, p)
        \* unique (asn, product, supplier): otherwise the insert fails
        /\ \A p \in DOMAIN req[r].lines : ~kept(p)
        /\ items' = [items EXCEPT ![a] =
                        [p \in Product |-> IF kept(p) THEN items[a][p] ELSE new[p]]]
        /\ lastGen' = [lastGen EXCEPT ![a] = @ + 1]
        /\ receipts' = [i \in DOMAIN receipts |->
                          IF /\ receipts[i].asn = a
                             /\ deleted(receipts[i].prod)
                             /\ receipts[i].gen = req[r].seen[receipts[i].prod]
                          THEN [receipts[i] EXCEPT !.gen = 0]
                          ELSE receipts[i]]
        /\ Finish(r)
        /\ UNCHANGED <<status, balance, outside, raced>>

-----------------------------------------------------------------------------
(***************************************************************************)
(* receiveItem: the transaction reads the ASN and its lines, checks the    *)
(* quantity and the serials against what it read, then writes the balance  *)
(* (an atomic increment) and the line (the absolute quantity computed from *)
(* the earlier read), inserts the receipt, reads the lines again to see    *)
(* whether all are complete, and sets the ASN's status.                    *)
(***************************************************************************)
(* Mutated forms: the serial check dropped, zero quantities let through,   *)
(* the quantity check off by one.                                          *)
SerialsUnchecked(p, sn) == TRUE
PositiveOrZero(q) == q >= 0
WithinExpectedPlusOne(row, q) == row.rcv + q <= row.exp + 1

Receivable(st) == st \notin {"ABSENT", "CANCELLED", "COMPLETED"}

NotReceived(p, sn) ==
    \A i \in DOMAIN receipts : receipts[i].prod = p => receipts[i].sn \cap sn = {}

SerialsUnused(p, sn) == NotReceived(p, sn) /\ outside[p] \cap sn = {}

Positive(q) == q > 0
WithinExpected(row, q) == row.rcv + q <= row.exp

ReceiveRead(r, a) ==
    /\ ~InFlight(r)
    /\ Receivable(status[a])
    /\ \E p \in Product, b \in Bin, q \in ReceiveQty, sn \in SUBSET Serial :
          /\ Positive(q)
          /\ items[a][p].gen # 0
          /\ SerialsUnused(p, sn)
          /\ WithinExpected(items[a][p], q)
          /\ req' = [req EXCEPT ![r] =
                        [at |-> "receive.read", asn |-> a, prod |-> p, bin |-> b,
                         qty |-> q, sn |-> sn, row |-> items[a][p],
                         allDone |-> FALSE]]
          /\ Starts(r, {a} \cup sn)
    /\ Len(receipts) < MaxReceipts
    /\ UNCHANGED <<status, items, lastGen, receipts, balance, outside>>

(* Mutated form: the quantity not added to what was there.                 *)
NewRcvOverwritten(r) == req[r].qty

NewRcv(r) == req[r].row.rcv + req[r].qty

(* Mutated form: completion judged on the lines read before the write.     *)
AllDoneBefore(r) ==
    \A p \in Product : items[req[r].asn][p].gen # 0 =>
        items[req[r].asn][p].rcv = items[req[r].asn][p].exp

(* The second read of the lines sees the transaction's own write and the   *)
(* committed rows of the others.                                           *)
AllDone(r) ==
    \A p \in Product : items[req[r].asn][p].gen # 0 =>
        (IF p = req[r].prod THEN NewRcv(r) ELSE items[req[r].asn][p].rcv)
            = items[req[r].asn][p].exp

(* The rows the transaction writes are free, and its line still exists     *)
(* (P2025 rolls back otherwise).                                           *)
ReceiveWrite(r) ==
    LET a == req[r].asn
        p == req[r].prod
    IN  /\ req[r].at = "receive.read"
        /\ ~Locked(a, p)
        /\ \A s \in Req : req[s].at = "receive.written"
                             => <<req[s].bin, req[s].prod>> # <<req[r].bin, p>>
        /\ items[a][p].gen = req[r].row.gen
        /\ req' = [req EXCEPT ![r].at = "receive.written",
                              ![r].allDone = AllDone(r)]
        /\ UNCHANGED <<status, items, lastGen, receipts, balance, outside, raced>>

(* Mutated form: the line's quantity written as the bin's.                 *)
BalanceFromLine(r) == [balance EXCEPT ![req[r].bin][req[r].prod] = NewRcv(r)]

BalanceAfter(r) ==
    [balance EXCEPT ![req[r].bin][req[r].prod] = @ + req[r].qty]

ReceiveCommit(r) ==
    LET a == req[r].asn
        p == req[r].prod
    IN  /\ req[r].at = "receive.written"
        /\ Len(receipts) < MaxReceipts
        /\ items' = [items EXCEPT ![a][p].rcv = NewRcv(r)]
        /\ balance' = BalanceAfter(r)
        /\ receipts' = Append(receipts,
              [asn |-> a, prod |-> p, gen |-> req[r].row.gen, bin |-> req[r].bin,
               qty |-> req[r].qty, sn |-> req[r].sn])
        /\ status' = [status EXCEPT ![a] =
                         IF req[r].allDone THEN "COMPLETED" ELSE "RECEIVING"]
        /\ Finish(r)
        /\ UNCHANGED <<lastGen, outside, raced>>

(* A request may end without effect at any point before its last write: a  *)
(* failed check, the transaction timeout, a lost connection, a crash.      *)
Abort(r) ==
    /\ InFlight(r)
    /\ Finish(r)
    /\ UNCHANGED <<status, items, lastGen, receipts, balance, outside, raced>>

(* Transformations and outbound tasks take serials into use, and a task    *)
(* that is reopened gives them up.                                         *)
UseOutside(p) ==
    /\ \E sn \in SUBSET Serial : outside' = [outside EXCEPT ![p] = sn]
    /\ UNCHANGED <<status, items, lastGen, receipts, balance, req, raced>>

Next ==
    \/ \E a \in Asn : CreateAsn(a)
    \/ \E p \in Product : UseOutside(p)
    \/ \E r \in Req, a \in Asn :
          \/ UpdateRead(r, a)
          \/ CancelRead(r, a)
          \/ ItemsCheck(r, a)
          \/ ReceiveRead(r, a)
    \/ \E r \in Req :
          \/ UpdateWrite(r)
          \/ CancelWrite(r)
          \/ ItemsDelete(r)
          \/ ItemsCommit(r)
          \/ ReceiveWrite(r)
          \/ ReceiveCommit(r)
          \/ Abort(r)

Spec == Init /\ [][Next]_vars
-----------------------------------------------------------------------------
(* What the receipts I brought, and the receipts into a bin and on a line. *)
Landed(I) == SumFunctionOnSet([i \in DOMAIN receipts |-> receipts[i].qty], I)

IntoBin(b, p) ==
    {i \in DOMAIN receipts : receipts[i].bin = b /\ receipts[i].prod = p}

OnLine(a, p) == {i \in DOMAIN receipts : /\ receipts[i].asn = a
                                        /\ receipts[i].prod = p
                                        /\ receipts[i].gen = items[a][p].gen}

Live(a, p) == items[a][p].gen # 0

(* Stock exists exactly where a receipt put it: whatever requests overlap, *)
(* abort or lose an update, qty_on_hand of a bin and product is the sum of *)
(* the receipts booked there (receiveItem's increment and insert commit    *)
(* together, and nothing else here touches the balance).                   *)
BalanceIsLanded ==
    \A b \in Bin, p \in Product :
        balance[b][p] = Landed(IntoBin(b, p))

(* The received quantity on a line's row never exceeds what it expects,    *)
(* under any interleaving: every write of it passed receiveItem's check    *)
(* against the same row.                                                   *)
RowWithinExpected ==
    \A a \in Asn, p \in Product :
        items[a][p].rcv = 0 \/ items[a][p].rcv <= items[a][p].exp

(* Where requests on one ASN do not overlap, its lines and its receipts    *)
(* agree, whatever runs on other ASNs that share its bins and products.    *)
RowIsLanded ==
    \A a \in Asn \ raced, p \in Product :
        Live(a, p) => items[a][p].rcv = Landed(OnLine(a, p))

(* Receipts never exceed the expectation (inbound.service.ts:373 rejects   *)
(* with 'Received quantity exceeds ASN expected quantity').                *)
WithinAsn(a) ==
    \A p \in Product :
        LET landed == Landed(OnLine(a, p))
        IN  Live(a, p) => landed = 0 \/ landed <= items[a][p].exp

NoOverReceipt == \A a \in Asn : WithinAsn(a)

(* An ASN whose lines are all received was closed by the receipt that      *)
(* completed them, and stays so: no later update or cancel reopens it.     *)
FullyReceived(a) ==
    /\ HasReceipts(a)
    /\ \A p \in Product : Live(a, p) => items[a][p].rcv = items[a][p].exp

FullyReceivedIsCompleted ==
    \A a \in Asn \ raced : FullyReceived(a) => status[a] = "COMPLETED"

(* Every receipt keeps the line it was booked against                      *)
(* (inbound.service.ts:166: 'ASN already has receiving records and cannot  *)
(* replace items'), unless requests on the ASN overlapped.                 *)
KeepsItsLine(x) == x.gen # 0 /\ items[x.asn][x.prod].gen = x.gen

NoOrphanUnlessRaced ==
    \A i \in DOMAIN receipts :
        receipts[i].asn \notin raced => KeepsItsLine(receipts[i])

(* A serial number is booked once per product, unless two requests that    *)
(* carry it overlapped (inbound.service.ts:524).                           *)
BookedOnce(s) ==
    \A i, j \in DOMAIN receipts :
        /\ receipts[i].prod = receipts[j].prod
        /\ s \in receipts[i].sn \cap receipts[j].sn
        => i = j

SerialsUniqueUnlessRaced == \A s \in Serial \ raced : BookedOnce(s)

(* A completed ASN stays completed (inbound.service.ts:123, 203: 'Completed *)
(* ASN cannot be reopened', 'Completed ASN cannot be cancelled'), unless   *)
(* requests on it overlapped.                                              *)
StaysCompleted(a) == status[a] = "COMPLETED" => status'[a] = "COMPLETED"

CompletedIsFinalUnlessRaced == [][\A a \in Asn \ raced' : StaysCompleted(a)]_vars

-----------------------------------------------------------------------------
(* Leaving aside the ASNs on which requests overlapped, the handlers       *)
(* implement the one-request-per-step lifecycle: every check they made     *)
(* still holds when they write, and a failed request has no effect.        *)
Lifecycle == INSTANCE AsnLifecycle WITH
    state <- [a \in Asn |-> IF a \in raced THEN "RACED" ELSE status[a]],
    named <- [a \in Asn |-> IF a \in raced THEN {}
                            ELSE {p \in Product : Live(a, p)}],
    left <- [a \in Asn |-> [p \in Product |->
                IF a \in raced THEN 0 ELSE items[a][p].exp - items[a][p].rcv]],
    booked <- [a \in Asn |-> a \notin raced /\ HasReceipts(a)]

ImplementsLifecycle == Lifecycle!Spec

-----------------------------------------------------------------------------
(***************************************************************************)
(* The inductive invariant: why a check made by a read is still good when  *)
(* the write that relies on it comes.                                      *)
(***************************************************************************)
(* Two requests in flight share an ASN or a serial only if it is raced.    *)
AloneUnlessRaced ==
    \A r, s \in Req : r # s => Uses(r) \cap Uses(s) \subseteq raced

(* Generations identify rows: none is newer than the last one inserted,    *)
(* and a stale row with the current one's identity expects the same.       *)
GenIdentifiesRow ==
    /\ \A a \in Asn, p \in Product : items[a][p].gen <= lastGen[a]
    /\ \A r \in Req : Receives(r) =>
          LET now == items[req[r].asn][req[r].prod]
          IN  /\ req[r].row.gen # 0
              /\ req[r].row.gen <= lastGen[req[r].asn]
              /\ now.gen = req[r].row.gen => now.exp = req[r].row.exp
              /\ WithinExpected(req[r].row, req[r].qty)
              /\ req[r].at = "receive.written" => now.gen = req[r].row.gen

(* An ASN that does not exist has no receipts and no requests.             *)
AbsentIsUntouched ==
    /\ \A a \in Asn : status[a] = "ABSENT" => ~HasReceipts(a)
    /\ \A r \in Req : InFlight(r) => status[req[r].asn] # "ABSENT"

(* What a request on an ASN without races has checked still holds.         *)
CheckHolds(r) ==
    LET a == req[r].asn
    IN  /\ Receives(r) => /\ Receivable(status[a])
                          /\ items[a][req[r].prod] = req[r].row
        /\ req[r].at = "receive.written" => req[r].allDone = AllDone(r)
        /\ req[r].at = "update.read" => MayBecome(status[a], req[r].status)
        /\ req[r].at = "cancel.read" => status[a] # "COMPLETED"
        /\ req[r].at \in {"items.checked", "items.deleting"} =>
              status[a] = "DRAFT" /\ ~HasReceipts(a)
        /\ req[r].at = "items.deleting" =>
              \A p \in Product : req[r].seen[p] = items[a][p].gen

ChecksHoldUnlessRaced ==
    \A r \in Req : InFlight(r) /\ req[r].asn \notin raced => CheckHolds(r)

(* The serials a receive checked are still not received, unless raced.     *)
SerialsHoldUnlessRaced ==
    \A r \in Req : Receives(r) => NotReceived(req[r].prod, req[r].sn \ raced)
=============================================================================
