-------------------------- MODULE ReceivingProofs --------------------------
(* Theorems about Receiving, for every value of its constants.             *)
EXTENDS Receiving, Sums, TLAPS

(* What a lines DTO becomes: well-typed rows.                              *)
LEMMA NewRowsType ==
    ASSUME NEW lines \in Lines, NEW g \in Nat
    PROVE  NewRows(lines, g) \in [Product -> ItemRow]
<1> SUFFICES ASSUME NEW p \in Product
             PROVE  NewRows(lines, g)[p] \in ItemRow
    BY DEF NewRows
<1>1. PICK S \in SUBSET Product : lines \in [S -> ExpectedQty]
    BY DEF Lines
<1>2. CASE p \in DOMAIN lines
    BY <1>1, <1>2, ReceivingAssumption DEF NewRows, ItemRow
<1>3. CASE p \notin DOMAIN lines
    BY <1>3 DEF NewRows, ItemRow, NoRow
<1> QED BY <1>2, <1>3

LEMMA FunctionIsSeq ==
    ASSUME NEW S, NEW n \in Nat, NEW f, f = [i \in 1..n |-> f[i]],
           \A i \in 1..n : f[i] \in S
    PROVE  f \in Seq(S)
OBVIOUS

(* The step a request is at says which record it is.                       *)
LEMMA ReqShape ==
    ASSUME TypeOK, NEW r \in Req
    PROVE  /\ req[r].at \in {"receive.read", "receive.written"} => req[r] \in ReceiveReq
           /\ req[r].at = "update.read" => req[r] \in UpdateReq
           /\ req[r].at \in {"items.checked", "items.deleting"} => req[r] \in ItemsReq
           /\ req[r].at = "cancel.read" => req[r] \in CancelReq
           /\ req[r].at = "idle" => req[r] = Idle
           /\ req[r].at # "idle" => req[r].asn \in Asn
<1>1. req[r] = Idle \/ req[r] \in ReceiveReq \/ req[r] \in UpdateReq
        \/ req[r] \in ItemsReq \/ req[r] \in CancelReq
    BY DEF TypeOK
<1>2. CASE req[r] = Idle
    BY <1>2 DEF Idle
<1>3. CASE req[r] \in ReceiveReq
    BY <1>3 DEF ReceiveReq
<1>4. CASE req[r] \in UpdateReq
    BY <1>4 DEF UpdateReq
<1>5. CASE req[r] \in ItemsReq
    BY <1>5 DEF ItemsReq
<1>6. CASE req[r] \in CancelReq
    BY <1>6 DEF CancelReq
<1> QED BY <1>1, <1>2, <1>3, <1>4, <1>5, <1>6

(* The fields of each record, where a proof needs no more than their types. *)
LEMMA ReqFields ==
    ASSUME TypeOK, NEW r \in Req
    PROVE  /\ req[r].at \in {"receive.read", "receive.written"} =>
                 /\ req[r].asn \in Asn /\ req[r].prod \in Product
                 /\ req[r].bin \in Bin /\ req[r].qty \in Nat \ {0}
                 /\ req[r].sn \in SUBSET Serial /\ req[r].row \in ItemRow
                 /\ req[r].allDone \in BOOLEAN
           /\ req[r].at = "update.read" => req[r].status \in AsnStatus
           /\ req[r].at \in {"items.checked", "items.deleting"} =>
                 /\ req[r].lines \in Lines
                 /\ req[r].seen \in [Product -> Nat]
<1>1. req[r].at \in {"receive.read", "receive.written"} => req[r] \in ReceiveReq
    BY ReqShape
<1>2. req[r].at = "update.read" => req[r] \in UpdateReq
    BY ReqShape
<1>3. req[r].at \in {"items.checked", "items.deleting"} => req[r] \in ItemsReq
    BY ReqShape
<1> QED BY <1>1, <1>2, <1>3 DEF ReceiveReq, UpdateReq, ItemsReq

(* Type correctness of every variable, whatever requests overlap.          *)
THEOREM TypeCorrect == Spec => []TypeOK
<1>1. Init => TypeOK
    BY DEF Init, TypeOK, ItemRow, NoRow, Idle
<1>2. TypeOK /\ [Next]_vars => TypeOK'
    <2> SUFFICES ASSUME TypeOK, [Next]_vars
                 PROVE  TypeOK'
        OBVIOUS
    <2> USE DEF TypeOK
    <2>1. ASSUME NEW a \in Asn, CreateAsn(a)
          PROVE  TypeOK'
        BY <2>1, NewRowsType DEF CreateAsn, AsnStatus
    <2>2. ASSUME NEW r \in Req, NEW a \in Asn, UpdateRead(r, a)
          PROVE  TypeOK'
        BY <2>2 DEF UpdateRead, UpdateReq, Starts, Uses
    <2>3. ASSUME NEW r \in Req, NEW a \in Asn, CancelRead(r, a)
          PROVE  TypeOK'
        BY <2>3 DEF CancelRead, CancelReq, Starts, Uses
    <2>4. ASSUME NEW r \in Req, NEW a \in Asn, ItemsCheck(r, a)
          PROVE  TypeOK'
        BY <2>4 DEF ItemsCheck, ItemsReq, Starts, Uses
    <2>5. ASSUME NEW r \in Req, NEW a \in Asn, ReceiveRead(r, a)
          PROVE  TypeOK'
        BY <2>5, ReceivingAssumption DEF ReceiveRead, ReceiveReq, Starts, Uses, Positive
    <2>6. ASSUME NEW r \in Req, UpdateWrite(r)
          PROVE  TypeOK'
        <3>1. req[r].asn \in Asn /\ req[r].status \in AsnStatus
            BY <2>6, ReqShape, ReqFields DEF UpdateWrite
        <3> QED BY <2>6, <3>1 DEF UpdateWrite, Finish
    <2>7. ASSUME NEW r \in Req, CancelWrite(r)
          PROVE  TypeOK'
        <3>1. req[r].asn \in Asn
            BY <2>7, ReqShape DEF CancelWrite
        <3> QED BY <2>7, <3>1 DEF CancelWrite, Finish, AsnStatus
    <2>8. ASSUME NEW r \in Req, ItemsDelete(r)
          PROVE  TypeOK'
        <3>1. req[r] \in ItemsReq
            BY <2>8, ReqShape DEF ItemsDelete
        <3>2. [p \in Product |-> items[req[r].asn][p].gen] \in [Product -> Nat]
            BY <3>1 DEF ItemsReq, ItemRow
        <3>3. [req[r] EXCEPT !.at = "items.deleting",
                             !.seen = [p \in Product |-> items[req[r].asn][p].gen]]
                \in ItemsReq
            BY <3>1, <3>2 DEF ItemsReq
        <3> QED BY <2>8, <3>3 DEF ItemsDelete
    <2>9. ASSUME NEW r \in Req, ItemsCommit(r)
          PROVE  TypeOK'
        <3> DEFINE a == req[r].asn
        <3>1. a \in Asn /\ req[r].lines \in Lines /\ req[r].seen \in [Product -> Nat]
            BY <2>9, ReqShape, ReqFields DEF ItemsCommit
        <3>2. NewRows(req[r].lines, lastGen[a] + 1) \in [Product -> ItemRow]
            BY <3>1, NewRowsType
        <3>3. items' \in [Asn -> [Product -> ItemRow]]
            BY <2>9, <3>1, <3>2 DEF ItemsCommit
        <3>4. lastGen' \in [Asn -> Nat]
            BY <2>9, <3>1 DEF ItemsCommit
        <3>5. receipts' \in Seq(Receipt)
            <4>1. \A x \in Receipt : [x EXCEPT !.gen = 0] \in Receipt
                BY DEF Receipt
            <4>2. \A i \in 1..Len(receipts) : receipts[i] \in Receipt
                OBVIOUS
            <4>3. /\ DOMAIN receipts' = 1..Len(receipts)
                  /\ \A i \in 1..Len(receipts) : receipts'[i] \in Receipt
                BY <2>9, <4>1, <4>2 DEF ItemsCommit
            <4>4. receipts' = [i \in 1..Len(receipts) |-> receipts'[i]]
                BY <2>9, <4>3 DEF ItemsCommit
            <4>5. Len(receipts) \in Nat
                OBVIOUS
            <4> QED BY <4>3, <4>4, <4>5, FunctionIsSeq
        <3> QED BY <2>9, <3>3, <3>4, <3>5 DEF ItemsCommit, Finish
    <2>10. ASSUME NEW r \in Req, ReceiveWrite(r)
           PROVE  TypeOK'
        <3>1. req[r] \in ReceiveReq
            BY <2>10, ReqShape DEF ReceiveWrite
        <3>2. AllDone(r) \in BOOLEAN
            BY DEF AllDone
        <3>3. [req[r] EXCEPT !.at = "receive.written", !.allDone = AllDone(r)]
                \in ReceiveReq
            BY <3>1, <3>2 DEF ReceiveReq
        <3> QED BY <2>10, <3>3 DEF ReceiveWrite
    <2>11. ASSUME NEW r \in Req, ReceiveCommit(r)
           PROVE  TypeOK'
        <3>1. /\ req[r].asn \in Asn /\ req[r].prod \in Product
              /\ req[r].bin \in Bin /\ req[r].qty \in Nat \ {0}
              /\ req[r].sn \in SUBSET Serial /\ req[r].row \in ItemRow
            BY <2>11, ReqFields DEF ReceiveCommit
        <3>2. NewRcv(r) \in Nat
            BY <3>1 DEF NewRcv, ItemRow
        <3>3. items' \in [Asn -> [Product -> ItemRow]]
            <4>1. \A x \in ItemRow, n \in Nat : [x EXCEPT !.rcv = n] \in ItemRow
                BY DEF ItemRow
            <4>2. items[req[r].asn][req[r].prod] \in ItemRow
                BY <3>1
            <4>3. [items[req[r].asn][req[r].prod] EXCEPT !.rcv = NewRcv(r)] \in ItemRow
                BY <3>2, <4>1, <4>2
            <4> QED BY <2>11, <3>1, <4>3 DEF ReceiveCommit
        <3>4. balance' \in [Bin -> [Product -> Nat]]
            BY <2>11, <3>1 DEF ReceiveCommit, BalanceAfter
        <3>5. receipts' \in Seq(Receipt)
            BY <2>11, <3>1 DEF ReceiveCommit, Receipt, ItemRow
        <3>6. status' \in [Asn -> AsnStatus \cup {"ABSENT"}]
            BY <2>11, <3>1 DEF ReceiveCommit, AsnStatus
        <3> QED BY <2>11, <3>3, <3>4, <3>5, <3>6 DEF ReceiveCommit, Finish
    <2>12. ASSUME NEW r \in Req, Abort(r)
           PROVE  TypeOK'
        BY <2>12 DEF Abort, Finish
    <2>13. CASE UNCHANGED vars
        BY <2>13 DEF vars
    <2>14. ASSUME NEW p \in Product, UseOutside(p)
           PROVE  TypeOK'
        BY <2>14 DEF UseOutside
    <2> QED
        BY <2>1, <2>2, <2>3, <2>4, <2>5, <2>6, <2>7, <2>8, <2>9, <2>10, <2>11, <2>12,
           <2>13, <2>14 DEF Next
<1> QED
    BY <1>1, <1>2, PTL DEF Spec

-----------------------------------------------------------------------------
(***************************************************************************)
(* The inductive invariant.  Three kinds of steps change req: a request    *)
(* starts by reading, goes on, or ends.                                    *)
(***************************************************************************)
Reads(r, a) == \/ UpdateRead(r, a)
               \/ CancelRead(r, a)
               \/ ItemsCheck(r, a)
               \/ ReceiveRead(r, a)

Continues(r) == ItemsDelete(r) \/ ReceiveWrite(r)

Ends(r) == \/ UpdateWrite(r)
           \/ CancelWrite(r)
           \/ ItemsCommit(r)
           \/ ReceiveCommit(r)
           \/ Abort(r)

(* The variables of the module's own handlers: all but the serials used    *)
(* outside.                                                                *)
handled == <<status, items, lastGen, receipts, balance, req, raced>>

LEMMA NextCases ==
    ASSUME [Next]_vars
    PROVE  \/ \E a \in Asn : CreateAsn(a)
           \/ \E r \in Req, a \in Asn : Reads(r, a)
           \/ \E r \in Req : Continues(r)
           \/ \E r \in Req : Ends(r)
           \/ UNCHANGED handled
BY DEF Next, Reads, Continues, Ends, UseOutside, handled, vars

LEMMA ReadFacts ==
    ASSUME TypeOK, NEW r \in Req, NEW a \in Asn, Reads(r, a)
    PROVE  /\ ~InFlight(r) /\ InFlight(r)'
           /\ req'[r].asn = a
           /\ \A s \in Req \ {r} : req'[s] = req[s]
           /\ Starts(r, Uses(r)')
           /\ UNCHANGED <<status, items, lastGen, receipts, balance>>
           /\ status[a] # "ABSENT"
<1> USE DEF TypeOK, InFlight, Receives, Uses
<1>1. CASE UpdateRead(r, a)
    BY <1>1 DEF UpdateRead, MayBecome
<1>2. CASE CancelRead(r, a)
    BY <1>2 DEF CancelRead
<1>3. CASE ItemsCheck(r, a)
    BY <1>3 DEF ItemsCheck
<1>4. CASE ReceiveRead(r, a)
    BY <1>4 DEF ReceiveRead, Receivable
<1> QED BY <1>1, <1>2, <1>3, <1>4 DEF Reads

LEMMA ContinueFacts ==
    ASSUME TypeOK, NEW r \in Req, Continues(r)
    PROVE  /\ InFlight(r) /\ InFlight(r)'
           /\ Receives(r)' = Receives(r)
           /\ req'[r].asn = req[r].asn
           /\ Uses(r)' = Uses(r)
           /\ \A s \in Req \ {r} : req'[s] = req[s]
           /\ UNCHANGED <<status, items, lastGen, receipts, balance, raced>>
<1> USE DEF TypeOK, InFlight, Receives, Uses
<1>1. CASE ItemsDelete(r)
    BY <1>1, ReqShape DEF ItemsDelete, ItemsReq
<1>2. CASE ReceiveWrite(r)
    BY <1>2, ReqShape DEF ReceiveWrite, ReceiveReq
<1> QED BY <1>1, <1>2 DEF Continues

LEMMA EndFacts ==
    ASSUME TypeOK, NEW r \in Req, Ends(r)
    PROVE  /\ InFlight(r) /\ ~InFlight(r)'
           /\ \A s \in Req \ {r} : req'[s] = req[s]
           /\ UNCHANGED raced
           /\ req[r].asn \in Asn
<1>1. InFlight(r) /\ Finish(r) /\ UNCHANGED raced
    BY DEF Ends, UpdateWrite, CancelWrite, ItemsCommit, ReceiveCommit, Abort, InFlight
<1>2. req[r].asn \in Asn
    BY <1>1, ReqShape DEF InFlight
<1> QED BY <1>1, <1>2 DEF Finish, TypeOK, InFlight, Idle

(* Whatever a step does, it unraces nothing.                               *)
LEMMA RacedGrows ==
    ASSUME TypeOK, [Next]_vars
    PROVE  raced \subseteq raced'
BY NextCases, ReadFacts, ContinueFacts, EndFacts DEF CreateAsn, Starts, handled

LEMMA AloneStep ==
    ASSUME TypeOK, AloneUnlessRaced, [Next]_vars
    PROVE  AloneUnlessRaced'
<1> USE DEF AloneUnlessRaced
<1>1. ASSUME NEW a \in Asn, CreateAsn(a)
      PROVE  AloneUnlessRaced'
    BY <1>1 DEF CreateAsn, Uses, InFlight, Receives
<1>2. ASSUME NEW r \in Req, NEW a \in Asn, Reads(r, a)
      PROVE  AloneUnlessRaced'
    <2>1. \A s \in Req \ {r} : Uses(s)' = Uses(s)
        BY <1>2, ReadFacts DEF Uses, InFlight, Receives
    <2>2. raced' = raced \cup {x \in Uses(r)' : \E s \in Req \ {r} : x \in Uses(s)}
        BY <1>2, ReadFacts DEF Starts
    <2> QED BY <2>1, <2>2
<1>3. ASSUME NEW r \in Req, Continues(r)
      PROVE  AloneUnlessRaced'
    <2>1. \A s \in Req : Uses(s)' = Uses(s)
        BY <1>3, ContinueFacts DEF Uses, InFlight, Receives
    <2> QED BY <1>3, <2>1, ContinueFacts
<1>4. ASSUME NEW r \in Req, Ends(r)
      PROVE  AloneUnlessRaced'
    <2>1. \A s \in Req : Uses(s)' \subseteq Uses(s)
        BY <1>4, EndFacts DEF Uses, InFlight, Receives
    <2> QED BY <1>4, <2>1, EndFacts
<1>5. CASE UNCHANGED handled
    BY <1>5 DEF handled, Uses, InFlight, Receives
<1> QED BY <1>1, <1>2, <1>3, <1>4, <1>5, NextCases

(* What GenIdentifiesRow says of one request, and when it is kept.         *)
RowIdentified(r) ==
    LET now == items[req[r].asn][req[r].prod]
    IN  /\ req[r].row.gen # 0
        /\ req[r].row.gen <= lastGen[req[r].asn]
        /\ now.gen = req[r].row.gen => now.exp = req[r].row.exp
        /\ WithinExpected(req[r].row, req[r].qty)
        /\ req[r].at = "receive.written" => now.gen = req[r].row.gen

LEMMA RowIdentifiedSame ==
    ASSUME NEW r \in Req, RowIdentified(r), req'[r] = req[r],
           items'[req[r].asn][req[r].prod].gen = items[req[r].asn][req[r].prod].gen,
           items'[req[r].asn][req[r].prod].exp = items[req[r].asn][req[r].prod].exp,
           lastGen'[req[r].asn] = lastGen[req[r].asn]
    PROVE  RowIdentified(r)'
BY DEF RowIdentified

LEMMA RowIdentifiedReplaced ==
    ASSUME NEW r \in Req, RowIdentified(r), req'[r] = req[r],
           \/ items'[req[r].asn][req[r].prod] = items[req[r].asn][req[r].prod]
           \/ /\ items'[req[r].asn][req[r].prod].gen # req[r].row.gen
              /\ req[r].at # "receive.written",
           req[r].row.gen \in Nat, lastGen[req[r].asn] \in Nat,
           lastGen'[req[r].asn] = lastGen[req[r].asn] + 1
    PROVE  RowIdentified(r)'
BY DEF RowIdentified

LEMMA GenByParts ==
    GenIdentifiesRow <=>
        /\ \A a \in Asn, p \in Product : items[a][p].gen <= lastGen[a]
        /\ \A r \in Req : Receives(r) => RowIdentified(r)
BY DEF GenIdentifiesRow, RowIdentified

LEMMA GenStep ==
    ASSUME TypeOK, GenIdentifiesRow, AbsentIsUntouched, [Next]_vars
    PROVE  GenIdentifiesRow'
<1>a. /\ \A a \in Asn, p \in Product : items[a][p].gen <= lastGen[a]
      /\ \A r \in Req : Receives(r) => RowIdentified(r)
    BY GenByParts
<1>b. \A r \in Req : Receives(r) => /\ req[r].asn \in Asn /\ req[r].prod \in Product
                                   /\ req[r].row.gen \in Nat
    BY ReqFields DEF Receives, ItemRow
<1>c. SUFFICES /\ \A a \in Asn, p \in Product : items'[a][p].gen <= lastGen'[a]
               /\ \A r \in Req : Receives(r)' => RowIdentified(r)'
    BY GenByParts DEF GenIdentifiesRow, RowIdentified
<1> DEFINE Bounded == \A a \in Asn, p \in Product : items'[a][p].gen <= lastGen'[a]
           Identified == \A r \in Req : Receives(r)' => RowIdentified(r)'
<1>1. ASSUME NEW a \in Asn, CreateAsn(a)
      PROVE  Bounded /\ Identified
    <2>1. PICK lines \in Lines : items' = [items EXCEPT ![a] = NewRows(lines, 1)]
        BY <1>1 DEF CreateAsn
    <2>2. \A p \in Product : items'[a][p].gen \in {0, 1}
        BY <2>1 DEF NewRows, NoRow, TypeOK
    <2>3. \A b \in Asn \ {a} : items'[b] = items[b] /\ lastGen'[b] = lastGen[b]
        BY <1>1 DEF CreateAsn, TypeOK
    <2>4. lastGen'[a] = 1 /\ UNCHANGED req
        BY <1>1 DEF CreateAsn, TypeOK
    <2>5. Bounded
        BY <1>a, <2>2, <2>3, <2>4
    <2>6. ASSUME NEW r \in Req, Receives(r)'
          PROVE  RowIdentified(r)'
        <3>1. Receives(r)
            BY <2>4, <2>6 DEF Receives
        <3>2. req[r].asn # a
            BY <1>1, <3>1 DEF CreateAsn, AbsentIsUntouched, InFlight, Receives
        <3> QED BY <1>a, <1>b, <2>3, <2>4, <3>1, <3>2, RowIdentifiedSame
    <2> QED BY <2>5, <2>6
<1>2. ASSUME NEW r \in Req, NEW a \in Asn, Reads(r, a)
      PROVE  Bounded /\ Identified
    <2>1. Bounded
        BY <1>2, <1>a, ReadFacts
    <2>2. ASSUME NEW s \in Req \ {r}, Receives(s)'
          PROVE  RowIdentified(s)'
        <3>1. req'[s] = req[s] /\ UNCHANGED <<items, lastGen>>
            BY <1>2, ReadFacts
        <3>2. Receives(s)
            BY <2>2, <3>1 DEF Receives
        <3> QED BY <1>a, <3>1, <3>2, RowIdentifiedSame
    <2>3. ASSUME Receives(r)'
          PROVE  RowIdentified(r)'
        <3>1. ReceiveRead(r, a)
            BY <1>2, <2>3 DEF Reads, UpdateRead, CancelRead, ItemsCheck, Receives, TypeOK
        <3> QED BY <1>a, <3>1 DEF ReceiveRead, RowIdentified, TypeOK, ItemRow
    <2> QED BY <2>1, <2>2, <2>3
<1>3. ASSUME NEW r \in Req, Continues(r)
      PROVE  Bounded /\ Identified
    <2>1. Bounded
        BY <1>3, <1>a, ContinueFacts
    <2>2. ASSUME NEW s \in Req \ {r}, Receives(s)'
          PROVE  RowIdentified(s)'
        <3>1. req'[s] = req[s] /\ UNCHANGED <<items, lastGen>>
            BY <1>3, ContinueFacts
        <3>2. Receives(s)
            BY <2>2, <3>1 DEF Receives
        <3> QED BY <1>a, <3>1, <3>2, RowIdentifiedSame
    <2>3. ASSUME Receives(r)'
          PROVE  RowIdentified(r)'
        <3>1. ReceiveWrite(r)
            <4>1. Receives(r)
                BY <1>3, <2>3, ContinueFacts
            <4> QED BY <1>3, <4>1 DEF Continues, ItemsDelete, Receives
        <3>2. Receives(r) /\ RowIdentified(r) /\ req[r] \in ReceiveReq
            BY <1>a, <3>1, ReqShape DEF ReceiveWrite, Receives
        <3> QED BY <3>1, <3>2 DEF ReceiveWrite, RowIdentified, TypeOK, ReceiveReq
    <2> QED BY <2>1, <2>2, <2>3
<1>4. ASSUME NEW r \in Req, Ends(r)
      PROVE  Bounded /\ Identified
    <2>1. \A s \in Req : Receives(s)' => s # r /\ Receives(s) /\ req'[s] = req[s]
        BY <1>4, EndFacts DEF Receives, InFlight
    <2>2. CASE UNCHANGED <<items, lastGen>>
        BY <1>a, <2>1, <2>2, RowIdentifiedSame
    <2>3. CASE ReceiveCommit(r)
        <3> DEFINE a == req[r].asn
                   p == req[r].prod
        <3>1. a \in Asn /\ p \in Product
            BY <2>3, ReqFields DEF ReceiveCommit
        <3>2. \A b \in Asn, x \in Product : /\ items'[b][x].gen = items[b][x].gen
                                           /\ items'[b][x].exp = items[b][x].exp
            <4>1. items' = [items EXCEPT ![a][p].rcv = NewRcv(r)]
                BY <2>3 DEF ReceiveCommit
            <4>2. items[a][p] \in ItemRow
                BY <3>1 DEF TypeOK
            <4> QED BY <3>1, <4>1, <4>2 DEF TypeOK, ItemRow
        <3>3. UNCHANGED lastGen
            BY <2>3 DEF ReceiveCommit
        <3>4. Bounded
            BY <1>a, <3>2, <3>3
        <3>5. ASSUME NEW s \in Req, Receives(s)'
              PROVE  RowIdentified(s)'
            <4>1. Receives(s) /\ req'[s] = req[s] /\ RowIdentified(s)
                BY <1>a, <2>1, <3>5
            <4> QED BY <1>b, <3>2, <3>3, <4>1, RowIdentifiedSame
        <3> QED BY <3>4, <3>5
    <2>4. CASE ItemsCommit(r)
        <3> DEFINE a == req[r].asn
        <3>1. a \in Asn /\ req[r].lines \in Lines
            BY <2>4, ReqFields, ReqShape DEF ItemsCommit
        <3>2. /\ lastGen'[a] = lastGen[a] + 1 /\ lastGen[a] \in Nat
              /\ \A b \in Asn \ {a} : items'[b] = items[b] /\ lastGen'[b] = lastGen[b]
            BY <2>4, <3>1 DEF ItemsCommit, TypeOK
        <3>3. \A x \in Product :
                 \/ items'[a][x] = items[a][x]
                 \/ items'[a][x].gen = 0
                 \/ items'[a][x].gen = lastGen[a] + 1
            BY <2>4, <3>1 DEF ItemsCommit, TypeOK, NewRows, NoRow
        <3>4. \A b \in Asn, x \in Product : items[b][x].gen \in Nat /\ lastGen[b] \in Nat
            BY DEF TypeOK, ItemRow
        <3>5. Bounded
            BY <1>a, <3>2, <3>3, <3>4
        <3>6. ASSUME NEW s \in Req, Receives(s)'
              PROVE  RowIdentified(s)'
            <4> DEFINE p == req[s].prod
            <4>1. s # r /\ Receives(s) /\ req'[s] = req[s] /\ RowIdentified(s)
                BY <1>a, <2>1, <3>6
            <4>2. CASE req[s].asn # a
                BY <1>b, <3>2, <4>1, <4>2, RowIdentifiedSame
            <4>3. CASE req[s].asn = a /\ req[s].at = "receive.written"
                <5>1. Locked(a, p) /\ p \in Product
                    BY <1>b, <4>1, <4>3 DEF Locked
                <5>2. items[a][p].gen # 0
                    BY <4>1, <4>3 DEF RowIdentified
                <5>3. items'[a][p] = items[a][p]
                    BY <2>4, <3>1, <5>1, <5>2 DEF ItemsCommit, TypeOK
                <5> QED BY <1>b, <3>2, <4>1, <4>3, <5>3, RowIdentifiedReplaced
            <4>4. CASE req[s].asn = a /\ req[s].at # "receive.written"
                <5>1. req[s].row.gen # 0 /\ req[s].row.gen <= lastGen[a]
                    BY <4>1, <4>4 DEF RowIdentified
                <5>2. \/ items'[a][p] = items[a][p]
                      \/ items'[a][p].gen # req[s].row.gen
                    BY <1>b, <3>2, <3>3, <4>1, <5>1
                <5> QED BY <1>b, <3>2, <4>1, <4>4, <5>2, RowIdentifiedReplaced
            <4> QED BY <4>2, <4>3, <4>4
        <3> QED BY <3>5, <3>6
    <2> QED BY <1>4, <2>2, <2>3, <2>4 DEF Ends, UpdateWrite, CancelWrite, Abort
<1>5. CASE UNCHANGED handled
    <2>1. \A r \in Req : Receives(r)' => Receives(r)
        BY <1>5 DEF handled, Receives
    <2> QED BY <1>5, <1>a, <2>1, RowIdentifiedSame DEF handled
<1> QED BY <1>1, <1>2, <1>3, <1>4, <1>5, NextCases

(* A step books receipts only on the ASN its request received on.          *)
LEMMA ReceiptsOfOthers ==
    ASSUME TypeOK, [Next]_vars, NEW a \in Asn, HasReceipts(a)'
    PROVE  HasReceipts(a) \/ \E r \in Req : ReceiveCommit(r) /\ req[r].asn = a
<1>1. CASE UNCHANGED receipts
    BY <1>1 DEF HasReceipts
<1>2. ASSUME NEW r \in Req, ReceiveCommit(r)
      PROVE  HasReceipts(a) \/ \E s \in Req : ReceiveCommit(s) /\ req[s].asn = a
    <2>1. PICK i \in DOMAIN receipts' : receipts'[i].asn = a
        BY DEF HasReceipts
    <2>2. PICK x : receipts' = Append(receipts, x) /\ x.asn = req[r].asn
        BY <1>2 DEF ReceiveCommit
    <2>3. \/ i \in DOMAIN receipts /\ receipts'[i] = receipts[i]
          \/ receipts'[i] = x
        BY <2>2 DEF TypeOK
    <2> QED BY <1>2, <2>1, <2>2, <2>3 DEF HasReceipts
<1>3. ASSUME NEW r \in Req, ItemsCommit(r)
      PROVE  HasReceipts(a)
    <2>1. PICK i \in DOMAIN receipts' : receipts'[i].asn = a
        BY DEF HasReceipts
    <2>2. /\ DOMAIN receipts' = DOMAIN receipts
          /\ \/ receipts'[i] = receipts[i]
             \/ receipts'[i] = [receipts[i] EXCEPT !.gen = 0]
        BY <1>3, <2>1 DEF ItemsCommit
    <2>3. receipts[i] \in Receipt
        BY <2>1, <2>2 DEF TypeOK
    <2> QED BY <2>1, <2>2, <2>3 DEF HasReceipts, Receipt
<1> QED
    BY <1>1, <1>2, <1>3 DEF Next, vars, CreateAsn, UpdateRead, CancelRead, ItemsCheck,
       ReceiveRead, UpdateWrite, CancelWrite, ItemsDelete, ReceiveWrite, Abort, UseOutside

LEMMA AbsentStep ==
    ASSUME TypeOK, AbsentIsUntouched, [Next]_vars
    PROVE  AbsentIsUntouched'
<1>1. \A a \in Asn : status[a] # "ABSENT" => status'[a] # "ABSENT"
    <2>1. ASSUME NEW r \in Req, Ends(r)
          PROVE  \A a \in Asn : status[a] # "ABSENT" => status'[a] # "ABSENT"
        BY <2>1, ReqFields DEF Ends, UpdateWrite, CancelWrite, ItemsCommit, ReceiveCommit,
           Abort, TypeOK, AsnStatus
    <2> QED BY <2>1, NextCases, ReadFacts, ContinueFacts DEF CreateAsn, handled, TypeOK
<1>2. ASSUME NEW a \in Asn, status'[a] = "ABSENT"
      PROVE  ~HasReceipts(a)'
    <2>1. status[a] = "ABSENT"
        BY <1>1, <1>2
    <2>2. \A r \in Req : InFlight(r) => req[r].asn # a
        BY <2>1 DEF AbsentIsUntouched
    <2> QED BY <2>1, <2>2, ReceiptsOfOthers DEF AbsentIsUntouched, ReceiveCommit, InFlight
<1>3. ASSUME NEW r \in Req, InFlight(r)'
      PROVE  status'[req'[r].asn] # "ABSENT"
    <2>1. CASE InFlight(r) /\ req'[r].asn = req[r].asn
        BY <1>1, <2>1, ReqShape DEF AbsentIsUntouched, InFlight
    <2>2. ASSUME NEW a \in Asn, Reads(r, a)
          PROVE  status'[req'[r].asn] # "ABSENT"
        BY <2>2, ReadFacts
    <2>3. \/ InFlight(r) /\ req'[r].asn = req[r].asn
          \/ \E a \in Asn : Reads(r, a)
        <3>1. ASSUME NEW s \in Req, NEW a \in Asn, Reads(s, a), s # r
              PROVE  InFlight(r) /\ req'[r].asn = req[r].asn
            BY <1>3, <3>1, ReadFacts DEF InFlight
        <3>2. ASSUME NEW s \in Req, Continues(s)
              PROVE  InFlight(r) /\ req'[r].asn = req[r].asn
            BY <1>3, <3>2, ContinueFacts DEF InFlight
        <3>3. ASSUME NEW s \in Req, Ends(s)
              PROVE  InFlight(r) /\ req'[r].asn = req[r].asn
            BY <1>3, <3>3, EndFacts DEF InFlight
        <3>4. CASE UNCHANGED req
            BY <1>3, <3>4 DEF InFlight
        <3> QED BY <3>1, <3>2, <3>3, <3>4, NextCases DEF CreateAsn, handled
    <2> QED BY <2>1, <2>2, <2>3
<1> QED BY <1>2, <1>3 DEF AbsentIsUntouched

LEMMA RowStep ==
    ASSUME TypeOK, GenIdentifiesRow, RowWithinExpected, [Next]_vars
    PROVE  RowWithinExpected'
<1>1. ASSUME NEW a \in Asn, CreateAsn(a)
      PROVE  RowWithinExpected'
    BY <1>1 DEF CreateAsn, RowWithinExpected, TypeOK, NewRows, NoRow
<1>2. ASSUME NEW r \in Req, ItemsCommit(r)
      PROVE  RowWithinExpected'
    <2>1. req[r].asn \in Asn
        BY <1>2, ReqShape DEF ItemsCommit
    <2>2. \A p \in Product : \/ items'[req[r].asn][p] = items[req[r].asn][p]
                            \/ items'[req[r].asn][p].rcv = 0
        BY <1>2, <2>1 DEF ItemsCommit, TypeOK, NewRows, NoRow
    <2>3. \A b \in Asn \ {req[r].asn} : items'[b] = items[b]
        BY <1>2, <2>1 DEF ItemsCommit, TypeOK
    <2> QED BY <2>1, <2>2, <2>3 DEF RowWithinExpected
<1>3. ASSUME NEW r \in Req, ReceiveCommit(r)
      PROVE  RowWithinExpected'
    <2> DEFINE a == req[r].asn
               p == req[r].prod
    <2>1. a \in Asn /\ p \in Product
        BY <1>3, ReqFields DEF ReceiveCommit
    <2>2. items[a][p].exp = req[r].row.exp /\ NewRcv(r) <= req[r].row.exp
        BY <1>3, <2>1 DEF ReceiveCommit, GenIdentifiesRow, Receives, WithinExpected, NewRcv
    <2>3. items' = [items EXCEPT ![a][p].rcv = NewRcv(r)]
        BY <1>3 DEF ReceiveCommit
    <2>4. items[a][p] \in ItemRow
        BY <2>1 DEF TypeOK
    <2>5. items'[a][p].rcv = NewRcv(r) /\ items'[a][p].exp = items[a][p].exp
        BY <2>1, <2>3, <2>4 DEF TypeOK, ItemRow
    <2>6. \A b \in Asn, x \in Product : b # a \/ x # p => items'[b][x] = items[b][x]
        BY <2>1, <2>3 DEF TypeOK
    <2>7. ASSUME NEW b \in Asn, NEW x \in Product
          PROVE  items'[b][x].rcv = 0 \/ items'[b][x].rcv <= items'[b][x].exp
        <3>1. CASE b = a /\ x = p
            BY <2>2, <2>5, <3>1
        <3>2. CASE b # a \/ x # p
            BY <2>6, <3>2 DEF RowWithinExpected
        <3> QED BY <3>1, <3>2
    <2> QED BY <2>7 DEF RowWithinExpected
<1>4. CASE UNCHANGED items
    BY <1>4 DEF RowWithinExpected
<1> QED
    BY <1>1, <1>2, <1>3, <1>4 DEF Next, vars, UpdateRead, CancelRead, ItemsCheck,
       ReceiveRead, UpdateWrite, CancelWrite, ItemsDelete, ReceiveWrite, Abort, UseOutside

(* The received quantity of a line never exceeds the expected one, however *)
(* receiveItem, updateAsnItems and the others overlap.                     *)
THEOREM LineNeverOverfilled == Spec => []RowWithinExpected
<1> DEFINE I == TypeOK /\ GenIdentifiesRow /\ AbsentIsUntouched /\ RowWithinExpected
<1>1. Init => GenIdentifiesRow /\ AbsentIsUntouched /\ RowWithinExpected
    BY DEF Init, GenIdentifiesRow, AbsentIsUntouched, RowWithinExpected, NoRow, Idle,
       Receives, InFlight, HasReceipts
<1>2. TypeOK /\ I /\ [Next]_vars /\ TypeOK' => I'
    BY GenStep, AbsentStep, RowStep
<1>3. Spec => []I
    BY <1>1, <1>2, TypeCorrect, PTL DEF Spec
<1> QED BY <1>3, PTL

-----------------------------------------------------------------------------
(***************************************************************************)
(* Isolation.  A request that shares its ASN with no other in flight finds *)
(* at its write what it saw at its read; what follows rests on that.       *)
(***************************************************************************)
(* What a step does to the receipts there are.                             *)
LEMMA ReceiptsStep ==
    ASSUME TypeOK, [Next]_vars
    PROVE  \/ \E r \in Req :
                 /\ ReceiveCommit(r)
                 /\ receipts' = Append(receipts,
                       [asn |-> req[r].asn, prod |-> req[r].prod, gen |-> req[r].row.gen,
                        bin |-> req[r].bin, qty |-> req[r].qty, sn |-> req[r].sn])
           \/ /\ DOMAIN receipts' = DOMAIN receipts
              /\ \A i \in DOMAIN receipts :
                    /\ receipts'[i].asn = receipts[i].asn
                    /\ receipts'[i].prod = receipts[i].prod
                    /\ receipts'[i].sn = receipts[i].sn
                    /\ \/ receipts'[i] = receipts[i]
                       \/ \E r \in Req : ItemsCommit(r) /\ req[r].asn = receipts[i].asn
<1>1. CASE UNCHANGED receipts
    BY <1>1
<1>2. ASSUME NEW r \in Req, ReceiveCommit(r)
      PROVE  receipts' = Append(receipts,
                       [asn |-> req[r].asn, prod |-> req[r].prod, gen |-> req[r].row.gen,
                        bin |-> req[r].bin, qty |-> req[r].qty, sn |-> req[r].sn])
    BY <1>2 DEF ReceiveCommit
<1>3. ASSUME NEW r \in Req, ItemsCommit(r)
      PROVE  /\ DOMAIN receipts' = DOMAIN receipts
             /\ \A i \in DOMAIN receipts :
                   /\ receipts'[i].asn = receipts[i].asn
                   /\ receipts'[i].prod = receipts[i].prod
                   /\ receipts'[i].sn = receipts[i].sn
                   /\ receipts'[i] = receipts[i] \/ req[r].asn = receipts[i].asn
    <2>1. DOMAIN receipts' = DOMAIN receipts
        BY <1>3 DEF ItemsCommit
    <2>2. ASSUME NEW i \in DOMAIN receipts
          PROVE  \/ receipts'[i] = receipts[i]
                 \/ /\ req[r].asn = receipts[i].asn
                    /\ receipts'[i] = [receipts[i] EXCEPT !.gen = 0]
        BY <1>3 DEF ItemsCommit
    <2>3. \A i \in DOMAIN receipts : receipts[i] \in Receipt
        BY DEF TypeOK
    <2> QED BY <2>1, <2>2, <2>3 DEF Receipt
<1> QED
    BY <1>1, <1>2, <1>3 DEF Next, vars, CreateAsn, UpdateRead, CancelRead, ItemsCheck,
       ReceiveRead, UpdateWrite, CancelWrite, ItemsDelete, ReceiveWrite, Abort, UseOutside

(* A step leaves an ASN alone unless it creates it or ends a request on it.*)
LEMMA OthersUntouched ==
    ASSUME TypeOK, [Next]_vars, NEW a \in Asn, ~CreateAsn(a),
           \A r \in Req : Ends(r) => req[r].asn # a
    PROVE  status'[a] = status[a] /\ items'[a] = items[a] /\ (HasReceipts(a)' <=> HasReceipts(a))
<1>1. ASSUME NEW b \in Asn, CreateAsn(b)
      PROVE  status'[a] = status[a] /\ items'[a] = items[a]
    <2>1. b # a
        BY <1>1
    <2> QED BY <1>1, <2>1 DEF CreateAsn, TypeOK
<1>2. ASSUME NEW r \in Req, Ends(r)
      PROVE  status'[a] = status[a] /\ items'[a] = items[a]
    <2>1. req[r].asn # a
        BY <1>2
    <2> QED BY <1>2, <2>1 DEF Ends, UpdateWrite, CancelWrite, ItemsCommit, ReceiveCommit, Abort,
            TypeOK
<1>3. status'[a] = status[a] /\ items'[a] = items[a]
    BY <1>1, <1>2, NextCases, ReadFacts, ContinueFacts DEF handled
<1>4. HasReceipts(a)' => HasReceipts(a)
    BY ReceiptsOfOthers DEF Ends
<1>5. HasReceipts(a) => HasReceipts(a)'
    <2>1. ASSUME NEW i \in DOMAIN receipts, receipts[i].asn = a
          PROVE  i \in DOMAIN receipts' /\ receipts'[i].asn = a
        <3>1. CASE \E x : receipts' = Append(receipts, x)
            BY <2>1, <3>1 DEF TypeOK
        <3>2. CASE DOMAIN receipts' = DOMAIN receipts /\ receipts'[i].asn = receipts[i].asn
            BY <2>1, <3>2
        <3> QED BY <2>1, <3>1, <3>2, ReceiptsStep
    <2> QED BY <2>1 DEF HasReceipts
<1>6. HasReceipts(a)' <=> HasReceipts(a)
    BY <1>4, <1>5
<1> QED BY <1>3, <1>6

(* A request in flight that takes no part in a step finds its ASN as it    *)
(* was, unless the ASN is raced.                                           *)
LEMMA Isolated ==
    ASSUME TypeOK, AloneUnlessRaced, AbsentIsUntouched, [Next]_vars,
           NEW s \in Req, InFlight(s), InFlight(s)',
           NEW a \in Asn, req[s].asn = a, a \notin raced
    PROVE  status'[a] = status[a] /\ items'[a] = items[a] /\ (HasReceipts(a)' <=> HasReceipts(a))
<1>1. ~CreateAsn(a)
    BY DEF CreateAsn, AbsentIsUntouched
<1>2. ASSUME NEW r \in Req, Ends(r), req[r].asn = a
      PROVE  FALSE
    <2>1. InFlight(r) /\ r # s
        BY <1>2, EndFacts
    <2>2. a \in Uses(r) /\ a \in Uses(s)
        BY <1>2, <2>1 DEF Uses
    <2> QED BY <2>1, <2>2 DEF AloneUnlessRaced
<1> QED BY <1>1, <1>2, OthersUntouched

(* A step that does not read for s leaves it in flight only as it was, or  *)
(* takes it on.                                                            *)
LEMMA RequestSteps ==
    ASSUME TypeOK, [Next]_vars, NEW s \in Req, InFlight(s)'
    PROVE  \/ InFlight(s) /\ req'[s] = req[s]
           \/ \E a \in Asn : Reads(s, a)
           \/ Continues(s)
<1>1. ASSUME NEW r \in Req, NEW a \in Asn, Reads(r, a), r # s
      PROVE  InFlight(s) /\ req'[s] = req[s]
    BY <1>1, ReadFacts DEF InFlight
<1>2. ASSUME NEW r \in Req, Continues(r), r # s
      PROVE  InFlight(s) /\ req'[s] = req[s]
    BY <1>2, ContinueFacts DEF InFlight
<1>3. ASSUME NEW r \in Req, Ends(r)
      PROVE  InFlight(s) /\ req'[s] = req[s]
    BY <1>3, EndFacts DEF InFlight
<1>4. CASE UNCHANGED req
    BY <1>4 DEF InFlight
<1> QED BY <1>1, <1>2, <1>3, <1>4, NextCases DEF CreateAsn, handled

LEMMA ChecksStep ==
    ASSUME TypeOK, AloneUnlessRaced, AbsentIsUntouched, ChecksHoldUnlessRaced, [Next]_vars
    PROVE  ChecksHoldUnlessRaced'
<1> SUFFICES ASSUME NEW s \in Req, InFlight(s)', req'[s].asn \notin raced'
             PROVE  CheckHolds(s)'
    BY DEF ChecksHoldUnlessRaced
<1>0. req'[s].asn \notin raced
    BY RacedGrows
<1>1. CASE InFlight(s) /\ req'[s] = req[s]
    <2>0. PICK a \in Asn : a = req[s].asn
        BY <1>1, ReqShape DEF InFlight
    <2>1. CheckHolds(s)
        BY <1>0, <1>1 DEF ChecksHoldUnlessRaced
    <2>2. status'[a] = status[a] /\ items'[a] = items[a] /\ (HasReceipts(a)' <=> HasReceipts(a))
        BY <1>0, <1>1, <2>0, Isolated
    <2>3. AllDone(s)' = AllDone(s) /\ Receives(s)' = Receives(s)
        BY <1>1, <2>0, <2>2 DEF AllDone, NewRcv, Receives
    <2>4. req[s].at \in {"items.checked", "items.deleting"} =>
              status'[a] = "DRAFT" /\ ~HasReceipts(a)'
        BY <2>0, <2>1, <2>2 DEF CheckHolds
    <2> QED BY <1>1, <2>0, <2>1, <2>2, <2>3, <2>4 DEF CheckHolds
<1>2. ASSUME NEW a \in Asn, Reads(s, a)
      PROVE  CheckHolds(s)'
    <2> USE DEF CheckHolds, Receives, TypeOK
    <2>1. CASE UpdateRead(s, a)
        BY <2>1 DEF UpdateRead
    <2>2. CASE CancelRead(s, a)
        BY <2>2 DEF CancelRead
    <2>3. CASE ItemsCheck(s, a)
        BY <2>3 DEF ItemsCheck, HasReceipts
    <2>4. CASE ReceiveRead(s, a)
        BY <2>4 DEF ReceiveRead
    <2> QED BY <1>2, <2>1, <2>2, <2>3, <2>4 DEF Reads
<1>3. CASE Continues(s)
    <2>1. /\ InFlight(s) /\ req'[s].asn = req[s].asn
          /\ UNCHANGED <<status, items, receipts>>
        BY <1>3, ContinueFacts
    <2>2. CheckHolds(s)
        BY <1>0, <2>1 DEF ChecksHoldUnlessRaced
    <2>3. CASE ItemsDelete(s)
        <3>1. req[s] \in ItemsReq
            BY <2>3, ReqShape DEF ItemsDelete
        <3>2. req'[s] = [req[s] EXCEPT !.at = "items.deleting",
                            !.seen = [p \in Product |-> items[req[s].asn][p].gen]]
            BY <2>3 DEF ItemsDelete, TypeOK
        <3>3. /\ req'[s].at = "items.deleting"
              /\ req'[s].seen = [p \in Product |-> items[req[s].asn][p].gen]
            BY <3>1, <3>2 DEF ItemsReq
        <3>4. status[req[s].asn] = "DRAFT" /\ ~HasReceipts(req[s].asn)
            BY <2>2, <2>3 DEF CheckHolds, ItemsDelete
        <3> QED BY <2>1, <3>3, <3>4 DEF CheckHolds, Receives, HasReceipts
    <2>4. CASE ReceiveWrite(s)
        <3>1. req[s] \in ReceiveReq
            BY <2>4, ReqShape DEF ReceiveWrite
        <3>2. req'[s] = [req[s] EXCEPT !.at = "receive.written", !.allDone = AllDone(s)]
            BY <2>4 DEF ReceiveWrite, TypeOK
        <3>3. /\ req'[s].at = "receive.written" /\ req'[s].allDone = AllDone(s)
              /\ req'[s].prod = req[s].prod /\ req'[s].row = req[s].row
              /\ req'[s].qty = req[s].qty
            BY <3>1, <3>2 DEF ReceiveReq
        <3>4. AllDone(s)' = AllDone(s)
            BY <2>1, <3>3 DEF AllDone, NewRcv
        <3>5. /\ Receivable(status[req[s].asn])
              /\ items[req[s].asn][req[s].prod] = req[s].row
            BY <2>2, <2>4 DEF CheckHolds, ReceiveWrite, Receives
        <3> QED BY <2>1, <3>3, <3>4, <3>5 DEF CheckHolds, Receives
    <2> QED BY <1>3, <2>3, <2>4 DEF Continues
<1> QED BY <1>1, <1>2, <1>3, RequestSteps

LEMMA SerialsHoldStep ==
    ASSUME TypeOK, AloneUnlessRaced, SerialsHoldUnlessRaced, [Next]_vars
    PROVE  SerialsHoldUnlessRaced'
<1> SUFFICES ASSUME NEW s \in Req, Receives(s)'
             PROVE  \A i \in DOMAIN receipts' :
                       receipts'[i].prod = req'[s].prod =>
                           receipts'[i].sn \cap (req'[s].sn \ raced') = {}
    BY DEF SerialsHoldUnlessRaced, NotReceived
<1>0. raced \subseteq raced' /\ InFlight(s)'
    BY RacedGrows DEF Receives, InFlight
<1>1. CASE Receives(s) /\ req'[s].prod = req[s].prod /\ req'[s].sn = req[s].sn
    <2>1. NotReceived(req[s].prod, req[s].sn \ raced)
        BY <1>1 DEF SerialsHoldUnlessRaced
    <2>2. ASSUME NEW i \in DOMAIN receipts', receipts'[i].prod = req[s].prod
          PROVE  receipts'[i].sn \cap (req[s].sn \ raced') = {}
        <3>1. CASE /\ DOMAIN receipts' = DOMAIN receipts
                   /\ receipts'[i].prod = receipts[i].prod /\ receipts'[i].sn = receipts[i].sn
            BY <1>0, <2>1, <2>2, <3>1 DEF NotReceived
        <3>2. ASSUME NEW r \in Req, ReceiveCommit(r),
                     receipts' = Append(receipts,
                       [asn |-> req[r].asn, prod |-> req[r].prod, gen |-> req[r].row.gen,
                        bin |-> req[r].bin, qty |-> req[r].qty, sn |-> req[r].sn])
              PROVE  receipts'[i].sn \cap (req[s].sn \ raced') = {}
            <4>1. \/ i \in DOMAIN receipts /\ receipts'[i] = receipts[i]
                  \/ receipts'[i].sn = req[r].sn
                BY <3>2 DEF TypeOK
            <4>2. r # s
                BY <1>0, <3>2, EndFacts DEF Ends
            <4>3. req[r].sn \subseteq Uses(r) /\ req[s].sn \subseteq Uses(s)
                BY <1>1, <3>2 DEF Uses, InFlight, Receives, ReceiveCommit
            <4>4. req[r].sn \cap req[s].sn \subseteq raced
                BY <4>2, <4>3 DEF AloneUnlessRaced
            <4> QED BY <1>0, <2>1, <2>2, <4>1, <4>4 DEF NotReceived
        <3> QED BY <3>1, <3>2, ReceiptsStep
    <2> QED BY <1>1, <2>2
<1>2. ASSUME NEW a \in Asn, Reads(s, a)
      PROVE  \A i \in DOMAIN receipts' :
                receipts'[i].prod = req'[s].prod =>
                    receipts'[i].sn \cap (req'[s].sn \ raced') = {}
    <2>1. ReceiveRead(s, a)
        BY <1>2 DEF Reads, UpdateRead, CancelRead, ItemsCheck, Receives, TypeOK
    <2>2. NotReceived(req'[s].prod, req'[s].sn) /\ receipts' = receipts
        BY <2>1 DEF ReceiveRead, SerialsUnused, TypeOK
    <2> QED BY <2>2 DEF NotReceived
<1>3. CASE Continues(s)
    <2>1. ReceiveWrite(s)
        <3>1. Receives(s)
            BY <1>3, ContinueFacts
        <3> QED BY <1>3, <3>1 DEF Continues, ItemsDelete, Receives
    <2>2. req[s] \in ReceiveReq /\ Receives(s)
        BY <2>1, ReqShape DEF ReceiveWrite, Receives
    <2>3. req'[s].prod = req[s].prod /\ req'[s].sn = req[s].sn
        BY <2>1, <2>2 DEF ReceiveWrite, ReceiveReq, TypeOK
    <2> QED BY <1>1, <2>2, <2>3
<1>4. InFlight(s) /\ req'[s] = req[s] => Receives(s)
    BY DEF Receives
<1> QED BY <1>0, <1>1, <1>2, <1>3, <1>4, RequestSteps

-----------------------------------------------------------------------------
(* A receive about to commit books on a row that is there.                 *)
LEMMA CommitFacts ==
    ASSUME TypeOK, GenIdentifiesRow, NEW r \in Req, ReceiveCommit(r)
    PROVE  LET a == req[r].asn
               p == req[r].prod
           IN  /\ InFlight(r) /\ Receives(r) /\ a \in Asn /\ p \in Product
               /\ req[r].row.gen # 0 /\ items[a][p].gen = req[r].row.gen
               /\ items'[a][p].gen = items[a][p].gen /\ items'[a][p].exp = items[a][p].exp
               /\ items'[a][p].rcv = NewRcv(r)
               /\ \A b \in Asn, x \in Product : b # a \/ x # p => items'[b][x] = items[b][x]
<1> DEFINE a == req[r].asn
           p == req[r].prod
<1>1. InFlight(r) /\ Receives(r) /\ a \in Asn /\ p \in Product
    BY ReqFields DEF ReceiveCommit, InFlight, Receives
<1>2. req[r].row.gen # 0 /\ items[a][p].gen = req[r].row.gen
    BY <1>1 DEF GenIdentifiesRow, ReceiveCommit
<1>3. items' = [items EXCEPT ![a][p].rcv = NewRcv(r)]
    BY DEF ReceiveCommit
<1>4. items[a][p] \in ItemRow /\ items \in [Asn -> [Product -> ItemRow]]
    BY <1>1 DEF TypeOK
<1>5. items'[a][p] = [items[a][p] EXCEPT !.rcv = NewRcv(r)]
    BY <1>1, <1>3, <1>4
<1>6. /\ items'[a][p].gen = items[a][p].gen /\ items'[a][p].exp = items[a][p].exp
      /\ items'[a][p].rcv = NewRcv(r)
    BY <1>4, <1>5 DEF ItemRow
<1>7. \A b \in Asn, x \in Product : b # a \/ x # p => items'[b][x] = items[b][x]
    BY <1>1, <1>3, <1>4
<1> QED BY <1>1, <1>2, <1>6, <1>7

(* Whoever replaces the lines of an ASN that is not raced finds no         *)
(* receipts on it.                                                         *)
LEMMA ReplacesUnreceived ==
    ASSUME TypeOK, ChecksHoldUnlessRaced, NEW r \in Req, ItemsCommit(r),
           NEW a \in Asn, req[r].asn = a, a \notin raced
    PROVE  ~HasReceipts(a)
BY DEF ChecksHoldUnlessRaced, CheckHolds, ItemsCommit, InFlight

LEMMA NoOrphanStep ==
    ASSUME TypeOK, GenIdentifiesRow, AbsentIsUntouched, ChecksHoldUnlessRaced,
           NoOrphanUnlessRaced, [Next]_vars
    PROVE  NoOrphanUnlessRaced'
<1>a. raced \subseteq raced'
    BY RacedGrows
<1>b. \A i \in DOMAIN receipts : receipts[i] \in Receipt
    BY DEF TypeOK
<1>c. \A x \in Receipt : x.asn \in Asn /\ x.prod \in Product
    BY DEF Receipt
<1>0. raced \subseteq raced' /\ \A i \in DOMAIN receipts :
          receipts[i] \in Receipt /\ receipts[i].asn \in Asn /\ receipts[i].prod \in Product
    BY <1>a, <1>b, <1>c
<1> DEFINE Kept(x) == x.gen # 0 /\ items'[x.asn][x.prod].gen = x.gen
<1>1. ASSUME NEW r \in Req, ReceiveCommit(r)
      PROVE  NoOrphanUnlessRaced'
    <2> DEFINE x == [asn |-> req[r].asn, prod |-> req[r].prod, gen |-> req[r].row.gen,
                     bin |-> req[r].bin, qty |-> req[r].qty, sn |-> req[r].sn]
    <2>1. receipts' = Append(receipts, x)
        BY <1>1 DEF ReceiveCommit
    <2>2. Kept(x)
        BY <1>1, CommitFacts
    <2>3. \A b \in Asn, p \in Product : items'[b][p].gen = items[b][p].gen
        BY <1>1, CommitFacts
    <2>4. ASSUME NEW i \in DOMAIN receipts', receipts'[i].asn \notin raced'
          PROVE  Kept(receipts'[i])
        <3>1. \/ i \in DOMAIN receipts /\ receipts'[i] = receipts[i]
              \/ receipts'[i] = x
            BY <2>1 DEF TypeOK
        <3>2. CASE i \in DOMAIN receipts /\ receipts'[i] = receipts[i]
            BY <1>0, <2>3, <2>4, <3>2 DEF NoOrphanUnlessRaced, KeepsItsLine
        <3>3. CASE receipts'[i] = x
            BY <2>2, <3>3
        <3> QED BY <3>1, <3>2, <3>3
    <2> QED BY <2>4 DEF NoOrphanUnlessRaced, KeepsItsLine
<1>2. ASSUME NEW r \in Req, ItemsCommit(r)
      PROVE  NoOrphanUnlessRaced'
    <2>1. PICK a \in Asn : a = req[r].asn
        BY <1>2, ReqShape DEF ItemsCommit
    <2>2. a \notin raced => ~HasReceipts(a)
        BY <1>2, <2>1, ReplacesUnreceived
    <2>3. /\ DOMAIN receipts' = DOMAIN receipts
          /\ \A i \in DOMAIN receipts :
                receipts[i].asn # a => receipts'[i] = receipts[i]
        BY <1>2, <2>1 DEF ItemsCommit
    <2>4. \A i \in DOMAIN receipts : receipts'[i].asn = receipts[i].asn
        BY <1>0, <1>2 DEF ItemsCommit, Receipt
    <2>5. \A b \in Asn \ {a} : items'[b] = items[b]
        BY <1>2, <2>1 DEF ItemsCommit, TypeOK
    <2>6. ASSUME NEW i \in DOMAIN receipts', receipts'[i].asn \notin raced'
          PROVE  Kept(receipts'[i])
        <3>1. receipts[i].asn \notin raced /\ receipts[i].asn # a
            BY <1>0, <2>2, <2>3, <2>4, <2>6 DEF HasReceipts
        <3> QED BY <1>0, <2>3, <2>5, <2>6, <3>1 DEF NoOrphanUnlessRaced, KeepsItsLine
    <2> QED BY <2>6 DEF NoOrphanUnlessRaced, KeepsItsLine
<1>3. ASSUME NEW a \in Asn, CreateAsn(a)
      PROVE  NoOrphanUnlessRaced'
    <2>1. ~HasReceipts(a) /\ UNCHANGED <<receipts, raced>>
        BY <1>3 DEF CreateAsn, AbsentIsUntouched
    <2>2. \A b \in Asn \ {a} : items'[b] = items[b]
        BY <1>3 DEF CreateAsn, TypeOK
    <2> QED BY <1>0, <2>1, <2>2 DEF NoOrphanUnlessRaced, KeepsItsLine, HasReceipts
<1>4. CASE UNCHANGED <<items, receipts>>
    BY <1>0, <1>4 DEF NoOrphanUnlessRaced, KeepsItsLine
<1> QED
    BY <1>1, <1>2, <1>3, <1>4 DEF Next, vars, UpdateRead, CancelRead, ItemsCheck,
       ReceiveRead, UpdateWrite, CancelWrite, ItemsDelete, ReceiveWrite, Abort, UseOutside

LEMMA FullyReceivedStep ==
    ASSUME TypeOK, GenIdentifiesRow, AbsentIsUntouched, ChecksHoldUnlessRaced,
           FullyReceivedIsCompleted, [Next]_vars
    PROVE  FullyReceivedIsCompleted'
<1> SUFFICES ASSUME NEW a \in Asn, a \notin raced', FullyReceived(a)'
             PROVE  status'[a] = "COMPLETED"
    BY DEF FullyReceivedIsCompleted
<1>0. a \notin raced /\ (FullyReceived(a) => status[a] = "COMPLETED")
    BY RacedGrows DEF FullyReceivedIsCompleted
<1>1. CASE CreateAsn(a)
    BY <1>1 DEF CreateAsn, AbsentIsUntouched, FullyReceived, HasReceipts
<1>2. CASE ~CreateAsn(a) /\ \A r \in Req : Ends(r) => req[r].asn # a
    <2>1. status'[a] = status[a] /\ items'[a] = items[a] /\ (HasReceipts(a)' <=> HasReceipts(a))
        BY <1>2, OthersUntouched
    <2>2. FullyReceived(a)
        BY <2>1 DEF FullyReceived, Live
    <2> QED BY <1>0, <2>1, <2>2
<1>3. ASSUME NEW r \in Req, Ends(r), req[r].asn = a
      PROVE  status'[a] = "COMPLETED"
    <2>0. InFlight(r) /\ CheckHolds(r)
        BY <1>0, <1>3, EndFacts DEF ChecksHoldUnlessRaced
    <2>1. CASE UNCHANGED <<items, receipts>>
        <3>1. status[a] = "COMPLETED"
            BY <1>0, <2>1 DEF FullyReceived, Live, HasReceipts
        <3>2. ~CancelWrite(r)
            BY <1>3, <2>0, <3>1 DEF CancelWrite, CheckHolds
        <3>3. CASE UpdateWrite(r)
            BY <1>3, <2>0, <3>1, <3>3 DEF UpdateWrite, CheckHolds, MayBecome, TypeOK
        <3>4. CASE Abort(r)
            BY <3>1, <3>4 DEF Abort
        <3>5. CASE ItemsCommit(r)
            <4>1. ~HasReceipts(a)
                BY <1>0, <1>3, <3>5, ReplacesUnreceived
            <4> QED BY <2>1, <4>1 DEF FullyReceived, HasReceipts
        <3>6. CASE ReceiveCommit(r)
            BY <1>3, <2>0, <3>1, <3>6 DEF ReceiveCommit, CheckHolds, Receives, Receivable
        <3> QED BY <1>3, <3>2, <3>3, <3>4, <3>5, <3>6 DEF Ends
    <2>2. CASE ItemsCommit(r)
        <3>1. ~HasReceipts(a)
            BY <1>0, <1>3, <2>2, ReplacesUnreceived
        <3>2. HasReceipts(a)
            <4>1. HasReceipts(a)'
                BY DEF FullyReceived
            <4>2. ~ReceiveCommit(r)
                BY <2>2 DEF ItemsCommit, ReceiveCommit
            <4>3. \A s \in Req : ~ReceiveCommit(s)
                <5>1. ASSUME NEW s \in Req, ReceiveCommit(s)
                      PROVE  FALSE
                    <6>1. DOMAIN receipts' = DOMAIN receipts
                        BY <2>2 DEF ItemsCommit
                    <6>2. PICK x : receipts' = Append(receipts, x)
                        BY <5>1 DEF ReceiveCommit
                    <6> QED BY <6>1, <6>2 DEF TypeOK
                <5> QED BY <5>1
            <4> QED BY <4>1, <4>3, ReceiptsOfOthers
        <3> QED BY <3>1, <3>2
    <2>3. CASE ReceiveCommit(r)
        <3>1. req[r].allDone = AllDone(r) /\ req[r].prod \in Product
            BY <2>0, <2>3, CommitFacts DEF CheckHolds, ReceiveCommit
        <3>2. AllDone(r)
            <4>1. ASSUME NEW p \in Product, items[a][p].gen # 0
                  PROVE  (IF p = req[r].prod THEN NewRcv(r) ELSE items[a][p].rcv)
                             = items[a][p].exp
                <5>1. items'[a][p].gen # 0 /\ items'[a][p].exp = items[a][p].exp
                      /\ items'[a][p].rcv =
                             (IF p = req[r].prod THEN NewRcv(r) ELSE items[a][p].rcv)
                    BY <1>3, <2>3, <4>1, CommitFacts
                <5>2. items'[a][p].rcv = items'[a][p].exp
                    BY <5>1 DEF FullyReceived, Live
                <5> QED BY <5>1, <5>2
            <4> QED BY <1>3, <4>1 DEF AllDone
        <3> QED BY <1>3, <2>3, <3>1, <3>2 DEF ReceiveCommit, TypeOK
    <2> QED BY <1>3, <2>1, <2>2, <2>3 DEF Ends, UpdateWrite, CancelWrite, Abort
<1> QED BY <1>1, <1>2, <1>3

LEMMA SerialsUniqueStep ==
    ASSUME TypeOK, SerialsHoldUnlessRaced, SerialsUniqueUnlessRaced, [Next]_vars
    PROVE  SerialsUniqueUnlessRaced'
<1> SUFFICES ASSUME NEW x \in Serial, x \notin raced',
                    NEW i \in DOMAIN receipts', NEW j \in DOMAIN receipts',
                    receipts'[i].prod = receipts'[j].prod,
                    x \in receipts'[i].sn, x \in receipts'[j].sn
             PROVE  i = j
    BY DEF SerialsUniqueUnlessRaced, BookedOnce
<1>0. x \notin raced
    BY RacedGrows
<1>1. ASSUME NEW k \in DOMAIN receipts, NEW l \in DOMAIN receipts,
             receipts[k].prod = receipts[l].prod, x \in receipts[k].sn, x \in receipts[l].sn
      PROVE  k = l
    BY <1>0, <1>1 DEF SerialsUniqueUnlessRaced, BookedOnce
<1>2. CASE /\ DOMAIN receipts' = DOMAIN receipts
           /\ \A k \in DOMAIN receipts : /\ receipts'[k].prod = receipts[k].prod
                                         /\ receipts'[k].sn = receipts[k].sn
    BY <1>1, <1>2
<1>3. ASSUME NEW r \in Req, ReceiveCommit(r)
      PROVE  i = j
    <2> DEFINE y == [asn |-> req[r].asn, prod |-> req[r].prod, gen |-> req[r].row.gen,
                     bin |-> req[r].bin, qty |-> req[r].qty, sn |-> req[r].sn]
    <2>1. receipts' = Append(receipts, y)
        BY <1>3 DEF ReceiveCommit
    <2>2. y.prod = req[r].prod /\ y.sn = req[r].sn
        OBVIOUS
    <2>3. \A k \in DOMAIN receipts : receipts[k].prod = y.prod /\ x \in y.sn
                                        => x \notin receipts[k].sn
        <3>1. NotReceived(req[r].prod, req[r].sn \ raced)
            BY <1>3 DEF SerialsHoldUnlessRaced, ReceiveCommit, Receives
        <3> QED BY <1>0, <2>2, <3>1 DEF NotReceived
    <2> HIDE DEF y
    <2>4. \A k \in DOMAIN receipts' :
             \/ k \in DOMAIN receipts /\ receipts'[k] = receipts[k]
             \/ k = Len(receipts) + 1 /\ receipts'[k] = y
        BY <2>1 DEF TypeOK
    <2> QED BY <1>1, <2>3, <2>4
<1> QED BY <1>2, <1>3, ReceiptsStep

(* The part of the inductive invariant that every theorem below rests on.  *)
Isolation == /\ AloneUnlessRaced
             /\ GenIdentifiesRow
             /\ AbsentIsUntouched
             /\ ChecksHoldUnlessRaced

LEMMA InitIsolated ==
    Init => /\ Isolation /\ SerialsHoldUnlessRaced /\ NoOrphanUnlessRaced
            /\ FullyReceivedIsCompleted /\ SerialsUniqueUnlessRaced
<1> SUFFICES ASSUME Init
             PROVE  /\ Isolation /\ SerialsHoldUnlessRaced /\ NoOrphanUnlessRaced
                    /\ FullyReceivedIsCompleted /\ SerialsUniqueUnlessRaced
    OBVIOUS
<1>1. (\A r \in Req : ~InFlight(r) /\ ~Receives(r)) /\ DOMAIN receipts = {}
    BY DEF Init, InFlight, Receives, Idle
<1>2. \A a \in Asn : ~HasReceipts(a)
    BY <1>1 DEF HasReceipts
<1> QED BY <1>1, <1>2 DEF Init, Isolation, AloneUnlessRaced, Uses, GenIdentifiesRow, NoRow,
        AbsentIsUntouched, ChecksHoldUnlessRaced, SerialsHoldUnlessRaced, NoOrphanUnlessRaced,
        FullyReceivedIsCompleted, FullyReceived, SerialsUniqueUnlessRaced, BookedOnce

LEMMA Isolate == Spec => [](TypeOK /\ Isolation)
<1>1. Init => Isolation
    BY InitIsolated
<1>2. TypeOK /\ Isolation /\ [Next]_vars => Isolation'
    BY AloneStep, GenStep, AbsentStep, ChecksStep DEF Isolation
<1> QED BY <1>1, <1>2, TypeCorrect, PTL DEF Spec

(* Where requests on an ASN do not overlap, no receipt loses its line      *)
(* (updateAsnItems: 'ASN already has receiving records and cannot replace  *)
(* items'), whatever runs on the other ASNs.                               *)
THEOREM ReceiptsKeepLines == Spec => []NoOrphanUnlessRaced
<1>1. Init => NoOrphanUnlessRaced
    BY InitIsolated
<1>2. TypeOK /\ Isolation /\ NoOrphanUnlessRaced /\ [Next]_vars => NoOrphanUnlessRaced'
    BY NoOrphanStep DEF Isolation
<1> QED BY <1>1, <1>2, Isolate, PTL DEF Spec

(* Where requests on an ASN do not overlap, the receipt that takes the     *)
(* last of its lines closes it (receiveItem reads the lines again after    *)
(* its own write), and nothing reopens it.                                 *)
THEOREM ReceivedCompletes == Spec => []FullyReceivedIsCompleted
<1>1. Init => FullyReceivedIsCompleted
    BY InitIsolated
<1>2. TypeOK /\ Isolation /\ FullyReceivedIsCompleted /\ [Next]_vars
          => FullyReceivedIsCompleted'
    BY FullyReceivedStep DEF Isolation
<1> QED BY <1>1, <1>2, Isolate, PTL DEF Spec

(* A serial number that no two requests in flight carried is booked once   *)
(* per product, on whatever ASNs (receiveItem's search of the receipts).   *)
THEOREM SerialsBookedOnce == Spec => []SerialsUniqueUnlessRaced
<1>1. Init => SerialsHoldUnlessRaced /\ SerialsUniqueUnlessRaced
    BY InitIsolated
<1>2. TypeOK /\ Isolation /\ SerialsHoldUnlessRaced /\ SerialsUniqueUnlessRaced /\ [Next]_vars
          => SerialsHoldUnlessRaced' /\ SerialsUniqueUnlessRaced'
    BY SerialsHoldStep, SerialsUniqueStep DEF Isolation
<1> QED BY <1>1, <1>2, Isolate, PTL DEF Spec

LEMMA CompletedStays ==
    ASSUME TypeOK, Isolation, [Next]_vars, NEW a \in Asn, a \notin raced',
           status[a] = "COMPLETED"
    PROVE  status'[a] = "COMPLETED"
<1>0. a \notin raced
    BY RacedGrows
<1>1. ~CreateAsn(a)
    BY DEF CreateAsn
<1>2. CASE \A r \in Req : Ends(r) => req[r].asn # a
    BY <1>1, <1>2, OthersUntouched
<1>3. ASSUME NEW r \in Req, Ends(r), req[r].asn = a
      PROVE  status'[a] = "COMPLETED"
    <2>1. InFlight(r) /\ CheckHolds(r)
        BY <1>0, <1>3, EndFacts DEF ChecksHoldUnlessRaced, Isolation
    <2>2. ~CancelWrite(r)
        BY <1>3, <2>1 DEF CancelWrite, CheckHolds
    <2>3. ~ReceiveCommit(r)
        BY <1>3, <2>1 DEF ReceiveCommit, CheckHolds, Receives, Receivable
    <2>4. CASE UpdateWrite(r)
        BY <1>3, <2>1, <2>4 DEF UpdateWrite, CheckHolds, MayBecome, TypeOK
    <2>5. CASE UNCHANGED status
        BY <2>5
    <2> QED BY <1>3, <2>2, <2>3, <2>4, <2>5 DEF Ends, ItemsCommit, Abort
<1> QED BY <1>2, <1>3

(* A completed ASN stays completed where requests on it do not overlap     *)
(* (updateAsn: 'Completed ASN cannot be reopened').                        *)
THEOREM CompletedFinal == Spec => CompletedIsFinalUnlessRaced
<1>1. TypeOK /\ Isolation /\ [Next]_vars => [\A a \in Asn \ raced' : StaysCompleted(a)]_vars
    BY CompletedStays DEF StaysCompleted
<1> QED BY <1>1, Isolate, PTL DEF Spec, CompletedIsFinalUnlessRaced

-----------------------------------------------------------------------------
(***************************************************************************)
(* Sums over the receipts: one more receipt adds its quantity to the sums  *)
(* it belongs to, and a receipt that loses its line keeps its quantity.    *)
(***************************************************************************)
Qty(rs) == [i \in DOMAIN rs |-> rs[i].qty]

LEMMA IndicesFinite ==
    ASSUME NEW rs \in Seq(Receipt), NEW I \in SUBSET DOMAIN rs
    PROVE  IsFiniteSet(I) /\ \A i \in I : rs[i] \in Receipt /\ Qty(rs)[i] \in Nat
<1>1. DOMAIN rs = 1..Len(rs) /\ Len(rs) \in Nat
    OBVIOUS
<1>2. IsFiniteSet(1..Len(rs))
    BY <1>1, FS_Interval
<1>3. IsFiniteSet(I)
    BY <1>1, <1>2, FS_Subset
<1>4. \A i \in I : rs[i] \in Receipt
    OBVIOUS
<1> QED BY <1>3, <1>4 DEF Receipt, Qty

LEMMA SumKept ==
    ASSUME NEW rs \in Seq(Receipt), NEW I \in SUBSET DOMAIN rs, NEW ss,
           I \subseteq DOMAIN ss, \A i \in I : ss[i].qty = rs[i].qty
    PROVE  SumFunctionOnSet(Qty(ss), I) = SumFunctionOnSet(Qty(rs), I)
<1>1. IsFiniteSet(I)
    BY IndicesFinite
<1>2. \A i \in I : Qty(ss)[i] = Qty(rs)[i]
    BY DEF Qty
<1> QED BY <1>1, <1>2, SumSame

LEMMA SumAppended ==
    ASSUME NEW rs \in Seq(Receipt), NEW x \in Receipt, NEW I \in SUBSET DOMAIN rs
    PROVE  /\ SumFunctionOnSet(Qty(Append(rs, x)), I) = SumFunctionOnSet(Qty(rs), I)
           /\ SumFunctionOnSet(Qty(Append(rs, x)), I \cup {Len(rs) + 1}) =
                  SumFunctionOnSet(Qty(rs), I) + x.qty
<1> DEFINE ss == Append(rs, x)
           n == Len(rs) + 1
<1>1. /\ ss \in Seq(Receipt) /\ DOMAIN ss = DOMAIN rs \cup {n} /\ n \notin DOMAIN rs
      /\ ss[n] = x /\ \A i \in DOMAIN rs : ss[i] = rs[i]
    OBVIOUS
<1>2. I \in SUBSET DOMAIN ss /\ n \notin I /\ n \in DOMAIN ss
    BY <1>1
<1>3. IsFiniteSet(I) /\ \A i \in I : Qty(ss)[i] \in Nat
    BY <1>1, <1>2, IndicesFinite
<1>4. SumFunctionOnSet(Qty(ss), I) = SumFunctionOnSet(Qty(rs), I)
    BY <1>1, <1>2, SumKept
<1>5. Qty(ss)[n] = x.qty /\ x.qty \in Int
    BY <1>1, <1>2 DEF Qty, Receipt
<1> HIDE DEF ss, n
<1>6. SumFunctionOnSet(Qty(ss), I \cup {n}) = SumFunctionOnSet(Qty(ss), I) + Qty(ss)[n]
    BY <1>2, <1>3, <1>5, SumAdd
<1> QED BY <1>4, <1>5, <1>6 DEF ss, n

(* What a receive books.                                                   *)
Booked(r) == [asn |-> req[r].asn, prod |-> req[r].prod, gen |-> req[r].row.gen,
              bin |-> req[r].bin, qty |-> req[r].qty, sn |-> req[r].sn]

LEMMA BookedAppended ==
    ASSUME TypeOK, NEW r \in Req, ReceiveCommit(r)
    PROVE  /\ receipts' = Append(receipts, Booked(r)) /\ Booked(r) \in Receipt
           /\ DOMAIN receipts' = DOMAIN receipts \cup {Len(receipts) + 1}
           /\ Len(receipts) + 1 \notin DOMAIN receipts
           /\ receipts'[Len(receipts) + 1] = Booked(r)
           /\ \A i \in DOMAIN receipts : receipts'[i] = receipts[i]
<1>1. receipts' = Append(receipts, Booked(r))
    BY DEF ReceiveCommit, Booked
<1>2. Booked(r) \in Receipt
    BY ReqFields DEF ReceiveCommit, Booked, Receipt, ItemRow
<1>3. receipts \in Seq(Receipt)
    BY DEF TypeOK
<1> QED BY <1>1, <1>2, <1>3

LEMMA LandedKept ==
    ASSUME TypeOK, [Next]_vars, \A r \in Req : ~ReceiveCommit(r)
    PROVE  /\ DOMAIN receipts' = DOMAIN receipts
           /\ \A i \in DOMAIN receipts :
                 /\ receipts'[i].asn = receipts[i].asn /\ receipts'[i].prod = receipts[i].prod
                 /\ receipts'[i].bin = receipts[i].bin /\ receipts'[i].qty = receipts[i].qty
<1>1. ASSUME NEW r \in Req, ItemsCommit(r)
      PROVE  /\ DOMAIN receipts' = DOMAIN receipts
             /\ \A i \in DOMAIN receipts :
                 /\ receipts'[i].asn = receipts[i].asn /\ receipts'[i].prod = receipts[i].prod
                 /\ receipts'[i].bin = receipts[i].bin /\ receipts'[i].qty = receipts[i].qty
    <2>1. DOMAIN receipts' = DOMAIN receipts
        BY <1>1 DEF ItemsCommit
    <2>2. \A i \in DOMAIN receipts : receipts'[i] \in {receipts[i], [receipts[i] EXCEPT !.gen = 0]}
        BY <1>1 DEF ItemsCommit
    <2>3. \A i \in DOMAIN receipts : receipts[i] \in Receipt
        BY DEF TypeOK
    <2> QED BY <2>1, <2>2, <2>3 DEF Receipt
<1>2. CASE UNCHANGED receipts
    BY <1>2
<1> QED
    BY <1>1, <1>2 DEF Next, vars, CreateAsn, UpdateRead, CancelRead, ItemsCheck,
       ReceiveRead, UpdateWrite, CancelWrite, ItemsDelete, ReceiveWrite, Abort, UseOutside

LEMMA LandedIsSum == \A I : Landed(I) = SumFunctionOnSet(Qty(receipts), I)
BY DEF Landed, Qty

LEMMA BalanceStep ==
    ASSUME TypeOK, BalanceIsLanded, [Next]_vars
    PROVE  BalanceIsLanded'
<1> SUFFICES ASSUME NEW b \in Bin, NEW p \in Product
             PROVE  balance'[b][p] = SumFunctionOnSet(Qty(receipts'), IntoBin(b, p)')
    BY DEF BalanceIsLanded, Landed, Qty
<1> DEFINE I == IntoBin(b, p)
<1>1. balance[b][p] = SumFunctionOnSet(Qty(receipts), I)
    BY LandedIsSum DEF BalanceIsLanded
<1>2. I \in SUBSET DOMAIN receipts /\ receipts \in Seq(Receipt)
    BY DEF IntoBin, TypeOK
<1>3. ASSUME NEW r \in Req, ReceiveCommit(r)
      PROVE  balance'[b][p] = SumFunctionOnSet(Qty(receipts'), IntoBin(b, p)')
    <2>1. /\ receipts' = Append(receipts, Booked(r)) /\ Booked(r) \in Receipt
          /\ DOMAIN receipts' = DOMAIN receipts \cup {Len(receipts) + 1}
          /\ receipts'[Len(receipts) + 1] = Booked(r)
          /\ \A i \in DOMAIN receipts : receipts'[i] = receipts[i]
        BY <1>3, BookedAppended
    <2>2. Booked(r).bin = req[r].bin /\ Booked(r).prod = req[r].prod /\ Booked(r).qty = req[r].qty
        BY DEF Booked
    <2>3. balance' = [balance EXCEPT ![req[r].bin][req[r].prod] = @ + req[r].qty]
        BY <1>3 DEF ReceiveCommit, BalanceAfter
    <2>4. req[r].bin \in Bin /\ req[r].prod \in Product
        BY <1>3, ReqFields DEF ReceiveCommit
    <2>5. balance \in [Bin -> [Product -> Nat]]
        BY DEF TypeOK
    <2>6. CASE req[r].bin = b /\ req[r].prod = p
        <3>1. IntoBin(b, p)' = I \cup {Len(receipts) + 1}
            BY <2>1, <2>2, <2>6 DEF IntoBin
        <3>2. balance'[b][p] = balance[b][p] + req[r].qty
            BY <2>3, <2>5, <2>6
        <3> HIDE DEF I
        <3> QED BY <1>1, <1>2, <2>1, <2>2, <3>1, <3>2, SumAppended
    <2>7. CASE ~(req[r].bin = b /\ req[r].prod = p)
        <3>1. IntoBin(b, p)' = I
            BY <2>1, <2>2, <2>7 DEF IntoBin
        <3>2. balance'[b][p] = balance[b][p]
            BY <2>3, <2>4, <2>5, <2>7
        <3> HIDE DEF I
        <3> QED BY <1>1, <1>2, <2>1, <3>1, <3>2, SumAppended
    <2> QED BY <2>6, <2>7
<1>4. CASE \A r \in Req : ~ReceiveCommit(r)
    <2>1. /\ DOMAIN receipts' = DOMAIN receipts
          /\ \A i \in DOMAIN receipts :
                /\ receipts'[i].prod = receipts[i].prod
                /\ receipts'[i].bin = receipts[i].bin /\ receipts'[i].qty = receipts[i].qty
        BY <1>4, LandedKept
    <2>2. balance' = balance
        BY <1>4 DEF Next, vars, CreateAsn, UpdateRead, CancelRead, ItemsCheck,
           ReceiveRead, UpdateWrite, CancelWrite, ItemsDelete, ItemsCommit, ReceiveWrite,
           Abort, UseOutside
    <2>3. IntoBin(b, p)' = I
        BY <2>1 DEF IntoBin
    <2>4. SumFunctionOnSet(Qty(receipts'), I) = SumFunctionOnSet(Qty(receipts), I)
        <3> HIDE DEF I
        <3> QED BY <1>2, <2>1, SumKept
    <2> QED BY <1>1, <2>2, <2>3, <2>4
<1> QED BY <1>3, <1>4

LEMMA NothingLanded ==
    ASSUME Init
    PROVE  \A b \in Bin, p \in Product : IntoBin(b, p) = {}
BY DEF Init, IntoBin

(* Whatever requests overlap, abort or lose an update, the stock of a bin  *)
(* and product is what its receipts brought: receiveItem's increment and   *)
(* its insert commit together.                                             *)
THEOREM StockIsReceipts == Spec => []BalanceIsLanded
<1>1. ASSUME Init PROVE BalanceIsLanded
    <2>1. \A b \in Bin, p \in Product : Landed(IntoBin(b, p)) = 0
        BY <1>1, NothingLanded, SumEmpty DEF Landed
    <2> QED BY <1>1, <2>1 DEF Init, BalanceIsLanded
<1>2. TypeOK /\ BalanceIsLanded /\ [Next]_vars => BalanceIsLanded'
    BY BalanceStep
<1> QED BY <1>1, <1>2, TypeCorrect, PTL DEF Spec

-----------------------------------------------------------------------------
(* Nothing lands on a line but by the receives of its ASN.                 *)
LEMMA LineStep ==
    ASSUME TypeOK, Isolation, RowIsLanded, [Next]_vars
    PROVE  RowIsLanded'
<1> SUFFICES ASSUME NEW a \in Asn, a \notin raced', NEW p \in Product, Live(a, p)'
             PROVE  items'[a][p].rcv = SumFunctionOnSet(Qty(receipts'), OnLine(a, p)')
    BY DEF RowIsLanded, Landed, Qty
<1> DEFINE I == OnLine(a, p)
<1>0. a \notin raced
    BY RacedGrows
<1>1. Live(a, p) => items[a][p].rcv = SumFunctionOnSet(Qty(receipts), I)
    BY <1>0, LandedIsSum DEF RowIsLanded
<1>2. I \in SUBSET DOMAIN receipts /\ receipts \in Seq(Receipt)
    BY DEF OnLine, TypeOK
<1>3. ASSUME NEW r \in Req, ReceiveCommit(r)
      PROVE  items'[a][p].rcv = SumFunctionOnSet(Qty(receipts'), OnLine(a, p)')
    <2>1. /\ receipts' = Append(receipts, Booked(r)) /\ Booked(r) \in Receipt
          /\ DOMAIN receipts' = DOMAIN receipts \cup {Len(receipts) + 1}
          /\ receipts'[Len(receipts) + 1] = Booked(r)
          /\ \A i \in DOMAIN receipts : receipts'[i] = receipts[i]
        BY <1>3, BookedAppended
    <2>2. /\ Booked(r).asn = req[r].asn /\ Booked(r).prod = req[r].prod
          /\ Booked(r).gen = req[r].row.gen /\ Booked(r).qty = req[r].qty
        BY DEF Booked
    <2>3. /\ req[r].asn \in Asn /\ req[r].prod \in Product /\ InFlight(r) /\ Receives(r)
          /\ items[req[r].asn][req[r].prod].gen = req[r].row.gen
          /\ items'[a][p].gen = items[a][p].gen
          /\ items'[req[r].asn][req[r].prod].rcv = NewRcv(r)
          /\ req[r].asn # a \/ req[r].prod # p => items'[a][p] = items[a][p]
        BY <1>3, CommitFacts DEF Isolation
    <2>4. Live(a, p)
        BY <2>3 DEF Live
    <2>5. CASE req[r].asn = a /\ req[r].prod = p
        <3>1. items[a][p] = req[r].row
            BY <1>0, <2>3, <2>5 DEF Isolation, ChecksHoldUnlessRaced, CheckHolds
        <3>2. items'[a][p].rcv = items[a][p].rcv + req[r].qty
            BY <2>3, <2>5, <3>1 DEF NewRcv
        <3>3. OnLine(a, p)' = I \cup {Len(receipts) + 1}
            BY <2>1, <2>2, <2>3, <2>5 DEF OnLine
        <3> HIDE DEF I
        <3> QED BY <1>1, <1>2, <2>1, <2>2, <2>4, <3>2, <3>3, SumAppended
    <2>6. CASE ~(req[r].asn = a /\ req[r].prod = p)
        <3>1. OnLine(a, p)' = I
            BY <2>1, <2>2, <2>3, <2>6 DEF OnLine
        <3> HIDE DEF I
        <3> QED BY <1>1, <1>2, <2>1, <2>3, <2>4, <2>6, <3>1, SumAppended
    <2> QED BY <2>5, <2>6
<1>4. CASE \A r \in Req : ~ReceiveCommit(r)
    <2>1. /\ DOMAIN receipts' = DOMAIN receipts
          /\ \A i \in DOMAIN receipts :
                /\ receipts'[i].asn = receipts[i].asn /\ receipts'[i].prod = receipts[i].prod
                /\ receipts'[i].qty = receipts[i].qty
        BY <1>4, LandedKept
    <2>2. CASE /\ ~HasReceipts(a)
               /\ items'[a][p].rcv = 0 \/ (items'[a][p] = items[a][p] /\ Live(a, p))
        <3>1. I = {} /\ OnLine(a, p)' = {}
            BY <2>1, <2>2 DEF OnLine, HasReceipts
        <3> HIDE DEF I
        <3>2. SumFunctionOnSet(Qty(receipts), I) = 0
              /\ SumFunctionOnSet(Qty(receipts'), OnLine(a, p)') = 0
            BY <3>1, SumEmpty
        <3> QED BY <1>1, <2>2, <3>2
    <2>3. CASE /\ items'[a] = items[a]
               /\ \A i \in DOMAIN receipts : receipts[i].asn = a => receipts'[i] = receipts[i]
        <3>1. OnLine(a, p)' = I /\ Live(a, p)
            BY <2>1, <2>3 DEF OnLine, Live
        <3> HIDE DEF I
        <3> QED BY <1>1, <1>2, <2>1, <2>3, <3>1, SumKept
    <2>4. CASE CreateAsn(a)
        <3>1. ~HasReceipts(a)
            BY <2>4 DEF CreateAsn, Isolation, AbsentIsUntouched
        <3>2. items'[a][p].rcv = 0
            BY <2>4 DEF CreateAsn, NewRows, NoRow, TypeOK
        <3> QED BY <2>2, <3>1, <3>2
    <2>5. ASSUME NEW r \in Req, ItemsCommit(r), req[r].asn = a
          PROVE  items'[a][p].rcv = SumFunctionOnSet(Qty(receipts'), OnLine(a, p)')
        <3>1. ~HasReceipts(a)
            BY <1>0, <2>5, ReplacesUnreceived DEF Isolation
        <3>2. \/ items'[a][p] = items[a][p] /\ items[a][p].gen # 0
              \/ items'[a][p] = NewRows(req[r].lines, lastGen[a] + 1)[p]
            BY <2>5 DEF ItemsCommit, TypeOK
        <3>3. items'[a][p].rcv = 0 \/ (items'[a][p] = items[a][p] /\ Live(a, p))
            BY <3>2 DEF NewRows, NoRow, Live
        <3> QED BY <2>2, <3>1, <3>3
    <2>6. CASE /\ ~CreateAsn(a)
               /\ \A r \in Req : ItemsCommit(r) => req[r].asn # a
        <3>1. items'[a] = items[a]
            <4>1. CASE \A r \in Req : Ends(r) => req[r].asn # a
                BY <2>6, <4>1, OthersUntouched
            <4>2. ASSUME NEW r \in Req, Ends(r), req[r].asn = a
                  PROVE  items' = items
                BY <1>4, <2>6, <4>2 DEF Ends, UpdateWrite, CancelWrite, Abort
            <4> QED BY <4>1, <4>2
        <3>2. \A i \in DOMAIN receipts : receipts[i].asn = a => receipts'[i] = receipts[i]
            BY <1>4, <2>6, ReceiptsStep
        <3> QED BY <2>3, <3>1, <3>2
    <2> QED BY <2>4, <2>5, <2>6
<1> QED BY <1>3, <1>4

(* Where requests on an ASN do not overlap, what its lines say was         *)
(* received is what its receipts brought (receiveItem writes the line an   *)
(* absolute quantity it computed from an earlier read).                    *)
THEOREM LinesAreReceipts == Spec => []RowIsLanded
<1>1. Init => RowIsLanded
    BY DEF Init, RowIsLanded, Live, NoRow
<1>2. TypeOK /\ Isolation /\ RowIsLanded /\ [Next]_vars => RowIsLanded'
    BY LineStep
<1> QED BY <1>1, <1>2, Isolate, PTL DEF Spec
=============================================================================
