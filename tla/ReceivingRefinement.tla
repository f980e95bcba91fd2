------------------------ MODULE ReceivingRefinement ------------------------
(***************************************************************************)
(* The inbound handlers, interleaved statement by statement, implement the *)
(* one-request-per-step life of an ASN: every step of Receiving is, under  *)
(* the mapping of Receiving!Lifecycle, a step of AsnLifecycle or none.     *)
(***************************************************************************)
EXTENDS ReceivingProofs

(* The refinement mapping, as Lifecycle substitutes it.                    *)
State == [a \in Asn |-> IF a \in raced THEN "RACED" ELSE status[a]]
Named == [a \in Asn |-> IF a \in raced THEN {} ELSE {p \in Product : Live(a, p)}]
Left == [a \in Asn |-> [p \in Product |->
            IF a \in raced THEN 0 ELSE items[a][p].exp - items[a][p].rcv]]
Taken == [a \in Asn |-> a \notin raced /\ HasReceipts(a)]

(* No line, no quantities: updateAsnItems leaves no row half deleted.      *)
BlankRows == \A a \in Asn, p \in Product : Live(a, p) \/ items[a][p] = NoRow

LEMMA BlankStep ==
    ASSUME TypeOK, Isolation, BlankRows, [Next]_vars
    PROVE  BlankRows'
<1> SUFFICES ASSUME NEW a \in Asn, NEW p \in Product
             PROVE  items'[a][p].gen # 0 \/ items'[a][p] = NoRow
    BY DEF BlankRows, Live
<1>0. items[a][p].gen # 0 \/ items[a][p] = NoRow
    BY DEF BlankRows, Live
<1>1. ASSUME NEW b \in Asn, CreateAsn(b)
      PROVE  items'[a][p].gen # 0 \/ items'[a][p] = NoRow
    BY <1>0, <1>1 DEF CreateAsn, NewRows, TypeOK
<1>2. ASSUME NEW r \in Req, ItemsCommit(r)
      PROVE  items'[a][p].gen # 0 \/ items'[a][p] = NoRow
    <2>1. PICK b \in Asn : b = req[r].asn
        BY <1>2, ReqShape DEF ItemsCommit
    <2>2. \/ items'[a][p] = items[a][p]
          \/ items'[a][p] = NewRows(req[r].lines, lastGen[b] + 1)[p]
        BY <1>2, <2>1 DEF ItemsCommit, TypeOK
    <2>3. lastGen[b] \in Nat
        BY DEF TypeOK
    <2> QED BY <1>0, <2>2, <2>3 DEF NewRows
<1>3. ASSUME NEW r \in Req, ReceiveCommit(r)
      PROVE  items'[a][p].gen # 0 \/ items'[a][p] = NoRow
    BY <1>0, <1>3, CommitFacts DEF Isolation
<1>4. CASE UNCHANGED items
    BY <1>0, <1>4
<1> QED
    BY <1>1, <1>2, <1>3, <1>4 DEF Next, vars, UpdateRead, CancelRead, ItemsCheck,
       ReceiveRead, UpdateWrite, CancelWrite, ItemsDelete, ReceiveWrite, Abort, UseOutside

LEMMA BlankHolds == Spec => []BlankRows
<1>1. Init => BlankRows
    BY DEF Init, BlankRows
<1>2. TypeOK /\ Isolation /\ BlankRows /\ [Next]_vars => BlankRows'
    BY BlankStep
<1> QED BY <1>1, <1>2, Isolate, PTL DEF Spec

-----------------------------------------------------------------------------
(* A step that starts no request changes the image of one ASN at most.     *)
OnlyAt(a) == /\ State' = [State EXCEPT ![a] = State'[a]]
             /\ Named' = [Named EXCEPT ![a] = Named'[a]]
             /\ Left' = [Left EXCEPT ![a] = Left'[a]]
             /\ Taken' = [Taken EXCEPT ![a] = Taken'[a]]

Still == UNCHANGED <<State, Named, Left, Taken>>

LEMMA ImageOfOne ==
    ASSUME NEW a \in Asn, raced' = raced,
           \A b \in Asn \ {a} : /\ status'[b] = status[b] /\ items'[b] = items[b]
                                /\ HasReceipts(b)' <=> HasReceipts(b)
    PROVE  OnlyAt(a) /\ (a \in raced => Still)
<1>1. \A b \in Asn \ {a} : /\ State'[b] = State[b] /\ Named'[b] = Named[b]
                           /\ Left'[b] = Left[b] /\ Taken'[b] = Taken[b]
    BY DEF State, Named, Left, Taken, Live
<1>2. OnlyAt(a)
    <2>1. State' = [State EXCEPT ![a] = State'[a]]
        BY <1>1 DEF State
    <2>2. Named' = [Named EXCEPT ![a] = Named'[a]]
        BY <1>1 DEF Named
    <2>3. Left' = [Left EXCEPT ![a] = Left'[a]]
        BY <1>1 DEF Left
    <2>4. Taken' = [Taken EXCEPT ![a] = Taken'[a]]
        BY <1>1 DEF Taken
    <2> QED BY <2>1, <2>2, <2>3, <2>4 DEF OnlyAt
<1>3. ASSUME a \in raced
      PROVE  /\ State'[a] = State[a] /\ Named'[a] = Named[a]
             /\ Left'[a] = Left[a] /\ Taken'[a] = Taken[a]
    BY <1>3 DEF State, Named, Left, Taken
<1>4. a \in raced => Still
    BY <1>1, <1>3 DEF Still, State, Named, Left, Taken
<1> QED BY <1>2, <1>4

LEMMA SameImage ==
    ASSUME UNCHANGED <<status, items, raced>>,
           \A a \in Asn : HasReceipts(a)' <=> HasReceipts(a)
    PROVE  Still
BY DEF Still, State, Named, Left, Taken, Live

(* What each abstract action says of the mapping.                          *)
LEMMA SetLinesIs ==
    ASSUME NEW a
    PROVE  \A lines : Lifecycle!SetLines(a, lines) <=>
           /\ Named' = [Named EXCEPT ![a] = DOMAIN lines]
           /\ Left' = [Left EXCEPT ![a] =
                  [p \in Product |-> IF p \in DOMAIN lines THEN lines[p] ELSE 0]]
BY DEF Lifecycle!SetLines, Named, Left

LEMMA CreateIs ==
    ASSUME NEW a
    PROVE  Lifecycle!Create(a) <=>
           /\ State[a] = "ABSENT"
           /\ \E lines \in Lifecycle!Lines : Lifecycle!SetLines(a, lines)
           /\ State' = [State EXCEPT ![a] = "DRAFT"]
           /\ Taken' = Taken
BY DEF Lifecycle!Create, State, Taken

LEMMA ReplaceIs ==
    ASSUME NEW a
    PROVE  Lifecycle!Replace(a) <=>
           /\ State[a] = "DRAFT" /\ ~Taken[a]
           /\ \E lines \in Lifecycle!Lines : Lifecycle!SetLines(a, lines)
           /\ State' = State /\ Taken' = Taken
BY DEF Lifecycle!Replace, State, Taken

LEMMA SetStatusIs ==
    ASSUME NEW a
    PROVE  Lifecycle!SetStatus(a) <=>
           /\ State[a] \in {"DRAFT", "RECEIVING", "CANCELLED"}
           /\ \E st \in AsnStatus : State' = [State EXCEPT ![a] = st]
           /\ Named' = Named /\ Left' = Left /\ Taken' = Taken
BY DEF Lifecycle!SetStatus, AsnStatus, State, Named, Left, Taken

LEMMA BookIs ==
    ASSUME NEW a
    PROVE  Lifecycle!Book(a) <=>
           /\ State[a] \in {"DRAFT", "RECEIVING"}
           /\ \E p \in Named[a] : \E q \in 1..Left[a][p] :
                  Left' = [Left EXCEPT ![a][p] = @ - q]
           /\ State' = [State EXCEPT ![a] =
                  IF Left'[a] = Lifecycle!Nothing THEN "COMPLETED" ELSE "RECEIVING"]
           /\ Taken' = [Taken EXCEPT ![a] = TRUE]
           /\ Named' = Named
BY Zenon DEF Lifecycle!Book, State, Named, Left, Taken

LEMMA RaceIs ==
    ASSUME NEW a
    PROVE  Lifecycle!Race(a) <=>
           /\ State[a] \notin {"ABSENT", "RACED"}
           /\ State' = [State EXCEPT ![a] = "RACED"]
           /\ Named' = [Named EXCEPT ![a] = {}]
           /\ Left' = [Left EXCEPT ![a] = Lifecycle!Nothing]
           /\ Taken' = [Taken EXCEPT ![a] = FALSE]
BY DEF Lifecycle!Race, State, Named, Left, Taken

(* Fresh rows of a set of lines name those lines, with all still to come.  *)
LEMMA LinesAsRows ==
    ASSUME NEW lines \in Lines, NEW g \in Nat \ {0}
    PROVE  /\ {p \in Product : NewRows(lines, g)[p].gen # 0} = DOMAIN lines
           /\ [p \in Product |-> NewRows(lines, g)[p].exp - NewRows(lines, g)[p].rcv]
                  = [p \in Product |-> IF p \in DOMAIN lines THEN lines[p] ELSE 0]
<1>1. PICK S \in SUBSET Product : lines \in [S -> ExpectedQty]
    BY DEF Lines
<1>2. \A p \in DOMAIN lines : lines[p] \in Int /\ p \in Product
    BY <1>1, ReceivingAssumption
<1>3. ASSUME NEW p \in Product
      PROVE  /\ NewRows(lines, g)[p].gen # 0 <=> p \in DOMAIN lines
             /\ NewRows(lines, g)[p].exp - NewRows(lines, g)[p].rcv
                    = IF p \in DOMAIN lines THEN lines[p] ELSE 0
    BY <1>2 DEF NewRows, NoRow
<1> QED BY <1>2, <1>3

(* The abstract actions, in terms of the mapping.                          *)
AbsNext == \/ \E a \in Asn : Lifecycle!Create(a)
           \/ \E a \in Asn : Lifecycle!Replace(a)
           \/ \E a \in Asn : Lifecycle!Book(a)
           \/ \E a \in Asn : Lifecycle!SetStatus(a)
           \/ \E a \in Asn : Lifecycle!Race(a)
           \/ Still

LEMMA AbsNextIsNext == AbsNext => [Lifecycle!Next]_Lifecycle!vars
BY DEF AbsNext, Lifecycle!Next, Lifecycle!vars, Still, State, Named, Left, Taken

-----------------------------------------------------------------------------
(* An end of a request, or a creation, works on one ASN.                   *)
LEMMA EndsWorkOnOne ==
    ASSUME TypeOK, NEW r \in Req, Ends(r), [Next]_vars, NEW a \in Asn, a = req[r].asn
    PROVE  /\ InFlight(r) /\ raced' = raced
           /\ OnlyAt(a) /\ (a \in raced => Still)
<1>1. /\ InFlight(r) /\ ~InFlight(r)' /\ raced' = raced
      /\ \A s \in Req \ {r} : req'[s] = req[s]
    BY EndFacts
<1>2. \A b \in Asn : ~CreateAsn(b)
    BY <1>1 DEF CreateAsn, InFlight
<1>3. \A s \in Req : Ends(s) => s = r
    BY <1>1, EndFacts DEF InFlight
<1>4. \A b \in Asn \ {a} : /\ status'[b] = status[b] /\ items'[b] = items[b]
                           /\ HasReceipts(b)' <=> HasReceipts(b)
    BY <1>2, <1>3, OthersUntouched
<1> QED BY <1>1, <1>4, ImageOfOne

LEMMA CreateMaps ==
    ASSUME TypeOK, Isolation, [Next]_vars, NEW a \in Asn, CreateAsn(a)
    PROVE  AbsNext
<1>1. PICK lines \in Lines : items' = [items EXCEPT ![a] = NewRows(lines, 1)]
    BY DEF CreateAsn
<1>2. /\ status[a] = "ABSENT" /\ status'[a] = "DRAFT" /\ ~HasReceipts(a)
      /\ \A b \in Asn \ {a} : status'[b] = status[b] /\ items'[b] = items[b]
      /\ UNCHANGED <<receipts, raced>>
    BY DEF CreateAsn, TypeOK, Isolation, AbsentIsUntouched
<1>3. \A b \in Asn : HasReceipts(b)' <=> HasReceipts(b)
    BY <1>2 DEF HasReceipts
<1>4. OnlyAt(a) /\ (a \in raced => Still)
    BY <1>2, <1>3, ImageOfOne
<1>5. CASE a \notin raced
    <2>1. State[a] = "ABSENT" /\ State'[a] = "DRAFT" /\ Taken'[a] = Taken[a]
        BY <1>2, <1>3, <1>5 DEF State, Taken
    <2>2. items'[a] = NewRows(lines, 1)
        BY <1>1 DEF TypeOK
    <2>3. /\ Named'[a] = DOMAIN lines
          /\ Left'[a] = [p \in Product |-> IF p \in DOMAIN lines THEN lines[p] ELSE 0]
        BY <1>2, <1>5, <2>2, LinesAsRows DEF Named, Left, Live
    <2>4. lines \in Lifecycle!Lines
        BY DEF Lines, Lifecycle!Lines
    <2>5. Lifecycle!Create(a)
        <3>1. /\ State' = [State EXCEPT ![a] = "DRAFT"]
              /\ Named' = [Named EXCEPT ![a] = DOMAIN lines]
              /\ Left' = [Left EXCEPT ![a] =
                     [p \in Product |-> IF p \in DOMAIN lines THEN lines[p] ELSE 0]]
            BY <1>4, <2>1, <2>3 DEF OnlyAt
        <3>2. Taken' = Taken
            BY <1>4, <2>1 DEF OnlyAt, Taken
        <3>3. Lifecycle!SetLines(a, lines)
            BY <3>1, SetLinesIs
        <3> QED BY <2>1, <2>4, <3>1, <3>2, <3>3, CreateIs
    <2> QED BY <2>5 DEF AbsNext
<1> QED BY <1>4, <1>5 DEF AbsNext

LEMMA ReadMaps ==
    ASSUME TypeOK, NEW r \in Req, NEW a \in Asn, Reads(r, a)
    PROVE  AbsNext
<1>1. /\ status[a] # "ABSENT" /\ UNCHANGED <<status, items, receipts>>
      /\ raced' = raced \cup {x \in Uses(r)' : \E s \in Req \ {r} : x \in Uses(s)}
      /\ req'[r].asn = a
    BY ReadFacts DEF Starts
<1>2. Uses(r)' \cap Asn \subseteq {a}
    <2>1. CASE ReceiveRead(r, a)
        BY <2>1, ReceivingAssumption DEF ReceiveRead, Uses, Receives, InFlight, TypeOK
    <2>2. CASE UpdateRead(r, a) \/ CancelRead(r, a) \/ ItemsCheck(r, a)
        BY <2>2 DEF UpdateRead, CancelRead, ItemsCheck, Uses, Receives, InFlight, TypeOK
    <2> QED BY <2>1, <2>2 DEF Reads
<1>3. \A b \in Asn : HasReceipts(b)' <=> HasReceipts(b)
    BY <1>1 DEF HasReceipts
<1>4. \A b \in Asn \ {a} : b \in raced' <=> b \in raced
    BY <1>1, <1>2
<1>5. CASE a \in raced' <=> a \in raced
    <2>1. \A b \in Asn : b \in raced' <=> b \in raced
        BY <1>4, <1>5
    <2>2. Still
        BY <1>1, <1>3, <2>1 DEF Still, State, Named, Left, Taken, Live
    <2> QED BY <2>2 DEF AbsNext
<1>6. CASE a \in raced' /\ a \notin raced
    <2>1. State[a] \notin {"ABSENT", "RACED"}
        BY <1>1, <1>6 DEF State, TypeOK, AsnStatus
    <2>2. State' = [State EXCEPT ![a] = "RACED"]
        BY <1>1, <1>4, <1>6 DEF State
    <2>3. Named' = [Named EXCEPT ![a] = {}]
        BY <1>1, <1>4, <1>6 DEF Named, Live
    <2>4. Left' = [Left EXCEPT ![a] = Lifecycle!Nothing]
        BY <1>1, <1>4, <1>6 DEF Left, Lifecycle!Nothing
    <2>5. Taken' = [Taken EXCEPT ![a] = FALSE]
        BY <1>3, <1>4, <1>6 DEF Taken
    <2> QED BY <2>1, <2>2, <2>3, <2>4, <2>5, RaceIs DEF AbsNext
<1> QED BY <1>1, <1>5, <1>6

(* The two writes of a status.                                             *)
LEMMA StatusMaps ==
    ASSUME TypeOK, Isolation, [Next]_vars, NEW r \in Req, UpdateWrite(r) \/ CancelWrite(r)
    PROVE  AbsNext
<1>1. PICK a \in Asn : a = req[r].asn
    BY EndFacts DEF Ends
<1>2. /\ InFlight(r) /\ raced' = raced /\ OnlyAt(a) /\ (a \in raced => Still)
    BY <1>1, EndsWorkOnOne DEF Ends
<1>3. UNCHANGED <<items, receipts>>
    BY DEF UpdateWrite, CancelWrite
<1>4. PICK st \in AsnStatus : status' = [status EXCEPT ![a] = st]
    <2>1. CASE UpdateWrite(r)
        BY <1>1, <2>1, ReqFields DEF UpdateWrite
    <2>2. CASE CancelWrite(r)
        BY <1>1, <2>2 DEF CancelWrite, AsnStatus
    <2> QED BY <2>1, <2>2
<1>5. CASE a \notin raced
    <2>1. CheckHolds(r) /\ status[a] # "ABSENT"
        BY <1>1, <1>2, <1>5 DEF Isolation, ChecksHoldUnlessRaced, AbsentIsUntouched
    <2>2. status[a] = "COMPLETED" => st = "COMPLETED"
        <3>1. CASE UpdateWrite(r)
            <4>1. st = req[r].status
                BY <1>1, <1>4, <3>1 DEF UpdateWrite, TypeOK
            <4> QED BY <1>1, <2>1, <3>1, <4>1 DEF CheckHolds, MayBecome, UpdateWrite
        <3>2. CASE CancelWrite(r)
            BY <1>1, <2>1, <3>2 DEF CheckHolds, CancelWrite
        <3> QED BY <3>1, <3>2
    <2>3. /\ Named' = Named /\ Left' = Left /\ Taken' = Taken
          /\ State' = [State EXCEPT ![a] = st]
        <3>1. Named' = Named /\ Left' = Left
            BY <1>2, <1>3 DEF Named, Left, Live
        <3>2. Taken' = Taken
            BY <1>2, <1>3 DEF Taken, HasReceipts
        <3>3. State'[a] = st
            BY <1>2, <1>4, <1>5 DEF State, TypeOK
        <3> QED BY <1>2, <3>1, <3>2, <3>3 DEF OnlyAt
    <2>4. CASE status[a] = "COMPLETED"
        <3>1. State' = State
            BY <1>5, <2>2, <2>3, <2>4 DEF State
        <3> QED BY <2>3, <3>1 DEF AbsNext, Still
    <2>5. CASE status[a] # "COMPLETED"
        <3>1. State[a] \in {"DRAFT", "RECEIVING", "CANCELLED"}
            BY <1>5, <2>1, <2>5 DEF State, TypeOK, AsnStatus
        <3> QED BY <2>3, <3>1, SetStatusIs DEF AbsNext
    <2> QED BY <2>4, <2>5
<1> QED BY <1>2, <1>5 DEF AbsNext

LEMMA ReplaceMaps ==
    ASSUME TypeOK, Isolation, [Next]_vars, NEW r \in Req, ItemsCommit(r)
    PROVE  AbsNext
<1>1. PICK a \in Asn : a = req[r].asn
    BY EndFacts DEF Ends
<1>2. /\ InFlight(r) /\ raced' = raced /\ OnlyAt(a) /\ (a \in raced => Still)
    BY <1>1, EndsWorkOnOne DEF Ends
<1>3. PICK lines \in Lines : lines = req[r].lines
    BY ReqFields DEF ItemsCommit
<1>4. CASE a \notin raced
    <2>1. /\ status[a] = "DRAFT" /\ ~HasReceipts(a)
          /\ \A p \in Product : req[r].seen[p] = items[a][p].gen
        BY <1>1, <1>2, <1>4 DEF Isolation, ChecksHoldUnlessRaced, CheckHolds, ItemsCommit
    <2>2. lastGen[a] + 1 \in Nat \ {0}
        BY DEF TypeOK
    <2>3. items'[a] = NewRows(lines, lastGen[a] + 1)
        <3>1. items'[a] = [p \in Product |-> NewRows(lines, lastGen[a] + 1)[p]]
            BY <1>1, <1>3, <2>1 DEF ItemsCommit, TypeOK
        <3> QED BY <3>1 DEF NewRows
    <2>4. /\ Named'[a] = DOMAIN lines
          /\ Left'[a] = [p \in Product |-> IF p \in DOMAIN lines THEN lines[p] ELSE 0]
        <3>1. Named'[a] = {p \in Product : NewRows(lines, lastGen[a] + 1)[p].gen # 0}
            BY <1>2, <1>4, <2>3 DEF Named, Live
        <3>2. Left'[a] = [p \in Product |-> NewRows(lines, lastGen[a] + 1)[p].exp
                                            - NewRows(lines, lastGen[a] + 1)[p].rcv]
            BY <1>2, <1>4, <2>3 DEF Left
        <3> QED BY <2>2, <3>1, <3>2, LinesAsRows
    <2>5. State'[a] = State[a] /\ State[a] = "DRAFT"
        BY <1>1, <1>2, <1>4, <2>1 DEF State, ItemsCommit
    <2>6. Taken'[a] = FALSE /\ Taken[a] = FALSE
        <3>1. ~HasReceipts(a)'
            <4>1. DOMAIN receipts' = DOMAIN receipts
                BY DEF ItemsCommit
            <4>2. \A i \in DOMAIN receipts : receipts[i].asn # a => receipts'[i] = receipts[i]
                BY <1>1 DEF ItemsCommit
            <4> QED BY <2>1, <4>1, <4>2 DEF HasReceipts
        <3> QED BY <1>4, <2>1, <3>1 DEF Taken
    <2>7. Lifecycle!SetLines(a, lines)
        BY <1>2, <2>4, SetLinesIs DEF OnlyAt
    <2>8. State' = State /\ Taken' = Taken
        BY <1>2, <2>5, <2>6 DEF OnlyAt, State, Taken
    <2>9. lines \in Lifecycle!Lines
        BY DEF Lines, Lifecycle!Lines
    <2> QED BY <2>5, <2>6, <2>7, <2>8, <2>9, ReplaceIs DEF AbsNext
<1> QED BY <1>2, <1>4 DEF AbsNext

LEMMA BookMaps ==
    ASSUME TypeOK, Isolation, BlankRows, BlankRows', [Next]_vars,
           NEW r \in Req, ReceiveCommit(r)
    PROVE  AbsNext
<1>1. PICK a \in Asn : a = req[r].asn
    BY EndFacts DEF Ends
<1>2. /\ InFlight(r) /\ raced' = raced /\ OnlyAt(a) /\ (a \in raced => Still)
    BY <1>1, EndsWorkOnOne DEF Ends
<1>3. PICK p \in Product : p = req[r].prod
    BY ReqFields DEF ReceiveCommit
<1>4. /\ items[a][p].gen # 0 /\ items'[a][p].gen = items[a][p].gen
      /\ items'[a][p].exp = items[a][p].exp /\ items'[a][p].rcv = NewRcv(r)
      /\ \A x \in Product : x # p => items'[a][x] = items[a][x]
    BY <1>1, <1>3, CommitFacts DEF Isolation
<1>5. \A x \in Product : /\ items[a][x] \in ItemRow /\ items[a][x].exp \in Int
                         /\ items[a][x].rcv \in Nat
    BY DEF TypeOK, ItemRow
<1>6. CASE a \notin raced
    <2> DEFINE q == req[r].qty
    <2>1. /\ Receivable(status[a]) /\ items[a][p] = req[r].row
          /\ req[r].allDone = AllDone(r)
        BY <1>1, <1>2, <1>3, <1>6
           DEF Isolation, ChecksHoldUnlessRaced, CheckHolds, ReceiveCommit, Receives
    <2>2. q \in Nat \ {0} /\ items[a][p].rcv + q <= items[a][p].exp
        BY <2>1, ReqFields DEF Isolation, GenIdentifiesRow, WithinExpected, ReceiveCommit, Receives
    <2>3. items'[a][p].rcv = items[a][p].rcv + q
        BY <1>4, <2>1 DEF NewRcv
    <2>4. State[a] \in {"DRAFT", "RECEIVING"}
        BY <1>6, <2>1 DEF State, Receivable, TypeOK, AsnStatus
    <2>5. Left[a] = [x \in Product |-> items[a][x].exp - items[a][x].rcv]
          /\ Left'[a] = [x \in Product |-> items'[a][x].exp - items'[a][x].rcv]
        BY <1>2, <1>6 DEF Left
    <2>6. p \in Named[a] /\ q \in 1..Left[a][p]
        BY <1>4, <1>5, <1>6, <2>2, <2>5 DEF Named, Live
    <2>7. Left'[a] = [Left[a] EXCEPT ![p] = @ - q]
        BY <1>4, <1>5, <2>2, <2>3, <2>5
    <2>8. Left' = [Left EXCEPT ![a][p] = @ - q]
        BY <1>2, <2>7 DEF OnlyAt
    <2>9. Named' = Named
        <3>1. Named'[a] = Named[a]
            BY <1>2, <1>4, <1>6 DEF Named, Live
        <3> QED BY <1>2, <3>1 DEF OnlyAt, Named
    <2>10. Taken' = [Taken EXCEPT ![a] = TRUE]
        <3>1. HasReceipts(a)'
            <4>1. /\ DOMAIN receipts' = DOMAIN receipts \cup {Len(receipts) + 1}
                  /\ receipts'[Len(receipts) + 1] = Booked(r)
                BY BookedAppended
            <4>2. Booked(r).asn = a
                BY <1>1 DEF Booked
            <4> QED BY <4>1, <4>2 DEF HasReceipts
        <3> QED BY <1>2, <1>6, <3>1 DEF OnlyAt, Taken
    <2>11. Left'[a] = Lifecycle!Nothing <=> req[r].allDone
        <3>1. AllDone(r) <=> \A x \in Product :
                                items[a][x].gen # 0 => items'[a][x].rcv = items'[a][x].exp
            BY <1>1, <1>3, <1>4 DEF AllDone
        <3>2. \A x \in Product : items[a][x].gen = 0 => items'[a][x].exp - items'[a][x].rcv = 0
            BY <1>4 DEF BlankRows, Live, NoRow
        <3>3. \A x \in Product : /\ items'[a][x].exp \in Int /\ items'[a][x].rcv \in Int
            BY <1>4, <1>5, <2>2, <2>3
        <3>4. AllDone(r) <=> \A x \in Product : items'[a][x].exp - items'[a][x].rcv = 0
            <4>1. \A x \in Product : items'[a][x].exp - items'[a][x].rcv = 0
                                        <=> items'[a][x].rcv = items'[a][x].exp
                BY <3>3
            <4> QED BY <3>1, <3>2, <4>1
        <3>5. Left'[a] = Lifecycle!Nothing <=> \A x \in Product : Left'[a][x] = 0
            BY <2>5 DEF Lifecycle!Nothing
        <3> QED BY <2>1, <2>5, <3>4, <3>5
    <2>12. State' = [State EXCEPT ![a] =
                        IF Left'[a] = Lifecycle!Nothing THEN "COMPLETED" ELSE "RECEIVING"]
        <3>1. State'[a] = IF req[r].allDone THEN "COMPLETED" ELSE "RECEIVING"
            BY <1>1, <1>2, <1>6 DEF State, ReceiveCommit, TypeOK
        <3> QED BY <1>2, <2>11, <3>1 DEF OnlyAt
    <2> HIDE DEF q
    <2> QED BY <2>4, <2>6, <2>8, <2>9, <2>10, <2>12, BookIs DEF AbsNext
<1> QED BY <1>2, <1>6 DEF AbsNext

-----------------------------------------------------------------------------
LEMMA StepMaps ==
    ASSUME TypeOK, Isolation, BlankRows, BlankRows', [Next]_vars
    PROVE  AbsNext
<1>1. ASSUME UNCHANGED <<status, items, receipts, raced>>
      PROVE  AbsNext
    <2>1. \A a \in Asn : HasReceipts(a)' <=> HasReceipts(a)
        BY <1>1 DEF HasReceipts
    <2>2. Still
        BY <1>1, <2>1, SameImage
    <2> QED BY <2>2 DEF AbsNext
<1>2. CASE \E r \in Req : Ends(r)
    BY <1>1, <1>2, StatusMaps, ReplaceMaps, BookMaps DEF Ends, Abort
<1>3. CASE \E r \in Req : Continues(r)
    BY <1>1, <1>3, ContinueFacts
<1>4. CASE UNCHANGED handled
    BY <1>1, <1>4 DEF handled
<1> QED BY <1>2, <1>3, <1>4, CreateMaps, ReadMaps, NextCases

(* Leaving aside the ASNs on which requests overlapped, the handlers of    *)
(* InboundService, cut at every statement, implement the life of an ASN    *)
(* one whole request at a time.                                            *)
THEOREM LifecycleImplemented == Spec => ImplementsLifecycle
<1>1. ASSUME Init PROVE Lifecycle!Init
    <2>1. \A a \in Asn : ~HasReceipts(a) /\ a \notin raced
        BY <1>1 DEF Init, HasReceipts
    <2>2. State = [a \in Asn |-> "ABSENT"] /\ Taken = [a \in Asn |-> FALSE]
        BY <1>1, <2>1 DEF Init, State, Taken
    <2>3. Named = [a \in Asn |-> {}] /\ Left = [a \in Asn |-> Lifecycle!Nothing]
        BY <1>1, <2>1 DEF Init, Named, Left, Lifecycle!Nothing, Live, NoRow
    <2> QED BY <2>2, <2>3 DEF Lifecycle!Init, State, Named, Left, Taken
<1>2. TypeOK /\ Isolation /\ BlankRows /\ BlankRows' /\ [Next]_vars
          => [Lifecycle!Next]_Lifecycle!vars
    BY StepMaps, AbsNextIsNext
<1> QED BY <1>1, <1>2, Isolate, BlankHolds, PTL DEF Spec, ImplementsLifecycle, Lifecycle!Spec
============================================================================
