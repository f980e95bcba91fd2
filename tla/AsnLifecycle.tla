---------------------------- MODULE AsnLifecycle ----------------------------
(***************************************************************************)
(* What the inbound handlers promise about an ASN, one whole request per   *)
(* step: lines are written while it is a draft on which nothing was        *)
(* booked, receiving takes from what is left of a line and closes the ASN  *)
(* with the last of it, and a completed ASN stays completed.  The promise  *)
(* is void for an ASN on which requests overlapped ("RACED").              *)
(***************************************************************************)
EXTENDS Integers

CONSTANTS Asn, Product, ExpectedQty

VARIABLES
    state,  \* the ASN's status, "ABSENT" before it is created, or "RACED"
    named,  \* the products its lines name
    left,   \* what is still expected of each product (0 if not named)
    booked  \* whether anything was received on it

vars == <<state, named, left, booked>>

Lines == UNION {[S -> ExpectedQty] : S \in SUBSET Product \ {{}}}

Nothing == [p \in Product |-> 0]

Init ==
    /\ state = [a \in Asn |-> "ABSENT"]
    /\ named = [a \in Asn |-> {}]
    /\ left = [a \in Asn |-> Nothing]
    /\ booked = [a \in Asn |-> FALSE]

SetLines(a, lines) ==
    /\ named' = [named EXCEPT ![a] = DOMAIN lines]
    /\ left' = [left EXCEPT ![a] =
                   [p \in Product |-> IF p \in DOMAIN lines THEN lines[p] ELSE 0]]

Create(a) ==
    /\ state[a] = "ABSENT"
    /\ \E lines \in Lines : SetLines(a, lines)
    /\ state' = [state EXCEPT ![a] = "DRAFT"]
    /\ UNCHANGED booked

Replace(a) ==
    /\ state[a] = "DRAFT"
    /\ ~booked[a]
    /\ \E lines \in Lines : SetLines(a, lines)
    /\ UNCHANGED <<state, booked>>

Book(a) ==
    /\ state[a] \in {"DRAFT", "RECEIVING"}
    /\ \E p \in named[a] : \E q \in 1..left[a][p] :
          left' = [left EXCEPT ![a][p] = @ - q]
    /\ state' = [state EXCEPT ![a] =
                    IF left'[a] = Nothing THEN "COMPLETED" ELSE "RECEIVING"]
    /\ booked' = [booked EXCEPT ![a] = TRUE]
    /\ UNCHANGED named

SetStatus(a) ==
    /\ state[a] \in {"DRAFT", "RECEIVING", "CANCELLED"}
    /\ \E st \in {"DRAFT", "RECEIVING", "COMPLETED", "CANCELLED"} :
          state' = [state EXCEPT ![a] = st]
    /\ UNCHANGED <<named, left, booked>>

Race(a) ==
    /\ state[a] \notin {"ABSENT", "RACED"}
    /\ state' = [state EXCEPT ![a] = "RACED"]
    /\ named' = [named EXCEPT ![a] = {}]
    /\ left' = [left EXCEPT ![a] = Nothing]
    /\ booked' = [booked EXCEPT ![a] = FALSE]

Next == \E a \in Asn :
    Create(a) \/ Replace(a) \/ Book(a) \/ SetStatus(a) \/ Race(a)

Spec == Init /\ [][Next]_vars
=============================================================================
