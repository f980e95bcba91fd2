----------------------------- MODULE StockMoves -----------------------------
(***************************************************************************)
(* Stock moved by internal transfers and material transformations, while   *)
(* receipts land, customs clears them and operators set balances by hand.  *)
(* Sources: src/src/modules/process-flow/process-flow.service.ts           *)
(* (createTransfer, completeTransfer, createTransformation,                *)
(* completeTransformation, postDraftProcessFlowBilling),                   *)
(* src/src/common/inventory/transit-customs-available.util.ts and          *)
(* upsertInventoryBalance of master-data.service.ts.                       *)
(*                                                                         *)
(* A completion is one transaction that runs the job's script: for every   *)
(* quantity taken it reads the balance, the warehouse's hub flag and, at a *)
(* hub, what customs holds, checks, and decrements; every quantity put is  *)
(* an increment.  It sees its own writes and what others have committed,   *)
(* and holds the rows it wrote until it ends.                              *)
(***************************************************************************)
EXTENDS Integers, Sequences, FiniteSets, Functions

CONSTANTS
    Req,          \* request slots
    Transfer,     \* ids of internal transfers
    Transform,    \* ids of material transformations
    Product, Bin, Warehouse,
    WarehouseOf,  \* the warehouse of each bin
    Qty,          \* quantities a line, an output or a receipt may carry
    SetQty,       \* quantities an operator may set; the DTO sets no minimum
    MaxLines,     \* bound: lines of a transfer, inputs of a transformation
    MaxReceipts   \* bound: receipts ever booked

ASSUME StockMovesAssumption ==
    /\ Transfer \cap Transform = {}
    /\ IsFiniteSet(Transfer \cup Transform)
    /\ IsFiniteSet(Bin)
    /\ WarehouseOf \in [Bin -> Warehouse]
    /\ Qty \subseteq Nat \ {0}
    /\ SetQty \subseteq Int
    /\ MaxLines \in Nat \ {0}
    /\ MaxReceipts \in Nat

Job == Transfer \cup Transform
Cell == Bin \X Product

VARIABLES
    balance,  \* inventory_balances.qty_on_hand
    hub,      \* the warehouses whose is_transit_import_hub is set
    receipts, \* inbound_receipts: cell, quantity, whether customs holds it
    job,      \* internal_transfers and material_transformations
    bills,    \* quantity on the billing rows of a job, draft and posted
    req,      \* completions in flight
    adjusted, \* history: what operators' settings added to each balance
    lifted,   \* history: cells of which a move took with the hub flag off
              \* while customs held something there
    raced     \* history: jobs and cells whose checks may have been overtaken

vars == <<balance, hub, receipts, job, bills, req, adjusted, lifted, raced>>

(* A statement of a completion: a quantity taken from a cell, or put there.*)
Statement == [op : {"take", "put"}, cell : Cell, qty : Qty]
Script == Seq(Statement)

NoJob == [status |-> "ABSENT", script |-> <<>>]
Idle == [at |-> "idle"]

(* rows: the balances this transaction has written and holds; own: by how  *)
(* much it changed each.                                                   *)
Completion == [at : {"next", "balance", "hub", "checked"}, job : Job, pc : Nat \ {0},
               seen : Int, rows : SUBSET Cell, own : [Cell -> Int]]

TypeOK ==
    /\ balance \in [Cell -> Int]
    /\ hub \subseteq Warehouse
    /\ receipts \in Seq([cell : Cell, qty : Qty, held : BOOLEAN])
    /\ job \in [Job -> [status : {"ABSENT", "DRAFT", "COMPLETED"}, script : Script]]
    /\ bills \in [Job -> [draft : Nat, posted : Nat]]
    /\ req \in [Req -> {Idle} \cup Completion]
    /\ adjusted \in [Cell -> Int]
    /\ lifted \subseteq Cell
    /\ raced \subseteq Job \cup Cell

-----------------------------------------------------------------------------
InFlight(r) == req[r] # Idle
Finish(r) == req' = [req EXCEPT ![r] = Idle]

(* The statement request r is at.                                          *)
Running(r) == InFlight(r) /\ req[r].pc <= Len(job[req[r].job].script)
Current(r) == job[req[r].job].script[req[r].pc]

Takes(j) == {job[j].script[i].cell : i \in {i \in DOMAIN job[j].script :
                                              job[j].script[i].op = "take"}}

(* What a completion checks: that its job is a draft, and the stock of the *)
(* cells it takes from.                                                    *)
Uses(r) == IF InFlight(r) THEN {req[r].job} \cup Takes(req[r].job) ELSE {}

Holds(r, c) == InFlight(r) /\ c \in req[r].rows
Free(r, c) == \A s \in Req \ {r} : ~Holds(s, c)

(* Request r's statement changes the row of cell c by d and holds it.      *)
Writes(r, c, d) ==
    /\ Free(r, c)
    /\ req' = [req EXCEPT ![r].at = "next", ![r].pc = @ + 1, ![r].seen = 0,
                          ![r].rows = @ \cup {c}, ![r].own[c] = @ + d]

(* What the receipts I brought; the receipts into cell c.                  *)
Landed(I) == SumFunctionOnSet([i \in DOMAIN receipts |-> receipts[i].qty], I)
Into(c) == {i \in DOMAIN receipts : receipts[i].cell = c}

IsHub(c) == WarehouseOf[c[1]] \in hub

(* What customs holds of cell c, whatever the flag says now.               *)
Held(c) == Landed({i \in Into(c) : receipts[i].held})

(* effectiveQtyOnHandAfterCustomsHold.                                     *)
(* Mutated form: the hold forgotten.                                       *)
AvailableOnHand(onHand, held) == onHand
Available(onHand, held) == IF onHand > held THEN onHand - held ELSE 0

-----------------------------------------------------------------------------
Init ==
    /\ balance = [c \in Cell |-> 0]
    /\ hub \in SUBSET Warehouse
    /\ receipts = <<>>
    /\ job = [j \in Job |-> NoJob]
    /\ bills = [j \in Job |-> [draft |-> 0, posted |-> 0]]
    /\ req = [r \in Req |-> Idle]
    /\ adjusted = [c \in Cell |-> 0]
    /\ lifted = {}
    /\ raced = {}

SeqsUpTo(S, n) == UNION {[1..k -> S] : k \in 1..n}

(* A transfer's line takes from the source bin and puts into another.      *)
Line == {l \in [prod : Product, src : Bin, dst : Bin, qty : Qty] : l.src # l.dst}

TransferScript(lines) ==
    [i \in 1..2 * Len(lines) |->
        LET l == lines[(i + 1) \div 2]
        IN  IF i % 2 = 1 THEN [op |-> "take", cell |-> <<l.src, l.prod>>, qty |-> l.qty]
                         ELSE [op |-> "put", cell |-> <<l.dst, l.prod>>, qty |-> l.qty]]

Draft(j, script) ==
    /\ job[j] = NoJob
    /\ job' = [job EXCEPT ![j] = [status |-> "DRAFT", script |-> script]]
    /\ UNCHANGED <<balance, hub, receipts, bills, req, adjusted, lifted, raced>>

CreateTransfer(j) ==
    \E lines \in SeqsUpTo(Line, MaxLines) : Draft(j, TransferScript(lines))

(* A transformation takes all its inputs, then puts its output.            *)
CreateTransformation(j) ==
    \E inputs \in SeqsUpTo([op : {"take"}, cell : Cell, qty : Qty], MaxLines),
       output \in [op : {"put"}, cell : Cell, qty : Qty] :
          Draft(j, Append(inputs, output))

-----------------------------------------------------------------------------
(* completeTransfer, completeTransformation: the job is read as a draft.   *)
(* Mutated form: the status not checked.                                   *)
CompletableAny(j) == job[j].status # "ABSENT"
Completable(j) == job[j].status = "DRAFT"

CompleteRead(r, j) ==
    LET X == {j} \cup Takes(j)
    IN  /\ ~InFlight(r)
        /\ Completable(j)
        /\ req' = [req EXCEPT ![r] =
              [at |-> "next", job |-> j, pc |-> 1, seen |-> 0,
               rows |-> {}, own |-> [c \in Cell |-> 0]]]
        /\ raced' = raced \cup {x \in X : \E s \in Req \ {r} : x \in Uses(s)}
        /\ UNCHANGED <<balance, hub, receipts, job, bills, adjusted, lifted>>

ReadBalance(r) ==
    /\ Running(r)
    /\ req[r].at = "next"
    /\ Current(r).op = "take"
    /\ req' = [req EXCEPT ![r].at = "balance",
                          ![r].seen = balance[Current(r).cell]
                                      + req[r].own[Current(r).cell]]
    /\ UNCHANGED <<balance, hub, receipts, job, bills, adjusted, lifted, raced>>

(* sumInboundCustomsHeldQtyBase: the flag is read; only at a hub are the   *)
(* held receipts summed, by a statement of their own.                      *)
ReadHub(r) ==
    /\ Running(r)
    /\ req[r].at = "balance"
    /\ IsHub(Current(r).cell)
    /\ req' = [req EXCEPT ![r].at = "hub"]
    /\ UNCHANGED <<balance, hub, receipts, job, bills, adjusted, lifted, raced>>

(* Request r has read what its check needs, the hold it goes by included.  *)
Checking(r) ==
    /\ Running(r)
    /\ req[r].at = "hub" \/ (req[r].at = "balance" /\ ~IsHub(Current(r).cell))

Hold(r) == IF req[r].at = "hub" THEN Held(Current(r).cell) ELSE 0

Enough(r) == Available(req[r].seen, Hold(r)) >= Current(r).qty

Check(r) ==
    LET c == Current(r).cell
    IN  /\ Checking(r)
        /\ Enough(r)
        /\ req' = [req EXCEPT ![r].at = "checked"]
        /\ lifted' = IF Hold(r) < Held(c) THEN lifted \cup {c} ELSE lifted
        /\ UNCHANGED <<balance, hub, receipts, job, bills, adjusted, raced>>

(* The decrement, which waits for the row, goes by the check before it.    *)
Take(r) ==
    /\ Running(r)
    /\ req[r].at = "checked"
    /\ Writes(r, Current(r).cell, -Current(r).qty)
    /\ UNCHANGED <<balance, hub, receipts, job, bills, adjusted, lifted, raced>>

Put(r) ==
    /\ Running(r)
    /\ req[r].at = "next"
    /\ Current(r).op = "put"
    /\ Writes(r, Current(r).cell, Current(r).qty)
    /\ UNCHANGED <<balance, hub, receipts, job, bills, adjusted, lifted, raced>>

(* The quantity a completion bills: of every transfer line, or of the      *)
(* output.  Mutated forms: of the inputs as well, the output less inputs.  *)
QtyOf(j, op) ==
    LET script == job[j].script
    IN  SumFunctionOnSet([i \in DOMAIN script |-> script[i].qty],
                         {i \in DOMAIN script : script[i].op = op})

BilledQtyOfAll(j) == QtyOf(j, "put") + QtyOf(j, "take")
BilledQtyNet(j) == QtyOf(j, "put") - QtyOf(j, "take")
BilledQty(j) == QtyOf(j, "put")

(* Mutated form: the change written in place of the balance.               *)
ChangeOnly(r, c) == req[r].own[c]
AfterCommit(r, c) == balance[c] + req[r].own[c]

CompleteCommit(r) ==
    LET j == req[r].job
    IN  /\ InFlight(r)
        /\ ~Running(r)
        /\ balance' = [c \in Cell |-> IF Holds(r, c) THEN AfterCommit(r, c) ELSE balance[c]]
        /\ job' = [job EXCEPT ![j].status = "COMPLETED"]
        /\ bills' = [bills EXCEPT ![j].draft = @ + BilledQty(j)]
        /\ Finish(r)
        /\ UNCHANGED <<hub, receipts, adjusted, lifted, raced>>

RolledBack(r) ==
    /\ Finish(r)
    /\ UNCHANGED <<balance, hub, receipts, job, bills, adjusted, lifted, raced>>

(* Insufficient available stock.                                           *)
Refuse(r) ==
    /\ Checking(r)
    /\ ~Enough(r)
    /\ RolledBack(r)

(* Any other failure: an inactive bin, a timeout, a lost connection.       *)
Fail(r) == InFlight(r) /\ RolledBack(r)

(* r waits for a row s holds.                                              *)
WaitsFor(r, s) ==
    /\ Running(r)
    /\ Current(r).op = "put" \/ req[r].at = "checked"
    /\ s # r /\ Holds(s, Current(r).cell)

(* PostgreSQL rolls back a transaction in a cycle of waits.                *)
(* Mutated form: cycles left alone.                                        *)
NeverStuck(r) == FALSE
Stuck(r) == \E S \in SUBSET Req : /\ r \in S
                                  /\ \A s \in S : \E t \in S : WaitsFor(s, t)

Victim(r) == Stuck(r) /\ RolledBack(r)

-----------------------------------------------------------------------------
(* The rest of the program, each in one step: its own steps are elsewhere. *)
(* receiveItem books a receipt and its stock together.                     *)
Land(c, q) ==
    /\ Len(receipts) < MaxReceipts
    /\ \A s \in Req : ~Holds(s, c)
    /\ receipts' = Append(receipts, [cell |-> c, qty |-> q, held |-> IsHub(c)])
    /\ balance' = [balance EXCEPT ![c] = @ + q]
    /\ UNCHANGED <<hub, job, bills, req, adjusted, lifted, raced>>

(* releaseInboundReceiptCustoms.                                           *)
Clear(i) ==
    /\ receipts[i].held
    /\ receipts' = [receipts EXCEPT ![i].held = FALSE]
    /\ UNCHANGED <<balance, hub, job, bills, req, adjusted, lifted, raced>>

(* upsertInventoryBalance sets the quantity, whatever moves are in flight. *)
SetBalance(c, q) ==
    /\ \A s \in Req : ~Holds(s, c)
    /\ balance' = [balance EXCEPT ![c] = q]
    /\ adjusted' = [adjusted EXCEPT ![c] = @ + q - balance[c]]
    /\ raced' = IF q < Held(c) \/ \E s \in Req : c \in Uses(s)
                THEN raced \cup {c} ELSE raced
    /\ UNCHANGED <<hub, receipts, job, bills, req, lifted>>

(* updateWarehouse sets or clears the hub flag, whatever is held there.    *)
SetHub ==
    /\ \E w \in Warehouse : hub' \in {hub \cup {w}, hub \ {w}}
    /\ UNCHANGED <<balance, receipts, job, bills, req, adjusted, lifted, raced>>

(* postDraftProcessFlowBilling: every draft row becomes posted.            *)
PostDraftBilling ==
    /\ bills' = [j \in Job |->
          [draft |-> 0, posted |-> bills[j].posted + bills[j].draft]]
    /\ UNCHANGED <<balance, hub, receipts, job, req, adjusted, lifted, raced>>

Others ==
    \/ \E c \in Cell : \E q \in Qty : Land(c, q)
    \/ \E c \in Cell : \E q \in SetQty : SetBalance(c, q)
    \/ \E i \in DOMAIN receipts : Clear(i)
    \/ SetHub
    \/ PostDraftBilling

Step(r) == \/ ReadBalance(r) \/ ReadHub(r) \/ Check(r)
           \/ Take(r) \/ Put(r) \/ CompleteCommit(r)

Next ==
    \/ \E j \in Transfer : CreateTransfer(j)
    \/ \E j \in Transform : CreateTransformation(j)
    \/ \E r \in Req : \/ \E j \in Job : CompleteRead(r, j)
                      \/ Step(r)
                      \/ Refuse(r)
                      \/ Victim(r)
                      \/ Fail(r)
    \/ Others

Spec == Init /\ [][Next]_vars

(* A transaction that can go on again and again does: the server runs its  *)
(* next statement, and a row is granted to those that wait for it in turn. *)
FairSpec == Spec /\ \A r \in Req : SF_vars(Step(r) \/ Refuse(r) \/ Victim(r))
-----------------------------------------------------------------------------
(* How often a job was carried out, by what was billed for it.             *)
Times(j) == IF job[j] = NoJob THEN 0
            ELSE (bills[j].draft + bills[j].posted) \div QtyOf(j, "put")

(* What a statement, and one completion of a job, add to a cell.           *)
Change(t, c) == IF t.cell # c THEN 0 ELSE IF t.op = "put" THEN t.qty ELSE -t.qty

Net(j, c) ==
    SumFunction([i \in DOMAIN job[j].script |-> Change(job[j].script[i], c)])

(* Every unit of stock is accounted for by a receipt, by an operator's     *)
(* setting or by a move that was billed, however completions, receipts and *)
(* settings overlap or fail (completeTransfer and completeTransformation   *)
(* write stock, status and billing in one transaction).                    *)
StockIsAccounted ==
    \A c \in Cell :
        balance[c] = Landed(Into(c)) + adjusted[c]
                     + SumFunction([j \in Job |-> Times(j) * Net(j, c)])

(* A draft is completed once (process-flow.service.ts:137, 639: 'Only      *)
(* draft transfer can be completed'), unless two completions overlapped.   *)
CompletedOnceUnlessRaced == \A j \in Job \ raced : Times(j) <= 1

(* Stock that customs holds stays where it is (process-flow.service.ts:182:*)
(* 'inbound customs HELD reduces available qty'), however often the hub    *)
(* flag is switched, but for what a move took while it was off: then the   *)
(* code counts no hold, and keeps the balance from falling below zero.     *)
(* Unless the check of a move was overtaken by another move or by an       *)
(* operator's setting.                                                     *)
HoldIsKeptUnlessRaced ==
    \A c \in Cell \ raced : balance[c] >= IF c \in lifted THEN 0 ELSE Held(c)

(* A transfer moves stock between bins and makes or loses none.            *)
Total(p) == SumFunction([b \in Bin |-> balance[<<b, p>>]])

TransfersConserve ==
    [][\A r \in Req : CompleteCommit(r) /\ req[r].job \in Transfer
                         => \A p \in Product : Total(p)' = Total(p)]_vars

(* Every completion ends, also when two move stock in opposite directions  *)
(* and wait for each other's rows.                                         *)
CompletionsEnd == \A r \in Req : InFlight(r) ~> ~InFlight(r)
=============================================================================
