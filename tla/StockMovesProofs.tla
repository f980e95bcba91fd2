-------------------------- MODULE StockMovesProofs --------------------------
(* Theorems about StockMoves, for every value of its constants.            *)
EXTENDS StockMoves, Sums, TLAPS

LEMMA SetsFinite == IsFiniteSet(Job) /\ IsFiniteSet(Bin)
BY StockMovesAssumption DEF Job

(* A finite sequence given as a function.                                  *)
LEMMA AsSequence ==
    ASSUME NEW S, NEW k \in Nat, NEW f \in [1..k -> S]
    PROVE  f \in Seq(S) /\ Len(f) = k /\ DOMAIN f = 1..k
OBVIOUS

-----------------------------------------------------------------------------
(* A script of a transfer: each line's take is followed by its put.        *)
Paired(script) ==
    /\ Len(script) % 2 = 0
    /\ \A i \in 1..Len(script) :
          IF i % 2 = 1 THEN script[i].op = "take"
          ELSE /\ script[i].op = "put"
               /\ i - 1 \in 1..Len(script)
               /\ script[i - 1].op = "take"
               /\ script[i].qty = script[i - 1].qty
               /\ script[i].cell[2] = script[i - 1].cell[2]

(* A script that somewhere puts something, so that it bills something.     *)
Puts(script) == \E i \in 1..Len(script) : script[i].op = "put"

LEMMA TransferScriptShape ==
    ASSUME NEW lines \in SeqsUpTo(Line, MaxLines)
    PROVE  /\ TransferScript(lines) \in Script
           /\ Paired(TransferScript(lines)) /\ Puts(TransferScript(lines))
<1>1. PICK k \in 1..MaxLines : lines \in [1..k -> Line]
    BY DEF SeqsUpTo
<1>2. k \in Nat \ {0}
    BY <1>1, StockMovesAssumption
<1>3. Len(lines) = k
    BY <1>1, <1>2, AsSequence
<1> DEFINE S == TransferScript(lines)
           l(i) == lines[(i + 1) \div 2]
<1>4. ASSUME NEW i \in 1..2 * k
      PROVE  (i + 1) \div 2 \in 1..k /\ l(i) \in Line
    <2>1. (i + 1) \div 2 \in 1..k
        BY <1>2
    <2> QED BY <1>1, <2>1
<1>5. ASSUME NEW i \in 1..2 * k
      PROVE  /\ S[i] = IF i % 2 = 1
                       THEN [op |-> "take", cell |-> <<l(i).src, l(i).prod>>, qty |-> l(i).qty]
                       ELSE [op |-> "put", cell |-> <<l(i).dst, l(i).prod>>, qty |-> l(i).qty]
             /\ S[i] \in Statement
    <2>1. S[i] = IF i % 2 = 1
                 THEN [op |-> "take", cell |-> <<l(i).src, l(i).prod>>, qty |-> l(i).qty]
                 ELSE [op |-> "put", cell |-> <<l(i).dst, l(i).prod>>, qty |-> l(i).qty]
        BY <1>3 DEF TransferScript
    <2>2. l(i).src \in Bin /\ l(i).dst \in Bin /\ l(i).prod \in Product /\ l(i).qty \in Qty
        BY <1>4 DEF Line
    <2> QED BY <2>1, <2>2 DEF Statement, Cell
<1>6. DOMAIN S = 1..2 * k
    BY <1>3 DEF TransferScript
<1>7. S \in [1..2 * k -> Statement]
    BY <1>5, <1>6, <1>3 DEF TransferScript
<1>8. S \in Script /\ Len(S) = 2 * k
    BY <1>2, <1>7, AsSequence DEF Script
<1> HIDE DEF S
<1>a. ASSUME NEW i \in 1..2 * k, i % 2 = 1
      PROVE  S[i].op = "take" /\ S[i].qty = l(i).qty /\ S[i].cell[2] = l(i).prod
    <2>1. S[i] = [op |-> "take", cell |-> <<l(i).src, l(i).prod>>, qty |-> l(i).qty]
        BY <1>5, <1>a
    <2> HIDE DEF l
    <2> QED BY <2>1
<1>b. ASSUME NEW i \in 1..2 * k, i % 2 # 1
      PROVE  S[i].op = "put" /\ S[i].qty = l(i).qty /\ S[i].cell[2] = l(i).prod
    <2>1. S[i] = [op |-> "put", cell |-> <<l(i).dst, l(i).prod>>, qty |-> l(i).qty]
        BY <1>5, <1>b
    <2> HIDE DEF l
    <2> QED BY <2>1
<1>9. Paired(S)
    <2>1. Len(S) % 2 = 0
        BY <1>2, <1>8
    <2>2. ASSUME NEW i \in 1..2 * k, i % 2 = 1
          PROVE  S[i].op = "take"
        BY <1>a, <2>2
    <2>3. ASSUME NEW i \in 1..2 * k, i % 2 # 1
          PROVE  /\ S[i].op = "put" /\ i - 1 \in 1..2 * k
                 /\ S[i - 1].op = "take" /\ S[i].qty = S[i - 1].qty
                 /\ S[i].cell[2] = S[i - 1].cell[2]
        <3>1. i - 1 \in 1..2 * k /\ (i - 1) % 2 = 1 /\ ((i - 1) + 1) \div 2 = (i + 1) \div 2
            BY <1>2, <2>3
        <3>2. l(i - 1) = l(i)
            BY <3>1
        <3> HIDE DEF l
        <3> QED BY <1>a, <1>b, <2>3, <3>1, <3>2
    <2> QED BY <1>8, <2>1, <2>2, <2>3 DEF Paired
<1>10. Puts(S)
    <2>1. 2 \in 1..2 * k /\ 2 % 2 = 0
        BY <1>2
    <2>2. S[2].op = "put"
        BY <1>b, <2>1
    <2> QED BY <1>8, <2>1, <2>2 DEF Puts
<1> QED BY <1>8, <1>9, <1>10 DEF S

LEMMA TransformationScriptShape ==
    ASSUME NEW inputs \in SeqsUpTo([op : {"take"}, cell : Cell, qty : Qty], MaxLines),
           NEW output \in [op : {"put"}, cell : Cell, qty : Qty]
    PROVE  Append(inputs, output) \in Script /\ Puts(Append(inputs, output))
<1>1. PICK k \in 1..MaxLines : inputs \in [1..k -> [op : {"take"}, cell : Cell, qty : Qty]]
    BY DEF SeqsUpTo
<1>2. k \in Nat /\ output \in Statement
    BY <1>1, StockMovesAssumption DEF Statement
<1>3. inputs \in [1..k -> Statement]
    BY <1>1 DEF Statement
<1>4. inputs \in Seq(Statement)
    BY <1>2, <1>3, AsSequence
<1>5. /\ Append(inputs, output) \in Seq(Statement)
      /\ Len(Append(inputs, output)) = Len(inputs) + 1
      /\ Append(inputs, output)[Len(inputs) + 1] = output
      /\ Len(inputs) \in Nat
    BY <1>2, <1>4
<1>6. output.op = "put"
    OBVIOUS
<1> QED BY <1>5, <1>6 DEF Script, Puts

-----------------------------------------------------------------------------
(* The fields of a completion in flight, and the statement it is at.       *)
LEMMA ReqFields ==
    ASSUME TypeOK, NEW r \in Req, InFlight(r)
    PROVE  /\ req[r] \in Completion
           /\ req[r].at \in {"next", "balance", "hub", "checked"} /\ req[r].job \in Job
           /\ req[r].pc \in Nat \ {0} /\ req[r].seen \in Int
           /\ req[r].rows \subseteq Cell /\ req[r].own \in [Cell -> Int]
           /\ job[req[r].job].script \in Seq(Statement)
<1>1. req[r] \in Completion
    BY DEF TypeOK, InFlight
<1>2. req[r].job \in Job
    BY <1>1 DEF Completion
<1>3. job[req[r].job].script \in Seq(Statement)
    BY <1>2 DEF TypeOK, Script
<1> QED BY <1>1, <1>3 DEF Completion

LEMMA StatementFields ==
    ASSUME NEW t \in Statement
    PROVE  t.op \in {"take", "put"} /\ t.cell \in Cell /\ t.qty \in Qty /\ t.qty \in Nat \ {0}
BY StockMovesAssumption DEF Statement

LEMMA CurrentStatement ==
    ASSUME TypeOK, NEW r \in Req, Running(r)
    PROVE  /\ InFlight(r) /\ req[r].pc \in 1..Len(job[req[r].job].script)
           /\ Current(r) \in Statement /\ Current(r).op \in {"take", "put"}
           /\ Current(r).cell \in Cell /\ Current(r).qty \in Nat \ {0}
<1>1. InFlight(r)
    BY DEF Running
<1>2. req[r].pc \in 1..Len(job[req[r].job].script)
    BY <1>1, ReqFields DEF Running
<1>3. Current(r) \in Statement
    BY <1>1, <1>2, ReqFields DEF Current
<1> QED BY <1>1, <1>2, <1>3, StatementFields

(* The record of a completion after a write, and after a read.             *)
LEMMA WritesMoves ==
    ASSUME TypeOK, NEW r \in Req, InFlight(r), NEW c \in Cell, NEW d \in Int, Writes(r, c, d)
    PROVE  /\ InFlight(r)' /\ req'[r] \in Completion
           /\ req'[r].at = "next" /\ req'[r].job = req[r].job /\ req'[r].pc = req[r].pc + 1
           /\ req'[r].rows = req[r].rows \cup {c}
           /\ req'[r].own = [req[r].own EXCEPT ![c] = @ + d]
           /\ \A s \in Req \ {r} : req'[s] = req[s]
           /\ req' \in [Req -> {Idle} \cup Completion]
<1>1. req[r] \in Completion
    BY ReqFields
<1>2. req'[r] = [req[r] EXCEPT !.at = "next", !.pc = @ + 1, !.seen = 0,
                               !.rows = @ \cup {c}, !.own[c] = @ + d]
    BY DEF Writes, TypeOK
<1>3. \A s \in Req \ {r} : req'[s] = req[s]
    BY DEF Writes, TypeOK
<1>4. /\ req'[r].at = "next" /\ req'[r].job = req[r].job /\ req'[r].pc = req[r].pc + 1
      /\ req'[r].rows = req[r].rows \cup {c}
      /\ req'[r].own = [req[r].own EXCEPT ![c] = @ + d]
    BY <1>1, <1>2 DEF Completion
<1>5. req'[r] \in Completion
    <2> DEFINE w == [req[r].own EXCEPT ![c] = @ + d]
               n == req[r].pc + 1
               o == req[r].rows \cup {c}
    <2>1. w \in [Cell -> Int]
        BY ReqFields
    <2>2. n \in Nat \ {0} /\ o \subseteq Cell
        BY ReqFields
    <2>3. req'[r] = [req[r] EXCEPT !.at = "next", !.pc = n, !.seen = 0, !.rows = o, !.own = w]
        BY <1>1, <1>2 DEF Completion
    <2> HIDE DEF w, n, o
    <2>4. req'[r] = [at |-> "next", job |-> req[r].job, pc |-> n, seen |-> 0,
                     rows |-> o, own |-> w]
        BY <1>1, <2>3 DEF Completion
    <2>5. req[r].job \in Job
        BY <1>1 DEF Completion
    <2> QED BY <2>1, <2>2, <2>4, <2>5 DEF Completion
<1>6. InFlight(r)'
    BY <1>5 DEF InFlight, Completion, Idle
<1>7. req' \in [Req -> {Idle} \cup Completion]
    BY <1>3, <1>5 DEF Writes, TypeOK
<1> QED BY <1>3, <1>4, <1>5, <1>6, <1>7

LEMMA ReadMoves ==
    ASSUME TypeOK, NEW r \in Req, ReadBalance(r)
    PROVE  /\ InFlight(r) /\ InFlight(r)' /\ req'[r] \in Completion
           /\ req'[r].at = "balance" /\ req'[r].job = req[r].job /\ req'[r].pc = req[r].pc
           /\ req'[r].seen = balance[Current(r).cell] + req[r].own[Current(r).cell]
           /\ req'[r].rows = req[r].rows /\ req'[r].own = req[r].own
           /\ \A s \in Req \ {r} : req'[s] = req[s]
           /\ req' \in [Req -> {Idle} \cup Completion]
<1> DEFINE n == balance[Current(r).cell] + req[r].own[Current(r).cell]
<1>1. InFlight(r) /\ Current(r).cell \in Cell
    BY CurrentStatement DEF ReadBalance
<1>2. req[r] \in Completion /\ n \in Int
    BY <1>1, ReqFields DEF TypeOK
<1>3. req' = [req EXCEPT ![r].at = "balance", ![r].seen = n]
    BY DEF ReadBalance
<1> HIDE DEF n
<1>4. req'[r] = [req[r] EXCEPT !.at = "balance", !.seen = n]
    BY <1>3 DEF TypeOK
<1>5. \A s \in Req \ {r} : req'[s] = req[s]
    BY <1>3 DEF TypeOK
<1>6. /\ req'[r].at = "balance" /\ req'[r].job = req[r].job /\ req'[r].pc = req[r].pc
      /\ req'[r].seen = n
      /\ req'[r].rows = req[r].rows /\ req'[r].own = req[r].own
    BY <1>2, <1>4 DEF Completion
<1>7. req'[r] \in Completion
    BY <1>2, <1>4 DEF Completion
<1>8. InFlight(r)'
    BY <1>7 DEF InFlight, Completion, Idle
<1>9. req' \in [Req -> {Idle} \cup Completion]
    BY <1>3, <1>5, <1>7 DEF TypeOK
<1> QED BY <1>1, <1>5, <1>6, <1>7, <1>8, <1>9 DEF n

(* The steps between the read of the balance and the write.                *)
Advance(r) == ReadHub(r) \/ Check(r)

LEMMA AdvanceMoves ==
    ASSUME TypeOK, NEW r \in Req, Advance(r)
    PROVE  /\ InFlight(r) /\ InFlight(r)' /\ req'[r] \in Completion
           /\ req'[r].at \in {"hub", "checked"}
           /\ ReadHub(r) => req'[r].at = "hub"
           /\ Check(r) => req'[r].at = "checked"
           /\ req'[r].job = req[r].job /\ req'[r].pc = req[r].pc /\ req'[r].seen = req[r].seen
           /\ req'[r].rows = req[r].rows /\ req'[r].own = req[r].own
           /\ \A s \in Req \ {r} : req'[s] = req[s]
           /\ req' \in [Req -> {Idle} \cup Completion]
           /\ Running(r) /\ job' = job /\ Current(r)' = Current(r)
           /\ balance' = balance /\ receipts' = receipts /\ hub' = hub
           /\ adjusted' = adjusted /\ raced' = raced
<1> DEFINE a == req'[r].at
<1>1. /\ req' = [req EXCEPT ![r].at = a] /\ a \in {"hub", "checked"}
      /\ ReadHub(r) => a = "hub"
      /\ Check(r) => a = "checked"
    <2>1. InFlight(r) /\ req[r] \in Completion
        BY ReqFields DEF Advance, ReadHub, Check, Checking, Running
    <2>2. ASSUME NEW b, req' = [req EXCEPT ![r].at = b]
          PROVE  a = b
        <3>1. req'[r] = [req[r] EXCEPT !.at = b]
            BY <2>2 DEF TypeOK
        <3> QED BY <2>1, <3>1 DEF Completion
    <2>3. CASE ReadHub(r)
        <3>1. req' = [req EXCEPT ![r].at = "hub"] /\ req[r].at = "balance"
            BY <2>3 DEF ReadHub
        <3>2. a = "hub"
            BY <2>2, <3>1
        <3>3. ~Check(r)
            <4>1. SUFFICES ASSUME Check(r) PROVE FALSE
                OBVIOUS
            <4>2. a = "checked"
                BY <2>2, <4>1 DEF Check
            <4> QED BY <3>2, <4>2
        <3> HIDE DEF a
        <3> QED BY <3>1, <3>2, <3>3
    <2>4. CASE Check(r)
        <3>1. req' = [req EXCEPT ![r].at = "checked"]
            BY <2>4 DEF Check
        <3>2. a = "checked"
            BY <2>2, <3>1
        <3>3. ~ReadHub(r)
            <4>1. SUFFICES ASSUME ReadHub(r) PROVE FALSE
                OBVIOUS
            <4>2. a = "hub"
                BY <2>2, <4>1 DEF ReadHub
            <4> QED BY <3>2, <4>2
        <3> HIDE DEF a
        <3> QED BY <3>1, <3>2, <3>3
    <2> QED BY <2>3, <2>4 DEF Advance
<1>2. Running(r) /\ job' = job /\ balance' = balance /\ receipts' = receipts /\ hub' = hub
      /\ adjusted' = adjusted /\ raced' = raced
    BY DEF Advance, ReadHub, Check, Checking
<1>3. InFlight(r) /\ req[r] \in Completion
    BY <1>2, ReqFields DEF Running
<1> HIDE DEF a
<1>4. req'[r] = [req[r] EXCEPT !.at = a] /\ \A s \in Req \ {r} : req'[s] = req[s]
    BY <1>1 DEF TypeOK
<1>5. /\ req'[r].at = a /\ req'[r].job = req[r].job /\ req'[r].pc = req[r].pc
      /\ req'[r].seen = req[r].seen /\ req'[r].rows = req[r].rows /\ req'[r].own = req[r].own
      /\ req'[r] \in Completion
    BY <1>1, <1>3, <1>4 DEF Completion
<1>6. InFlight(r)'
    BY <1>5 DEF InFlight, Completion, Idle
<1>7. req' \in [Req -> {Idle} \cup Completion]
    <2>1. DOMAIN req' = Req /\ req' = [s \in Req |-> req'[s]]
        BY <1>1 DEF TypeOK
    <2>2. \A s \in Req : req'[s] \in {Idle} \cup Completion
        BY <1>4, <1>5 DEF TypeOK
    <2> QED BY <2>1, <2>2
<1>8. Current(r)' = Current(r)
    BY <1>2, <1>5 DEF Current
<1> QED BY <1>1, <1>2, <1>3, <1>4, <1>5, <1>6, <1>7, <1>8

(* The quantity a script's statements of one kind move.                    *)
LEMMA ScriptQty ==
    ASSUME TypeOK, NEW j \in Job, NEW op
    PROVE  /\ QtyOf(j, op) \in Nat
           /\ Puts(job[j].script) => QtyOf(j, "put") \in Nat \ {0}
<1> DEFINE script == job[j].script
           f == [i \in DOMAIN script |-> script[i].qty]
           I(o) == {i \in DOMAIN script : script[i].op = o}
<1>1. script \in Seq(Statement)
    BY DEF TypeOK, Script
<1>2. DOMAIN script = 1..Len(script) /\ Len(script) \in Nat
    BY <1>1
<1>3. \A i \in DOMAIN script : f[i] \in Nat \ {0}
    BY <1>1, StatementFields
<1>4. ASSUME NEW o
      PROVE  IsFiniteSet(I(o)) /\ \A i \in I(o) : f[i] \in Nat \ {0}
    <2>1. IsFiniteSet(1..Len(script))
        BY <1>2, FS_Interval
    <2>2. I(o) \subseteq 1..Len(script)
        BY <1>2
    <2> QED BY <1>3, <2>1, <2>2, FS_Subset
<1>5. \A o : QtyOf(j, o) = SumFunctionOnSet(f, I(o))
    BY DEF QtyOf
<1> HIDE DEF f, I
<1>6. ASSUME NEW o
      PROVE  /\ SumFunctionOnSet(f, I(o)) \in Nat
             /\ \A i \in I(o) : f[i] <= SumFunctionOnSet(f, I(o))
    BY <1>4, SumNat
<1>7. Puts(script) => \E i \in I("put") : TRUE
    BY <1>2 DEF Puts, I
<1> QED BY <1>4, <1>5, <1>6, <1>7

-----------------------------------------------------------------------------
(* Type correctness of every variable, however completions overlap; in     *)
(* particular what a job bills is a natural number.                        *)
THEOREM TypeCorrect == Spec => []TypeOK
<1>1. Init => TypeOK
    BY DEF Init, TypeOK, NoJob, Script
<1>2. TypeOK /\ [Next]_vars => TypeOK'
    <2> SUFFICES ASSUME TypeOK, [Next]_vars
                 PROVE  TypeOK'
        OBVIOUS
    <2>1. ASSUME NEW j \in Job, NEW script \in Script, Draft(j, script)
          PROVE  TypeOK'
        BY <2>1 DEF Draft, TypeOK
    <2>2. ASSUME NEW r \in Req, NEW j \in Job, CompleteRead(r, j)
          PROVE  TypeOK'
        <3> DEFINE x == [at |-> "next", job |-> j, pc |-> 1, seen |-> 0,
                         rows |-> {}, own |-> [c \in Cell |-> 0]]
        <3>1. x \in Completion
            BY DEF Completion
        <3>2. req' \in [Req -> {Idle} \cup Completion]
            BY <2>2, <3>1 DEF CompleteRead, TypeOK
        <3>3. Takes(j) \subseteq Cell
            <4>1. \A i \in DOMAIN job[j].script : job[j].script[i] \in Statement
                BY DEF TypeOK, Script
            <4> QED BY <4>1, StatementFields DEF Takes
        <3>4. raced' \subseteq Job \cup Cell
            BY <2>2, <3>3 DEF CompleteRead, TypeOK
        <3> QED BY <2>2, <3>2, <3>4 DEF CompleteRead, TypeOK
    <2>3. ASSUME NEW r \in Req, ReadBalance(r)
          PROVE  TypeOK'
        BY <2>3, ReadMoves DEF ReadBalance, TypeOK
    <2>4. ASSUME NEW r \in Req, Take(r)
          PROVE  TypeOK'
        <3>1. InFlight(r) /\ Current(r).cell \in Cell /\ -Current(r).qty \in Int
            BY <2>4, CurrentStatement DEF Take
        <3>2. req' \in [Req -> {Idle} \cup Completion]
            BY <2>4, <3>1, WritesMoves DEF Take
        <3> QED BY <2>4, <3>2 DEF Take, TypeOK
    <2>5. ASSUME NEW r \in Req, Put(r)
          PROVE  TypeOK'
        <3>1. InFlight(r) /\ Current(r).cell \in Cell /\ Current(r).qty \in Int
            BY <2>5, CurrentStatement DEF Put
        <3>2. req' \in [Req -> {Idle} \cup Completion]
            BY <2>5, <3>1, WritesMoves DEF Put
        <3> QED BY <2>5, <3>2 DEF Put, TypeOK
    <2>6. ASSUME NEW r \in Req, CompleteCommit(r)
          PROVE  TypeOK'
        <3>1. PICK j \in Job : j = req[r].job
            BY <2>6, ReqFields DEF CompleteCommit
        <3>2. BilledQty(j) \in Nat
            BY ScriptQty DEF BilledQty
        <3>3. bills' \in [Job -> [draft : Nat, posted : Nat]]
            <4> DEFINE b == BilledQty(j)
            <4>1. b \in Nat /\ bills[j] \in [draft : Nat, posted : Nat]
                BY <3>2 DEF TypeOK
            <4>2. bills' = [bills EXCEPT ![j].draft = @ + b]
                BY <2>6, <3>1 DEF CompleteCommit
            <4> HIDE DEF b
            <4>3. [bills[j] EXCEPT !.draft = @ + b] \in [draft : Nat, posted : Nat]
                BY <4>1
            <4>4. bills' = [bills EXCEPT ![j] = [bills[j] EXCEPT !.draft = @ + b]]
                BY <4>2
            <4> DEFINE y == [bills[j] EXCEPT !.draft = @ + b]
            <4> HIDE DEF y
            <4>5. bills' = [bills EXCEPT ![j] = y] /\ y \in [draft : Nat, posted : Nat]
                BY <4>3, <4>4 DEF y
            <4> QED BY <4>5 DEF TypeOK
        <3>4. job' \in [Job -> [status : {"ABSENT", "DRAFT", "COMPLETED"}, script : Script]]
            BY <2>6, <3>1 DEF CompleteCommit, TypeOK
        <3>5. balance' \in [Cell -> Int]
            <4>1. \A c \in Cell : Holds(r, c) => req[r].own[c] \in Int
                BY ReqFields DEF Holds
            <4> QED BY <2>6, <4>1 DEF CompleteCommit, AfterCommit, TypeOK
        <3>6. req' \in [Req -> {Idle} \cup Completion]
            BY <2>6 DEF CompleteCommit, Finish, TypeOK
        <3> QED BY <2>6, <3>3, <3>4, <3>5, <3>6 DEF CompleteCommit, TypeOK
    <2>7. ASSUME NEW r \in Req, RolledBack(r)
          PROVE  TypeOK'
        BY <2>7 DEF RolledBack, Finish, TypeOK
    <2>8. ASSUME NEW c \in Cell, NEW q \in Qty, Land(c, q)
          PROVE  TypeOK'
        <3>1. q \in Int
            BY StockMovesAssumption
        <3>2. balance' \in [Cell -> Int]
            BY <2>8, <3>1 DEF Land, TypeOK
        <3>3. receipts' \in Seq([cell : Cell, qty : Qty, held : BOOLEAN])
            BY <2>8 DEF Land, IsHub, TypeOK
        <3> QED BY <2>8, <3>2, <3>3 DEF Land, TypeOK
    <2>9. ASSUME NEW i \in DOMAIN receipts, Clear(i)
          PROVE  TypeOK'
        <3> DEFINE R == [cell : Cell, qty : Qty, held : BOOLEAN]
                   x == [receipts[i] EXCEPT !.held = FALSE]
        <3>1. receipts \in Seq(R)
            BY DEF TypeOK
        <3>2. receipts \in Seq(R) /\ receipts[i] \in R
            <4> HIDE DEF R
            <4>1. \A k \in 1..Len(receipts) : receipts[k] \in R
                BY <3>1
            <4> QED BY <3>1, <4>1
        <3>3. x \in R
            BY <3>2
        <3>4. receipts' = [receipts EXCEPT ![i] = x]
            BY <2>9 DEF Clear
        <3> HIDE DEF R, x
        <3>5. receipts' \in Seq(R)
            BY <3>2, <3>3, <3>4
        <3>6. receipts' \in Seq([cell : Cell, qty : Qty, held : BOOLEAN])
            BY <3>5 DEF R
        <3> QED BY <2>9, <3>6 DEF Clear, TypeOK
    <2>10. ASSUME NEW c \in Cell, NEW q \in SetQty, SetBalance(c, q)
           PROVE  TypeOK'
        <3>1. q \in Int
            BY StockMovesAssumption
        <3>2. balance' \in [Cell -> Int] /\ adjusted' \in [Cell -> Int]
            BY <2>10, <3>1 DEF SetBalance, TypeOK
        <3> QED BY <2>10, <3>2 DEF SetBalance, TypeOK
    <2>11. CASE PostDraftBilling \/ SetHub
        BY <2>11 DEF PostDraftBilling, SetHub, TypeOK
    <2>15. ASSUME NEW r \in Req, Advance(r)
           PROVE  TypeOK'
        <3>1. req' \in [Req -> {Idle} \cup Completion]
            BY <2>15, AdvanceMoves
        <3>2. Running(r)
            BY <2>15, AdvanceMoves
        <3>3. Current(r).cell \in Cell
            BY <3>2, CurrentStatement
        <3> QED BY <2>15, <3>1, <3>3 DEF Advance, ReadHub, Check, TypeOK
    <2>12. CASE UNCHANGED vars
        BY <2>12 DEF vars, TypeOK
    <2>13. ASSUME NEW j \in Transfer, CreateTransfer(j)
           PROVE  TypeOK'
        BY <2>1, <2>13, TransferScriptShape DEF CreateTransfer, Job
    <2>14. ASSUME NEW j \in Transform, CreateTransformation(j)
           PROVE  TypeOK'
        BY <2>1, <2>14, TransformationScriptShape DEF CreateTransformation, Job
    <2> QED BY <2>2, <2>3, <2>4, <2>5, <2>6, <2>7, <2>8, <2>9, <2>10, <2>11, <2>12, <2>13,
       <2>14, <2>15
            DEF Next, Step, Advance, Refuse, Victim, Fail, Others
<1> QED BY <1>1, <1>2, PTL DEF Spec

-----------------------------------------------------------------------------
(* What a script moves, apart from the job that has it.                    *)
PutsQty(script) ==
    SumFunctionOnSet([i \in DOMAIN script |-> script[i].qty],
                     {i \in DOMAIN script : script[i].op = "put"})
TakenBy(script) ==
    {script[i].cell : i \in {i \in DOMAIN script : script[i].op = "take"}}

(* What its first n statements add to cell c.                              *)
Partial(script, n, c) ==
    SumFunctionOnSet([i \in DOMAIN script |-> Change(script[i], c)], 1..n)

LEMMA OfScript ==
    ASSUME NEW j \in Job
    PROVE  QtyOf(j, "put") = PutsQty(job[j].script) /\ Takes(j) = TakenBy(job[j].script)
BY DEF QtyOf, PutsQty, Takes, TakenBy

LEMMA NetIsPartial ==
    ASSUME TypeOK, NEW j \in Job, NEW c \in Cell
    PROVE  Net(j, c) = Partial(job[j].script, Len(job[j].script), c)
<1> DEFINE script == job[j].script
           f == [i \in DOMAIN script |-> Change(script[i], c)]
<1>1. script \in Seq(Statement)
    BY DEF TypeOK, Script
<1>2. DOMAIN f = 1..Len(script)
    BY <1>1
<1>3. Net(j, c) = SumFunctionOnSet(f, DOMAIN f)
    BY DEF Net, SumFunction
<1>4. Partial(script, Len(script), c) = SumFunctionOnSet(f, 1..Len(script))
    BY DEF Partial
<1> QED BY <1>2, <1>3, <1>4

LEMMA ChangeInt ==
    ASSUME NEW t \in Statement, NEW c
    PROVE  Change(t, c) \in Int
BY StatementFields DEF Change

LEMMA PartialStep ==
    ASSUME NEW script \in Seq(Statement), NEW c, NEW n \in 1..Len(script)
    PROVE  /\ Partial(script, n - 1, c) \in Int
           /\ Partial(script, n, c) = Partial(script, n - 1, c) + Change(script[n], c)
<1> DEFINE f == [i \in DOMAIN script |-> Change(script[i], c)]
           m == n - 1
<1>1. m \in Nat /\ 1..n = (1..m) \cup {n} /\ n \notin 1..m /\ 1..m \subseteq 1..Len(script)
    BY DEF m
<1>2. \A i \in 1..Len(script) : f[i] = Change(script[i], c) /\ f[i] \in Int
    BY ChangeInt
<1>3. IsFiniteSet(1..m)
    BY <1>1, FS_Interval
<1>4. Partial(script, m, c) = SumFunctionOnSet(f, 1..m)
      /\ Partial(script, n, c) = SumFunctionOnSet(f, 1..n)
    BY DEF Partial
<1> HIDE DEF f, m
<1>5. SumFunctionOnSet(f, (1..m) \cup {n}) = SumFunctionOnSet(f, 1..m) + f[n]
    BY <1>1, <1>2, <1>3, SumAdd
<1>6. SumFunctionOnSet(f, 1..m) \in Int
    BY <1>1, <1>2, <1>3, SumInt
<1> QED BY <1>1, <1>2, <1>4, <1>5, <1>6 DEF m

LEMMA PartialNone ==
    ASSUME NEW script, NEW c
    PROVE  Partial(script, 0, c) = 0
<1>1. 1..0 = {}
    OBVIOUS
<1> QED BY <1>1, SumEmpty DEF Partial

-----------------------------------------------------------------------------
(* What holds of jobs, bills and completions in every state: a job has its *)
(* script from the day it is created, its bills are a number of times the  *)
(* quantity the script puts, and a completion in flight has changed each   *)
(* cell by what the statements before the current one add to it.           *)
JobShape(j) ==
    IF job[j].status = "ABSENT" THEN job[j] = NoJob
    ELSE Puts(job[j].script) /\ (j \in Transfer => Paired(job[j].script))

BilledTimes(j) ==
    /\ Times(j) \in Nat
    /\ bills[j].draft + bills[j].posted = Times(j) * QtyOf(j, "put")

Flight(r) ==
    InFlight(r) =>
        /\ job[req[r].job].status # "ABSENT"
        /\ req[r].pc <= Len(job[req[r].job].script) + 1
        /\ req[r].at # "next" => Running(r) /\ Current(r).op = "take"
        /\ \A c \in Cell :
              /\ req[r].own[c] = Partial(job[req[r].job].script, req[r].pc - 1, c)
              /\ req[r].own[c] # 0 => c \in req[r].rows

Shape ==
    /\ \A j \in Job : JobShape(j)
    /\ \A j \in Job : BilledTimes(j)
    /\ \A r \in Req : Flight(r)

(* A job just created has a script that puts something.                    *)
LEMMA CreatedShape ==
    ASSUME TypeOK, [Next]_vars, NEW j \in Job, NEW script \in Script, Draft(j, script)
    PROVE  Puts(script) /\ (j \in Transfer => Paired(script))
<1>1. job[j] = NoJob /\ job'[j] = [status |-> "DRAFT", script |-> script]
    BY DEF Draft, TypeOK
<1>2. ASSUME NEW i \in Job, NEW s \in Script, Draft(i, s)
      PROVE  i = j /\ s = script
    <2>1. job'[i] = [status |-> "DRAFT", script |-> s] /\ \A k \in Job \ {i} : job'[k] = job[k]
        BY <1>2 DEF Draft, TypeOK
    <2>2. i = j
        BY <1>1, <2>1 DEF NoJob
    <2> QED BY <1>1, <2>1, <2>2
<1>3. job' # job
    BY <1>1 DEF NoJob
<1>4. \A r \in Req : ~CompleteCommit(r)
    <2> SUFFICES ASSUME NEW r \in Req, CompleteCommit(r)
                 PROVE  FALSE
        OBVIOUS
    <2>1. job'[j].status \in {"ABSENT", "COMPLETED"}
        BY <1>1, ReqFields DEF CompleteCommit, NoJob, TypeOK
    <2> QED BY <1>1, <2>1
<1>5. \/ \E i \in Transfer : CreateTransfer(i)
      \/ \E i \in Transform : CreateTransformation(i)
    BY <1>3, <1>4 DEF Next, Step, Others, CompleteRead, ReadBalance, ReadHub, Check, Take, Put,
       Refuse, Victim, Fail,
       RolledBack, Land, Clear, SetBalance, SetHub, PostDraftBilling, vars
<1>6. ASSUME NEW i \in Transfer, CreateTransfer(i)
      PROVE  i = j /\ Puts(script) /\ Paired(script)
    <2>1. PICK lines \in SeqsUpTo(Line, MaxLines) : Draft(i, TransferScript(lines))
        BY <1>6 DEF CreateTransfer
    <2> QED BY <1>2, <2>1, TransferScriptShape DEF Job
<1>7. ASSUME NEW i \in Transform, CreateTransformation(i)
      PROVE  i = j /\ Puts(script)
    <2>1. PICK inputs \in SeqsUpTo([op : {"take"}, cell : Cell, qty : Qty], MaxLines),
               output \in [op : {"put"}, cell : Cell, qty : Qty] :
                  Draft(i, Append(inputs, output))
        BY <1>7 DEF CreateTransformation
    <2> QED BY <1>2, <2>1, TransformationScriptShape DEF Job
<1> QED BY <1>5, <1>6, <1>7, StockMovesAssumption DEF Job

(* How a step moves one request.                                           *)
LEMMA ReqMoves ==
    ASSUME TypeOK, [Next]_vars, NEW r \in Req
    PROVE  \/ req'[r] = req[r] \/ req'[r] = Idle
           \/ \E j \in Job : CompleteRead(r, j)
           \/ ReadBalance(r) \/ Advance(r) \/ Take(r) \/ Put(r)
<1> DEFINE P == \/ req'[r] = req[r] \/ req'[r] = Idle
                \/ \E j \in Job : CompleteRead(r, j)
                \/ ReadBalance(r) \/ Advance(r) \/ Take(r) \/ Put(r)
<1>1. ASSUME req' = req
      PROVE  P
    BY <1>1
<1>2. ASSUME NEW s \in Req, NEW j \in Job, CompleteRead(s, j)
      PROVE  P
    BY <1>2 DEF CompleteRead, TypeOK
<1>3. ASSUME NEW s \in Req, ReadBalance(s)
      PROVE  P
    BY <1>3, ReadMoves
<1>8. ASSUME NEW s \in Req, Advance(s)
      PROVE  P
    BY <1>8, AdvanceMoves
<1>4. ASSUME NEW s \in Req, Take(s)
      PROVE  P
    <2>1. s # r => req'[r] = req[r]
        BY <1>4 DEF Take, Writes, TypeOK
    <2> QED BY <1>4, <2>1
<1>5. ASSUME NEW s \in Req, Put(s)
      PROVE  P
    <2>1. s # r => req'[r] = req[r]
        BY <1>5 DEF Put, Writes, TypeOK
    <2> QED BY <1>5, <2>1
<1>6. ASSUME NEW s \in Req, Finish(s)
      PROVE  P
    BY <1>6 DEF Finish, TypeOK
<1>7. P
    <2> HIDE DEF P
    <2>1. \/ req' = req
          \/ \E s \in Req : \/ \E j \in Job : CompleteRead(s, j)
                            \/ ReadBalance(s) \/ Advance(s) \/ Take(s) \/ Put(s) \/ Finish(s)
      BY DEF Next, Step, Advance, Others, CompleteCommit, Refuse, Victim, Fail,
       RolledBack, Land, Clear, SetBalance, SetHub, PostDraftBilling, CreateTransfer,
          CreateTransformation,
       Draft, vars
    <2>2. ASSUME NEW s \in Req,
                 \/ \E j \in Job : CompleteRead(s, j)
                 \/ ReadBalance(s) \/ Advance(s) \/ Take(s) \/ Put(s) \/ Finish(s)
          PROVE  P
        BY <2>2, <1>2, <1>3, <1>4, <1>5, <1>6, <1>8
    <2> QED BY <2>1, <2>2, <1>1
<1> QED BY <1>7 DEF P

LEMMA Divides ==
    ASSUME NEW k \in Nat, NEW q \in Nat \ {0}
    PROVE  (k * q) \div q = k
OBVIOUS

(* A job's script and its being there outlast every step.                  *)
JobKept(j) == job[j].status # "ABSENT" =>
                  job'[j].status # "ABSENT" /\ job'[j].script = job[j].script

(* What a step does to jobs, bills and requests, for every step that       *)
(* neither creates nor commits.                                            *)
LEMMA Quiet ==
    ASSUME TypeOK, [Next]_vars,
           \A j \in Job : \A script \in Script : ~Draft(j, script),
           \A r \in Req : ~CompleteCommit(r)
    PROVE  /\ job' = job
           /\ \A j \in Job : bills'[j].draft + bills'[j].posted = bills[j].draft + bills[j].posted
<1>1. \A j \in Transfer : ~CreateTransfer(j)
    BY TransferScriptShape DEF CreateTransfer, Job
<1>2. \A j \in Transform : ~CreateTransformation(j)
    BY TransformationScriptShape DEF CreateTransformation, Job
<1>3. job' = job
    BY <1>1, <1>2 DEF Next, Step, Others, CompleteRead, ReadBalance, ReadHub, Check, Take, Put,
       Refuse, Victim, Fail,
       RolledBack, Land, Clear, SetBalance, SetHub, PostDraftBilling, vars
<1>4. CASE PostDraftBilling
    <2>1. \A j \in Job : bills'[j] = [draft |-> 0, posted |-> bills[j].posted + bills[j].draft]
        BY <1>4 DEF PostDraftBilling
    <2>2. \A j \in Job : bills[j].draft \in Nat /\ bills[j].posted \in Nat
        BY DEF TypeOK
    <2>3. \A j \in Job : bills'[j].draft + bills'[j].posted = bills[j].draft + bills[j].posted
        <3> TAKE j \in Job
        <3> DEFINE d == bills[j].draft
                   p == bills[j].posted
        <3>1. d \in Nat /\ p \in Nat /\ bills'[j] = [draft |-> 0, posted |-> p + d]
            BY <2>1, <2>2
        <3> HIDE DEF d, p
        <3>2. bills'[j].draft = 0 /\ bills'[j].posted = p + d
            BY <3>1
        <3>3. bills'[j].draft + bills'[j].posted = d + p
            BY <3>1, <3>2
        <3> QED BY <3>3 DEF d, p
    <2> QED BY <1>3, <2>3
<1>5. CASE ~PostDraftBilling
    <2>1. bills' = bills
        BY <1>1, <1>2, <1>5 DEF Next, Step, Others, CompleteRead, ReadBalance, ReadHub, Check,
           Take, Put, Refuse,
           Victim, Fail, RolledBack, Land, Clear, SetBalance, SetHub, vars
    <2> QED BY <1>3, <2>1
<1> QED BY <1>4, <1>5

(* Creation: of a job that was absent, with nothing billed.                *)
LEMMA Creation ==
    ASSUME TypeOK, NEW j \in Job, NEW script \in Script, Draft(j, script)
    PROVE  /\ job[j] = NoJob /\ job'[j] = [status |-> "DRAFT", script |-> script]
           /\ \A i \in Job \ {j} : job'[i] = job[i]
           /\ bills' = bills /\ req' = req /\ balance' = balance
           /\ receipts' = receipts /\ adjusted' = adjusted /\ raced' = raced
BY DEF Draft, TypeOK

(* A commit: of the job of a completion that ran its whole script.         *)
LEMMA Commit ==
    ASSUME TypeOK, Shape, NEW r \in Req, CompleteCommit(r)
    PROVE  /\ InFlight(r) /\ req[r].job \in Job
           /\ job'[req[r].job].status = "COMPLETED"
           /\ \A j \in Job : job'[j].script = job[j].script
           /\ \A j \in Job \ {req[r].job} : job'[j] = job[j] /\ bills'[j] = bills[j]
           /\ bills'[req[r].job].draft = bills[req[r].job].draft + QtyOf(req[r].job, "put")
           /\ bills'[req[r].job].posted = bills[req[r].job].posted
           /\ QtyOf(req[r].job, "put") \in Nat \ {0}
           /\ req[r].pc = Len(job[req[r].job].script) + 1
           /\ \A c \in Cell : balance'[c] = balance[c] + req[r].own[c]
           /\ \A c \in Cell : req[r].own[c] = Net(req[r].job, c)
           /\ req' = [req EXCEPT ![r] = Idle]
           /\ receipts' = receipts /\ adjusted' = adjusted /\ raced' = raced
<1>1. InFlight(r) /\ req[r].job \in Job
    BY ReqFields DEF CompleteCommit
<1>2. PICK j \in Job : j = req[r].job
    BY <1>1
<1>3. Flight(r) /\ JobShape(j) /\ job[j].status # "ABSENT"
    BY <1>1, <1>2 DEF Shape, Flight
<1>4. QtyOf(j, "put") \in Nat \ {0}
    BY <1>3, ScriptQty DEF JobShape
<1>5. req[r].pc = Len(job[j].script) + 1
    <2>1. Len(job[j].script) \in Nat /\ req[r].pc \in Nat
        BY <1>1, <1>2, ReqFields
    <2> QED BY <1>1, <1>2, <1>3, <2>1 DEF CompleteCommit, Running, Flight
<1>6. \A c \in Cell : req[r].own[c] = Net(j, c)
    <2>1. Len(job[j].script) \in Nat
        BY <1>1, <1>2, ReqFields
    <2> QED BY <1>1, <1>2, <1>3, <1>5, <2>1, NetIsPartial DEF Flight
<1>7. \A c \in Cell : balance'[c] = balance[c] + req[r].own[c]
    <2>1. \A c \in Cell : balance'[c] = IF Holds(r, c)
                        THEN balance[c] + req[r].own[c] ELSE balance[c]
        BY DEF CompleteCommit, AfterCommit
    <2>2. \A c \in Cell : ~Holds(r, c) => req[r].own[c] = 0
        BY <1>1, <1>3 DEF Flight, Holds
    <2> QED BY <2>1, <2>2 DEF TypeOK
<1>8. /\ job'[j].status = "COMPLETED" /\ \A i \in Job : job'[i].script = job[i].script
      /\ \A i \in Job \ {j} : job'[i] = job[i]
    BY <1>2 DEF CompleteCommit, TypeOK
<1>9. /\ bills'[j].draft = bills[j].draft + QtyOf(j, "put") /\ bills'[j].posted = bills[j].posted
      /\ \A i \in Job \ {j} : bills'[i] = bills[i]
    <2> DEFINE b == BilledQty(j)
    <2>1. bills' = [bills EXCEPT ![j].draft = @ + b]
        BY <1>2 DEF CompleteCommit
    <2>2. b = QtyOf(j, "put") /\ bills \in [Job -> [draft : Nat, posted : Nat]]
        BY DEF BilledQty, TypeOK
    <2> HIDE DEF b
    <2> QED BY <2>1, <2>2
<1> QED BY <1>1, <1>2, <1>4, <1>5, <1>6, <1>7, <1>8, <1>9 DEF CompleteCommit, Finish

LEMMA ScriptsKept ==
    ASSUME TypeOK, Shape, [Next]_vars
    PROVE  \A j \in Job : JobKept(j)
<1>1. CASE \E j \in Job : \E script \in Script : Draft(j, script)
    <2>1. PICK j \in Job, script \in Script : Draft(j, script)
        BY <1>1
    <2>2. job[j] = NoJob /\ \A i \in Job \ {j} : job'[i] = job[i]
        BY <2>1, Creation
    <2> QED BY <2>2 DEF JobKept, NoJob
<1>2. CASE \E r \in Req : CompleteCommit(r)
    <2>1. PICK r \in Req : CompleteCommit(r)
        BY <1>2
    <2> QED BY <2>1, Commit DEF JobKept
<1>3. CASE /\ \A j \in Job : \A script \in Script : ~Draft(j, script)
           /\ \A r \in Req : ~CompleteCommit(r)
    BY <1>3, Quiet DEF JobKept
<1> QED BY <1>1, <1>2, <1>3

(* A completion that a step leaves alone.                                  *)
LEMMA FlightKept ==
    ASSUME TypeOK, Shape, [Next]_vars, NEW r \in Req, req'[r] = req[r]
    PROVE  /\ Flight(r)'
           /\ InFlight(r) => /\ job'[req[r].job].script = job[req[r].job].script
                             /\ Takes(req[r].job)' = Takes(req[r].job)
                             /\ Current(r)' = Current(r) /\ (Running(r)' <=> Running(r))
<1>1. CASE ~InFlight(r)
    BY <1>1 DEF Flight, InFlight
<1>2. CASE InFlight(r)
    <2>1. PICK j \in Job : j = req[r].job
        BY <1>2, ReqFields
    <2>2. Flight(r) /\ InFlight(r)'
        BY <1>2 DEF Shape, InFlight
    <2>3. job'[j].status # "ABSENT" /\ job'[j].script = job[j].script
        BY <1>2, <2>1, <2>2, ScriptsKept DEF Flight, JobKept
    <2>4. Current(r)' = Current(r) /\ (Running(r)' <=> Running(r))
        BY <1>2, <2>1, <2>2, <2>3 DEF Current, Running
    <2>5. Takes(j)' = Takes(j)
        BY <2>3 DEF Takes
    <2> QED BY <1>2, <2>1, <2>2, <2>3, <2>4, <2>5 DEF Flight
<1> QED BY <1>1, <1>2

(* What a write adds to its cell is what the statement is worth there.     *)
LEMMA WriteAdds ==
    ASSUME TypeOK, Shape, NEW r \in Req, Running(r),
           NEW d \in Int, d = IF Current(r).op = "put" THEN Current(r).qty ELSE -Current(r).qty,
           Writes(r, Current(r).cell, d), [Next]_vars
    PROVE  /\ InFlight(r) /\ InFlight(r)' /\ req'[r].job = req[r].job
           /\ req'[r].pc = req[r].pc + 1 /\ req'[r].at = "next"
           /\ \A c \in Cell : req'[r].own[c] = req[r].own[c] + Change(Current(r), c)
           /\ \A s \in Req \ {r} : req'[s] = req[s]
           /\ Flight(r)'
<1> DEFINE t == Current(r)
           script == job[req[r].job].script
           n == req[r].pc
<1>1. /\ InFlight(r) /\ n \in 1..Len(script) /\ t \in Statement /\ t.cell \in Cell
      /\ t.qty \in Nat /\ script \in Seq(Statement) /\ t = script[n]
    BY CurrentStatement, ReqFields DEF Current
<1>a. PICK c0 \in Cell : c0 = t.cell
    BY <1>1
<1>b. Writes(r, c0, d)
    BY <1>a
<1>d. InFlight(r)
    BY <1>1
<1>c. /\ InFlight(r)' /\ req'[r].at = "next" /\ req'[r].job = req[r].job
      /\ req'[r].pc = req[r].pc + 1
      /\ req'[r].rows = req[r].rows \cup {c0}
      /\ req'[r].own = [req[r].own EXCEPT ![c0] = @ + d]
      /\ \A s \in Req \ {r} : req'[s] = req[s]
    BY <1>b, <1>d, WritesMoves
<1>2. /\ InFlight(r)' /\ req'[r].at = "next" /\ req'[r].job = req[r].job /\ req'[r].pc = n + 1
      /\ req'[r].rows = req[r].rows \cup {t.cell}
      /\ req'[r].own = [req[r].own EXCEPT ![t.cell] = @ + d]
      /\ \A s \in Req \ {r} : req'[s] = req[s]
    BY <1>a, <1>c
<1>3. req[r].own \in [Cell -> Int] /\ Flight(r)
    BY <1>1, ReqFields DEF Shape
<1>4. ASSUME NEW c \in Cell
      PROVE  /\ req'[r].own[c] = req[r].own[c] + Change(t, c)
             /\ req'[r].own[c] # 0 => c \in req'[r].rows
    <2>1. CASE c = t.cell
        <3>1. req'[r].own[c] = req[r].own[c] + d
            BY <1>1, <1>2, <1>3, <2>1
        <3>2. Change(t, c) = d
            BY <2>1 DEF Change
        <3> QED BY <1>2, <2>1, <3>1, <3>2
    <2>2. CASE c # t.cell
        <3>1. req'[r].own[c] = req[r].own[c] /\ req[r].own[c] \in Int
            BY <1>1, <1>2, <1>3, <2>2
        <3>2. Change(t, c) = 0
            BY <2>2 DEF Change
        <3>3. req[r].own[c] # 0 => c \in req[r].rows
            BY <1>1, <1>3 DEF Flight
        <3> QED BY <1>2, <3>1, <3>2, <3>3
    <2> QED BY <2>1, <2>2
<1>5. job[req[r].job].status # "ABSENT" /\ req[r].job \in Job
    BY <1>1, <1>3, ReqFields DEF Flight
<1>6. job'[req[r].job].status # "ABSENT" /\ job'[req[r].job].script = script
    BY <1>5, ScriptsKept DEF JobKept
<1>7. ASSUME NEW c \in Cell
      PROVE  req'[r].own[c] = Partial(script, n, c)
    <2>1. req[r].own[c] = Partial(script, n - 1, c)
        BY <1>1, <1>3 DEF Flight
    <2>2. Partial(script, n, c) = Partial(script, n - 1, c) + Change(script[n], c)
        BY <1>1, PartialStep
    <2> QED BY <1>1, <1>4, <2>1, <2>2
<1>8. (n + 1) - 1 = n /\ n + 1 <= Len(script) + 1
    <2>1. n \in 1..Len(script)
        BY <1>1
    <2>2. Len(script) \in Nat
        <3>1. script \in Seq(Statement)
            BY <1>1
        <3> HIDE DEF script
        <3> QED BY <3>1
    <2> HIDE DEF n, script
    <2> QED BY <2>1, <2>2
<1> HIDE DEF t, script, n
<1>9. Flight(r)'
    BY <1>2, <1>4, <1>6, <1>7, <1>8 DEF Flight, script, n
<1> QED BY <1>1, <1>2, <1>4, <1>9 DEF t, n

-----------------------------------------------------------------------------
LEMMA PutsQtyNat ==
    ASSUME NEW script \in Seq(Statement), Puts(script)
    PROVE  PutsQty(script) \in Nat \ {0}
<1> DEFINE f == [i \in DOMAIN script |-> script[i].qty]
           I == {i \in DOMAIN script : script[i].op = "put"}
<1>1. DOMAIN script = 1..Len(script) /\ Len(script) \in Nat
    OBVIOUS
<1>2. \A i \in DOMAIN script : f[i] \in Nat \ {0}
    BY StatementFields
<1>3. IsFiniteSet(1..Len(script)) /\ I \subseteq 1..Len(script)
    BY <1>1, FS_Interval
<1>4. IsFiniteSet(I) /\ \A i \in I : f[i] \in Nat \ {0}
    BY <1>2, <1>3, FS_Subset
<1>5. \E i \in I : TRUE
    BY <1>1 DEF Puts
<1>6. PutsQty(script) = SumFunctionOnSet(f, I)
    BY DEF PutsQty
<1> HIDE DEF f, I
<1>7. SumFunctionOnSet(f, I) \in Nat /\ \A i \in I : f[i] <= SumFunctionOnSet(f, I)
    BY <1>4, SumNat
<1> QED BY <1>4, <1>5, <1>6, <1>7

LEMMA OnceMore ==
    ASSUME NEW k \in Nat, NEW q \in Nat \ {0}
    PROVE  k * q + q = (k + 1) * q /\ (k * q + q) \div q = k + 1
<1>1. k * q + q = (k + 1) * q /\ k + 1 \in Nat
    OBVIOUS
<1>2. ((k + 1) * q) \div q = k + 1
    BY <1>1, Divides
<1> QED BY <1>1, <1>2

(* Only a commit counts as carrying a job out.                             *)
LEMMA TimesKept ==
    ASSUME TypeOK, Shape, [Next]_vars, \A r \in Req : ~CompleteCommit(r)
    PROVE  \A j \in Job : Times(j)' = Times(j) /\ BilledTimes(j)'
<1> SUFFICES ASSUME NEW j \in Job
             PROVE  Times(j)' = Times(j) /\ BilledTimes(j)'
    OBVIOUS
<1>1. BilledTimes(j) /\ JobShape(j)
    BY DEF Shape
<1>2. CASE \A i \in Job : \A script \in Script : ~Draft(i, script)
    <2>1. job' = job /\ bills'[j].draft + bills'[j].posted = bills[j].draft + bills[j].posted
        BY <1>2, Quiet
    <2>2. QtyOf(j, "put")' = QtyOf(j, "put")
        BY <2>1 DEF QtyOf
    <2>3. Times(j)' = Times(j)
        BY <2>1, <2>2 DEF Times
    <2> QED BY <1>1, <2>1, <2>2, <2>3 DEF BilledTimes
<1>3. CASE \E i \in Job : \E script \in Script : Draft(i, script)
    <2>1. PICK i \in Job, script \in Script : Draft(i, script)
        BY <1>3
    <2>2. /\ job[i] = NoJob /\ job'[i] = [status |-> "DRAFT", script |-> script]
          /\ \A k \in Job \ {i} : job'[k] = job[k]
          /\ bills' = bills
        BY <2>1, Creation
    <2>3. CASE j # i
        <3>1. job'[j] = job[j]
            BY <2>2, <2>3
        <3>2. QtyOf(j, "put")' = QtyOf(j, "put")
            BY <3>1 DEF QtyOf
        <3> QED BY <1>1, <2>2, <3>1, <3>2 DEF BilledTimes, Times
    <2>4. CASE j = i
        <3>1. Times(j) = 0
            BY <2>2, <2>4 DEF Times
        <3>2. bills[j].draft \in Nat /\ bills[j].posted \in Nat
            BY DEF TypeOK
        <3>3. QtyOf(j, "put") \in Nat
            BY ScriptQty
        <3>4. bills[j].draft + bills[j].posted = 0
            BY <1>1, <3>1, <3>3 DEF BilledTimes
        <3>5. Puts(script)
            BY <2>1, <2>4, CreatedShape
        <3>6. PutsQty(script) \in Nat \ {0}
            BY <3>5, PutsQtyNat DEF Script
        <3>7. QtyOf(j, "put")' = PutsQty(script)
            <4>1. job'[j].script = script
                BY <2>2, <2>4
            <4> QED BY <4>1 DEF QtyOf, PutsQty
        <3>8. job'[j] # NoJob
            BY <2>2, <2>4 DEF NoJob
        <3>9. Times(j)' = 0 \div PutsQty(script)
            BY <2>2, <3>4, <3>7, <3>8 DEF Times
        <3>10. Times(j)' = 0
            BY <3>6, <3>9
        <3> QED BY <2>2, <3>1, <3>4, <3>6, <3>7, <3>10 DEF BilledTimes
    <2> QED BY <2>3, <2>4
<1> QED BY <1>2, <1>3

LEMMA TimesCommit ==
    ASSUME TypeOK, Shape, NEW r \in Req, CompleteCommit(r), NEW k \in Job, k = req[r].job
    PROVE  /\ \A j \in Job \ {k} : Times(j)' = Times(j) /\ BilledTimes(j)'
           /\ Times(k)' = Times(k) + 1 /\ BilledTimes(k)'
<1>1. /\ req[r].job \in Job /\ InFlight(r)
      /\ job'[req[r].job].status = "COMPLETED"
      /\ \A j \in Job : job'[j].script = job[j].script
      /\ \A j \in Job \ {req[r].job} : job'[j] = job[j] /\ bills'[j] = bills[j]
      /\ bills'[req[r].job].draft = bills[req[r].job].draft + QtyOf(req[r].job, "put")
      /\ bills'[req[r].job].posted = bills[req[r].job].posted
      /\ QtyOf(req[r].job, "put") \in Nat \ {0}
    BY Commit
<1>2. k = req[r].job
    OBVIOUS
<1>3. \A j \in Job : QtyOf(j, "put")' = QtyOf(j, "put")
    BY <1>1 DEF QtyOf
<1>4. \A j \in Job : BilledTimes(j)
    BY DEF Shape
<1>5. ASSUME NEW j \in Job \ {k}
      PROVE  Times(j)' = Times(j) /\ BilledTimes(j)'
    <2>1. job'[j] = job[j] /\ bills'[j] = bills[j]
        BY <1>1, <1>2
    <2> QED BY <1>3, <1>4, <2>1 DEF BilledTimes, Times
<1>6. Times(k)' = Times(k) + 1 /\ BilledTimes(k)'
    <2> DEFINE q == QtyOf(k, "put")
               n == Times(k)
    <2>1. q \in Nat \ {0} /\ n \in Nat /\ bills[k].draft + bills[k].posted = n * q
        BY <1>1, <1>2, <1>4 DEF BilledTimes
    <2>2. bills[k].draft \in Nat /\ bills[k].posted \in Nat
        BY DEF TypeOK
    <2>3. bills'[k].draft + bills'[k].posted = bills[k].draft + q + bills[k].posted
        BY <1>1, <1>2
    <2>4. job'[k] # NoJob
        BY <1>1, <1>2 DEF NoJob
    <2>5. Times(k)' = (bills'[k].draft + bills'[k].posted) \div q
        BY <1>3, <2>4 DEF Times
    <2>6. QtyOf(k, "put")' = q
        BY <1>3
    <2> HIDE DEF q, n
    <2>7. bills'[k].draft + bills'[k].posted = n * q + q
        <3> DEFINE x == bills[k].draft
                   y == bills[k].posted
                   m == n * q
        <3>1. x \in Nat /\ y \in Nat /\ x + y = m /\ q \in Nat
            BY <2>1, <2>2
        <3> HIDE DEF x, y, m
        <3>2. x + q + y = m + q
            BY <3>1
        <3> QED BY <2>3, <3>2 DEF x, y, m
    <2>8. Times(k)' = n + 1 /\ n * q + q = (n + 1) * q
        BY <2>1, <2>5, <2>7, OnceMore
    <2> QED BY <2>1, <2>6, <2>7, <2>8 DEF BilledTimes, n
<1> QED BY <1>5, <1>6

LEMMA ShapeStep ==
    ASSUME TypeOK, Shape, [Next]_vars
    PROVE  Shape'
<1>1. \A j \in Job : BilledTimes(j)'
    <2>1. CASE \A r \in Req : ~CompleteCommit(r)
        BY <2>1, TimesKept
    <2>2. ASSUME NEW r \in Req, CompleteCommit(r)
          PROVE  \A j \in Job : BilledTimes(j)'
        <3>1. PICK k \in Job : k = req[r].job
            BY <2>2, Commit
        <3> QED BY <2>2, <3>1, TimesCommit
    <2> QED BY <2>1, <2>2
<1>2. ASSUME NEW j \in Job
      PROVE  JobShape(j)'
    <2>0. JobShape(j)
        BY DEF Shape
    <2>1. CASE \E i \in Job : \E script \in Script : Draft(i, script)
        <3>1. PICK i \in Job, script \in Script : Draft(i, script)
            BY <2>1
        <3>2. /\ job'[i] = [status |-> "DRAFT", script |-> script]
              /\ \A k \in Job \ {i} : job'[k] = job[k]
            BY <3>1, Creation
        <3>3. Puts(script) /\ (i \in Transfer => Paired(script))
            BY <3>1, CreatedShape
        <3>4. CASE j = i
            BY <3>2, <3>3, <3>4 DEF JobShape
        <3>5. CASE j # i
            <4>1. job'[j] = job[j]
                BY <3>2, <3>5
            <4> QED BY <2>0, <4>1 DEF JobShape
        <3> QED BY <3>4, <3>5
    <2>2. ASSUME NEW r \in Req, CompleteCommit(r)
          PROVE  JobShape(j)'
        <3>1. /\ req[r].job \in Job /\ job'[req[r].job].status = "COMPLETED"
              /\ \A i \in Job : job'[i].script = job[i].script
              /\ \A i \in Job \ {req[r].job} : job'[i] = job[i]
              /\ job[req[r].job].status # "ABSENT"
            BY <2>2, Commit DEF Shape, Flight
        <3>2. CASE j = req[r].job
            BY <2>0, <3>1, <3>2 DEF JobShape
        <3>3. CASE j # req[r].job
            BY <2>0, <3>1, <3>3 DEF JobShape
        <3> QED BY <3>2, <3>3
    <2>3. CASE /\ \A i \in Job : \A script \in Script : ~Draft(i, script)
               /\ \A r \in Req : ~CompleteCommit(r)
        <3>1. job' = job
            BY <2>3, Quiet
        <3> QED BY <2>0, <3>1 DEF JobShape
    <2> QED BY <2>1, <2>2, <2>3
<1>3. ASSUME NEW r \in Req
      PROVE  Flight(r)'
    <2>1. CASE req'[r] = req[r]
        BY <2>1, FlightKept
    <2>2. CASE req'[r] = Idle
        BY <2>2 DEF Flight, InFlight
    <2>3. ASSUME NEW j \in Job, CompleteRead(r, j)
          PROVE  Flight(r)'
        <3>1. /\ req'[r] = [at |-> "next", job |-> j, pc |-> 1, seen |-> 0,
                            rows |-> {}, own |-> [c \in Cell |-> 0]]
              /\ job' = job /\ job[j].status = "DRAFT"
            BY <2>3 DEF CompleteRead, Completable, TypeOK
        <3>2. /\ req'[r].at = "next" /\ req'[r].job = j /\ req'[r].pc = 1
              /\ \A c \in Cell : req'[r].own[c] = 0
            BY <3>1
        <3>3. \A c \in Cell : Partial(job[j].script, 0, c) = 0
            BY PartialNone
        <3>4. 1 <= Len(job[j].script) + 1
            BY DEF TypeOK, Script
        <3> QED BY <3>1, <3>2, <3>3, <3>4 DEF Flight
    <2>4. CASE ReadBalance(r)
        <3>1. /\ InFlight(r) /\ InFlight(r)'
              /\ req'[r].at = "balance" /\ req'[r].job = req[r].job /\ req'[r].pc = req[r].pc
              /\ req'[r].rows = req[r].rows /\ req'[r].own = req[r].own
            BY <2>4, ReadMoves
        <3>2. job' = job /\ Running(r) /\ Current(r).op = "take"
            BY <2>4 DEF ReadBalance
        <3>3. Flight(r)
            BY DEF Shape
        <3>4. Current(r)' = Current(r) /\ Running(r)'
            BY <3>1, <3>2 DEF Current, Running
        <3> QED BY <3>1, <3>2, <3>3, <3>4 DEF Flight
    <2>8. CASE Advance(r)
        <3>1. /\ InFlight(r) /\ InFlight(r)' /\ req'[r].at # "next"
              /\ req'[r].job = req[r].job /\ req'[r].pc = req[r].pc
              /\ req'[r].rows = req[r].rows /\ req'[r].own = req[r].own
              /\ job' = job /\ Running(r) /\ Current(r)' = Current(r)
            BY <2>8, AdvanceMoves
        <3>2. Flight(r) /\ req[r].at # "next"
            BY <2>8 DEF Shape, Advance, ReadHub, Check, Checking
        <3>3. Running(r)'
            BY <3>1 DEF Running
        <3> QED BY <3>1, <3>2, <3>3 DEF Flight
    <2>5. CASE Take(r)
        <3>1. Running(r) /\ Writes(r, Current(r).cell, -Current(r).qty)
            BY <2>5 DEF Take
        <3>2. Current(r).op = "take" /\ -Current(r).qty \in Int
            BY <2>5, <3>1, CurrentStatement DEF Take, Shape, Flight
        <3> QED BY <3>1, <3>2, WriteAdds
    <2>6. CASE Put(r)
        <3>1. Running(r) /\ Writes(r, Current(r).cell, Current(r).qty) /\ Current(r).op = "put"
            BY <2>6 DEF Put
        <3>2. Current(r).qty \in Int
            BY <3>1, CurrentStatement
        <3> QED BY <3>1, <3>2, WriteAdds
    <2>7. req'[r] = req[r] \/ req'[r] = Idle \/ (\E j \in Job : CompleteRead(r, j))
          \/ ReadBalance(r) \/ Advance(r) \/ Take(r) \/ Put(r)
        BY ReqMoves
    <2> QED BY <2>1, <2>2, <2>3, <2>4, <2>5, <2>6, <2>7, <2>8
<1> QED BY <1>1, <1>2, <1>3 DEF Shape

(* The shape of jobs, bills and completions, in every state.               *)
LEMMA Shaped == Spec => [](TypeOK /\ Shape)
<1>1. Init => Shape
    <2> SUFFICES ASSUME Init
                 PROVE  Shape
        OBVIOUS
    <2>1. \A j \in Job : job[j] = NoJob /\ job[j].status = "ABSENT"
        BY DEF Init, NoJob
    <2>2. \A j \in Job : bills[j].draft + bills[j].posted = 0 /\ Times(j) = 0
        BY <2>1 DEF Init, Times
    <2>3. TypeOK
        BY DEF Init, TypeOK, NoJob, Script
    <2>4. \A j \in Job : QtyOf(j, "put") \in Nat
        BY <2>3, ScriptQty
    <2>5. \A r \in Req : ~InFlight(r)
        BY DEF Init, InFlight
    <2> QED BY <2>1, <2>2, <2>4, <2>5 DEF Shape, JobShape, BilledTimes, Flight
<1>2. TypeOK /\ Shape /\ [Next]_vars => Shape'
    BY ShapeStep
<1> QED BY <1>1, <1>2, TypeCorrect, PTL DEF Spec

-----------------------------------------------------------------------------
LEMMA NetInt ==
    ASSUME NEW script \in Seq(Statement), NEW c
    PROVE  SumFunction([i \in DOMAIN script |-> Change(script[i], c)]) \in Int
<1> DEFINE f == [i \in DOMAIN script |-> Change(script[i], c)]
<1>1. DOMAIN f = 1..Len(script) /\ Len(script) \in Nat
    OBVIOUS
<1>2. \A i \in DOMAIN f : f[i] \in Int
    BY ChangeInt
<1>3. IsFiniteSet(DOMAIN f)
    BY <1>1, FS_Interval
<1> HIDE DEF f
<1>4. SumFunctionOnSet(f, DOMAIN f) \in Int
    BY <1>2, <1>3, SumInt
<1> QED BY <1>4 DEF SumFunction, f

(* What the carried-out jobs add to cell c.                                *)
Moved(c) == SumFunction([j \in Job |-> Times(j) * Net(j, c)])

LEMMA MovedKept ==
    ASSUME TypeOK, TypeOK', Shape, [Next]_vars, NEW c \in Cell, \A r \in Req : ~CompleteCommit(r)
    PROVE  Moved(c)' = Moved(c) /\ Moved(c) \in Int
<1> DEFINE f == [j \in Job |-> Times(j) * Net(j, c)]
           g == [j \in Job |-> Times(j)' * Net(j, c)']
<1>1. \A j \in Job : Times(j)' = Times(j)
    BY TimesKept
<1>2. \A j \in Job : Times(j) \in Nat
    BY DEF Shape, BilledTimes
<1>3. \A j \in Job : job[j].script \in Seq(Statement) /\ job'[j].script \in Seq(Statement)
    BY DEF TypeOK, Script
<1>4. \A j \in Job : Net(j, c) \in Int /\ Net(j, c)' \in Int
    BY <1>3, NetInt DEF Net
<1>5. ASSUME NEW j \in Job
      PROVE  f[j] = g[j] /\ f[j] \in Int
    <2>1. CASE job[j].status # "ABSENT"
        <3>1. job'[j].script = job[j].script
            BY <2>1, ScriptsKept DEF JobKept
        <3>2. Net(j, c)' = Net(j, c)
            BY <3>1 DEF Net
        <3>3. Times(j) * Net(j, c) \in Int
            BY <1>2, <1>4
        <3> QED BY <1>1, <3>2, <3>3
    <2>2. CASE job[j].status = "ABSENT"
        <3>1. Times(j) = 0
            BY <2>2 DEF Shape, JobShape, Times
        <3> QED BY <1>1, <1>4, <3>1
    <2> QED BY <2>1, <2>2
<1>6. Moved(c) = SumFunctionOnSet(f, Job) /\ Moved(c)' = SumFunctionOnSet(g, Job)
    BY DEF Moved, SumFunction
<1> HIDE DEF f, g
<1> QED BY <1>5, <1>6, SetsFinite, SumSame, SumInt

LEMMA MovedByCommit ==
    ASSUME TypeOK, Shape, NEW c \in Cell, NEW r \in Req, CompleteCommit(r)
    PROVE  Moved(c)' = Moved(c) + req[r].own[c] /\ Moved(c) \in Int /\ req[r].own[c] \in Int
<1> DEFINE f == [j \in Job |-> Times(j) * Net(j, c)]
           g == [j \in Job |-> Times(j)' * Net(j, c)']
<1>1. /\ req[r].job \in Job /\ InFlight(r) /\ req[r].own[c] = Net(req[r].job, c)
      /\ \A j \in Job : job'[j].script = job[j].script
    BY Commit
<1>2. PICK k \in Job : k = req[r].job
    BY <1>1
<1>3. \A j \in Job \ {k} : Times(j)' = Times(j)
    BY <1>2, TimesCommit
<1>4. Times(k)' = Times(k) + 1
    BY <1>2, TimesCommit
<1>5. \A j \in Job : Times(j) \in Nat
    BY DEF Shape, BilledTimes
<1>6. \A j \in Job : job[j].script \in Seq(Statement)
    BY DEF TypeOK, Script
<1>7. \A j \in Job : Net(j, c) \in Int
    BY <1>6, NetInt DEF Net
<1>8. \A j \in Job : Net(j, c)' = Net(j, c)
    BY <1>1 DEF Net
<1>9. \A j \in Job : f[j] \in Int
    <2> TAKE j \in Job
    <2>1. Times(j) * Net(j, c) \in Int
        BY <1>5, <1>7
    <2> QED BY <2>1
<1>10. \A j \in Job \ {k} : f[j] = g[j]
    BY <1>3, <1>8
<1>11. g[k] = f[k] + Net(k, c)
    <2> DEFINE t == Times(k)
               n == Net(k, c)
    <2>1. t \in Nat /\ n \in Int
        BY <1>5, <1>7
    <2>2. g[k] = (t + 1) * n /\ f[k] = t * n
        BY <1>4, <1>8
    <2> HIDE DEF t, n, f, g
    <2>3. (t + 1) * n = t * n + n
        BY <2>1
    <2> QED BY <2>2, <2>3 DEF n
<1>12. Moved(c) = SumFunctionOnSet(f, Job) /\ Moved(c)' = SumFunctionOnSet(g, Job)
    BY DEF Moved, SumFunction
<1> HIDE DEF f, g
<1>13. \A j \in Job : g[j] \in Int
    <2>1. g[k] \in Int
        BY <1>7, <1>9, <1>11
    <2> QED BY <1>9, <1>10, <2>1
<1>14. SumFunctionOnSet(g, Job) = SumFunctionOnSet(f, Job) - f[k] + g[k]
    BY <1>9, <1>10, <1>13, SetsFinite, SumChange
<1>15. SumFunctionOnSet(f, Job) \in Int
    BY <1>9, SetsFinite, SumInt
<1>16. f[k] \in Int /\ Net(k, c) \in Int
    BY <1>7, <1>9
<1> QED BY <1>1, <1>2, <1>11, <1>12, <1>14, <1>15, <1>16

-----------------------------------------------------------------------------
Receipt == [cell : Cell, qty : Qty, held : BOOLEAN]
Brought(rs) == [i \in DOMAIN rs |-> rs[i].qty]

LEMMA QtyNat == \A q \in Qty : q \in Nat /\ q \in Int
BY StockMovesAssumption

LEMMA ReceiptSums ==
    ASSUME NEW rs \in Seq(Receipt), NEW I \in SUBSET DOMAIN rs
    PROVE  /\ IsFiniteSet(I) /\ \A i \in I : Brought(rs)[i] \in Nat
           /\ SumFunctionOnSet(Brought(rs), I) \in Nat
<1>1. DOMAIN rs = 1..Len(rs) /\ Len(rs) \in Nat
    OBVIOUS
<1>2. IsFiniteSet(I)
    <2>1. IsFiniteSet(1..Len(rs)) /\ I \subseteq 1..Len(rs)
        BY <1>1, FS_Interval
    <2> QED BY <2>1, FS_Subset
<1>3. \A i \in DOMAIN rs : rs[i].qty \in Nat
    <2>1. \A i \in DOMAIN rs : rs[i] \in Receipt
        OBVIOUS
    <2> QED BY <2>1, StockMovesAssumption DEF Receipt
<1>4. \A i \in I : Brought(rs)[i] \in Nat
    BY <1>3 DEF Brought
<1> QED BY <1>2, <1>4, SumNat

LEMMA ReceiptAppended ==
    ASSUME NEW rs \in Seq(Receipt), NEW x \in Receipt, NEW I \in SUBSET DOMAIN rs
    PROVE  /\ SumFunctionOnSet(Brought(Append(rs, x)), I) = SumFunctionOnSet(Brought(rs), I)
           /\ SumFunctionOnSet(Brought(Append(rs, x)), I \cup {Len(rs) + 1}) =
                  SumFunctionOnSet(Brought(rs), I) + x.qty
<1> DEFINE ss == Append(rs, x)
           n == Len(rs) + 1
<1>1. /\ ss \in Seq(Receipt) /\ DOMAIN ss = DOMAIN rs \cup {n} /\ n \notin DOMAIN rs
      /\ ss[n] = x /\ \A i \in DOMAIN rs : ss[i] = rs[i]
    OBVIOUS
<1>2. I \in SUBSET DOMAIN ss /\ n \notin I /\ n \in DOMAIN ss
    BY <1>1
<1>3. IsFiniteSet(I) /\ \A i \in I : Brought(ss)[i] \in Nat
    BY <1>1, <1>2, ReceiptSums
<1>4. SumFunctionOnSet(Brought(ss), I) = SumFunctionOnSet(Brought(rs), I)
    <2>1. \A i \in I : Brought(ss)[i] = Brought(rs)[i]
        BY <1>1, <1>2 DEF Brought
    <2> QED BY <1>3, <2>1, SumSame
<1>5. Brought(ss)[n] = x.qty /\ x.qty \in Int
    <2>1. Brought(ss)[n] = x.qty
        BY <1>1, <1>2 DEF Brought
    <2>2. x.qty \in Qty
        BY DEF Receipt
    <2>3. x.qty \in Int
        BY <2>2, QtyNat
    <2> QED BY <2>1, <2>3
<1> HIDE DEF ss, n
<1>6. SumFunctionOnSet(Brought(ss), I \cup {n}) = SumFunctionOnSet(Brought(ss), I) + Brought(ss)[n]
    BY <1>2, <1>3, <1>5, SumAdd
<1> QED BY <1>4, <1>5, <1>6 DEF ss, n

LEMMA LandedIsSum ==
    ASSUME NEW I
    PROVE  Landed(I) = SumFunctionOnSet(Brought(receipts), I)
BY DEF Landed, Brought

LEMMA ReceiptsTyped ==
    ASSUME TypeOK
    PROVE  receipts \in Seq(Receipt) /\ DOMAIN receipts = 1..Len(receipts)
BY DEF TypeOK, Receipt

LEMMA LandAppends ==
    ASSUME TypeOK, NEW c \in Cell, NEW q \in Qty, Land(c, q)
    PROVE  receipts' # receipts
<1> DEFINE x == [cell |-> c, qty |-> q, held |-> IsHub(c)]
<1>1. receipts \in Seq(Receipt) /\ x \in Receipt
    BY ReceiptsTyped DEF Receipt, IsHub
<1>2. receipts' = Append(receipts, x)
    BY DEF Land
<1> HIDE DEF x
<1>3. Len(Append(receipts, x)) = Len(receipts) + 1 /\ Len(receipts) \in Nat
    BY <1>1
<1> QED BY <1>2, <1>3

(* What a receipt into c0 adds to what cell c received.                    *)
LEMMA LandStep ==
    ASSUME TypeOK, NEW c0 \in Cell, NEW q \in Qty, Land(c0, q), NEW c \in Cell
    PROVE  /\ Landed(Into(c))' = Landed(Into(c)) + (IF c = c0 THEN q ELSE 0)
           /\ Held(c)' = Held(c) + (IF c = c0 /\ IsHub(c) THEN q ELSE 0)
           /\ balance'[c] = balance[c] + (IF c = c0 THEN q ELSE 0)
           /\ Landed(Into(c)) \in Nat /\ Held(c) \in Nat /\ q \in Nat
<1> DEFINE x == [cell |-> c0, qty |-> q, held |-> IsHub(c0)]
           n == Len(receipts) + 1
           I == Into(c)
           H == {i \in Into(c) : receipts[i].held}
           K == {i \in Into(c)' : receipts'[i].held}
<1>0. q \in Nat
    BY StockMovesAssumption
<1>1. x \in Receipt /\ x.qty = q /\ x.cell = c0 /\ x.held = IsHub(c0)
    BY DEF Receipt, IsHub
<1>2. receipts' = Append(receipts, x)
    BY DEF Land
<1>3. receipts \in Seq(Receipt) /\ DOMAIN receipts = 1..Len(receipts)
    BY ReceiptsTyped
<1>4. /\ DOMAIN receipts' = DOMAIN receipts \cup {n} /\ n \notin DOMAIN receipts
      /\ receipts'[n] = x /\ \A i \in DOMAIN receipts : receipts'[i] = receipts[i]
    <2> HIDE DEF x
    <2> QED BY <1>1, <1>2, <1>3
<1>5. I \in SUBSET DOMAIN receipts /\ H \in SUBSET DOMAIN receipts
    BY DEF Into
<1>6. Into(c)' = IF c = c0 THEN I \cup {n} ELSE I
    BY <1>1, <1>4 DEF Into
<1>7. K = IF c = c0 /\ IsHub(c) THEN H \cup {n} ELSE H
    <2>1. IsHub(c0) \in BOOLEAN
        BY DEF IsHub
    <2> HIDE DEF x
    <2> QED BY <1>1, <1>4, <1>5, <1>6, <2>1
<1>8. Landed(Into(c)) = SumFunctionOnSet(Brought(receipts), I)
    BY DEF Landed, Brought
<1>14. Held(c) = SumFunctionOnSet(Brought(receipts), H)
    BY DEF Held, Landed, Brought
<1>15. Landed(Into(c))' = SumFunctionOnSet(Brought(receipts'), Into(c)')
    BY DEF Landed, Brought
<1>16. Held(c)' = SumFunctionOnSet(Brought(receipts'), K)
    BY DEF Held, Landed, Brought, Into
<1>9. balance'[c] = balance[c] + (IF c = c0 THEN q ELSE 0)
    BY <1>0 DEF Land, TypeOK
<1> HIDE DEF x, n, I, H, K
<1>10. /\ SumFunctionOnSet(Brought(receipts'), I) = SumFunctionOnSet(Brought(receipts), I)
       /\ SumFunctionOnSet(Brought(receipts'), I \cup {n}) =
              SumFunctionOnSet(Brought(receipts), I) + q
       /\ SumFunctionOnSet(Brought(receipts'), H) = SumFunctionOnSet(Brought(receipts), H)
       /\ SumFunctionOnSet(Brought(receipts'), H \cup {n}) =
              SumFunctionOnSet(Brought(receipts), H) + q
    BY <1>1, <1>2, <1>3, <1>5, ReceiptAppended DEF n
<1>11. Landed(Into(c)) \in Nat /\ Held(c) \in Nat
    BY <1>3, <1>5, <1>8, <1>14, ReceiptSums
<1>12. Landed(Into(c))' = Landed(Into(c)) + (IF c = c0 THEN q ELSE 0)
    BY <1>0, <1>6, <1>8, <1>10, <1>11, <1>15
<1>13. Held(c)' = Held(c) + (IF c = c0 /\ IsHub(c) THEN q ELSE 0)
    BY <1>0, <1>7, <1>10, <1>11, <1>14, <1>16
<1> QED BY <1>0, <1>9, <1>11, <1>12, <1>13

(* Every other step leaves receipts where they are; it may end a hold.     *)
LEMMA ReceiptsKept ==
    ASSUME TypeOK, [Next]_vars, \A c0 \in Cell : \A q \in Qty : ~Land(c0, q), NEW c \in Cell
    PROVE  /\ Landed(Into(c))' = Landed(Into(c)) /\ Landed(Into(c)) \in Nat
           /\ Held(c)' <= Held(c) /\ Held(c) \in Nat /\ Held(c)' \in Nat
<1> DEFINE I == Into(c)
           H == {i \in Into(c) : receipts[i].held}
           K == {i \in Into(c)' : receipts'[i].held}
<1>1. receipts \in Seq(Receipt) /\ DOMAIN receipts = 1..Len(receipts)
    BY ReceiptsTyped
<1>2. /\ DOMAIN receipts' = DOMAIN receipts
      /\ \A i \in DOMAIN receipts :
            /\ receipts'[i].cell = receipts[i].cell /\ receipts'[i].qty = receipts[i].qty
            /\ receipts'[i].held => receipts[i].held
    <2>1. CASE receipts' = receipts
        BY <2>1
    <2>2. ASSUME NEW i \in DOMAIN receipts, Clear(i)
          PROVE  /\ DOMAIN receipts' = DOMAIN receipts
                 /\ \A k \in DOMAIN receipts :
                    /\ receipts'[k].cell = receipts[k].cell /\ receipts'[k].qty = receipts[k].qty
                    /\ receipts'[k].held => receipts[k].held
        <3>1. DOMAIN receipts' = DOMAIN receipts
            BY <2>2 DEF Clear
        <3>2. /\ receipts'[i] = [receipts[i] EXCEPT !.held = FALSE] /\ receipts[i] \in Receipt
              /\ \A k \in DOMAIN receipts \ {i} : receipts'[k] = receipts[k]
            BY <1>1, <2>2 DEF Clear
        <3>3. /\ receipts'[i].cell = receipts[i].cell /\ receipts'[i].qty = receipts[i].qty
              /\ receipts'[i].held = FALSE
            BY <3>2 DEF Receipt
        <3> QED BY <3>1, <3>2, <3>3
    <2>3. receipts' = receipts \/ \E i \in DOMAIN receipts : Clear(i)
        BY DEF Next, Step, Others, CompleteRead, ReadBalance, ReadHub, Check, Take, Put,
           CompleteCommit, Refuse,
           Victim, Fail, RolledBack, SetBalance, SetHub, PostDraftBilling, CreateTransfer,
           CreateTransformation, Draft, vars
    <2> QED BY <2>1, <2>2, <2>3
<1>3. Into(c)' = I /\ I \in SUBSET DOMAIN receipts
    BY <1>2 DEF Into
<1>4. K \in SUBSET H /\ H \in SUBSET DOMAIN receipts
    BY <1>2, <1>3 DEF Into
<1>5. Landed(Into(c)) = SumFunctionOnSet(Brought(receipts), I)
    BY DEF Landed, Brought
<1>6. Held(c) = SumFunctionOnSet(Brought(receipts), H)
    BY DEF Held, Landed, Brought
<1>7. Landed(Into(c))' = SumFunctionOnSet(Brought(receipts'), Into(c)')
    BY DEF Landed, Brought
<1>8. Held(c)' = SumFunctionOnSet(Brought(receipts'), K)
    BY DEF Held, Landed, Brought, Into
<1> HIDE DEF I, H, K
<1>9. \A i \in DOMAIN receipts : Brought(receipts')[i] = Brought(receipts)[i]
    BY <1>2 DEF Brought
<1>10. /\ IsFiniteSet(I) /\ IsFiniteSet(H) /\ IsFiniteSet(K)
       /\ \A i \in H : Brought(receipts)[i] \in Nat
    BY <1>1, <1>3, <1>4, ReceiptSums
<1>11. SumFunctionOnSet(Brought(receipts'), I) = SumFunctionOnSet(Brought(receipts), I)
    BY <1>3, <1>9, <1>10, SumSame
<1>12. SumFunctionOnSet(Brought(receipts'), K) = SumFunctionOnSet(Brought(receipts), K)
    BY <1>4, <1>9, <1>10, SumSame
<1>13. SumFunctionOnSet(Brought(receipts), K) <= SumFunctionOnSet(Brought(receipts), H)
    BY <1>4, <1>10, SumSubset
<1>14. /\ SumFunctionOnSet(Brought(receipts), I) \in Nat
       /\ SumFunctionOnSet(Brought(receipts), H) \in Nat
       /\ SumFunctionOnSet(Brought(receipts), K) \in Nat
    BY <1>1, <1>3, <1>4, ReceiptSums
<1> QED BY <1>3, <1>5, <1>6, <1>7, <1>8, <1>11, <1>12, <1>13, <1>14

LEMMA SetStep ==
    ASSUME TypeOK, NEW c0 \in Cell, NEW q \in SetQty, SetBalance(c0, q), NEW c \in Cell
    PROVE  /\ balance'[c] = IF c = c0 THEN q ELSE balance[c]
           /\ adjusted'[c] = adjusted[c] + (balance'[c] - balance[c])
           /\ q \in Int /\ balance'[c] \in Int
<1>1. q \in Int
    BY StockMovesAssumption
<1>2. balance[c] \in Int /\ adjusted[c] \in Int /\ balance[c0] \in Int
    BY DEF TypeOK
<1>3. balance'[c] = IF c = c0 THEN q ELSE balance[c]
    BY DEF SetBalance, TypeOK
<1>4. adjusted'[c] = IF c = c0 THEN adjusted[c] + q - balance[c] ELSE adjusted[c]
    BY DEF SetBalance, TypeOK
<1> QED BY <1>1, <1>2, <1>3, <1>4

-----------------------------------------------------------------------------
(* Every unit of stock is accounted for, whatever the number of completions*)
(* in flight and the order of their statements, commits and rollbacks.     *)
THEOREM StockAccounted == Spec => []StockIsAccounted
<1> DEFINE Inv == \A c \in Cell : balance[c] = Landed(Into(c)) + adjusted[c] + Moved(c)
<1>1. Init => Inv
    <2> SUFFICES ASSUME Init, NEW c \in Cell
                 PROVE  balance[c] = Landed(Into(c)) + adjusted[c] + Moved(c)
        OBVIOUS
    <2>1. Landed(Into(c)) = 0
        <3>1. DOMAIN receipts = {} /\ Into(c) = {}
            BY DEF Init, Into
        <3> QED BY <3>1, SumEmpty DEF Landed
    <2>2. Moved(c) = 0
        <3> DEFINE f == [j \in Job |-> Times(j) * Net(j, c)]
        <3>1. TypeOK
            BY DEF Init, TypeOK, NoJob, Script
        <3>2. \A j \in Job : Times(j) = 0
            BY DEF Init, Times
        <3>3. \A j \in Job : job[j].script \in Seq(Statement)
            BY <3>1 DEF TypeOK, Script
        <3>4. \A j \in Job : Net(j, c) \in Int
            BY <3>3, NetInt DEF Net
        <3>5. \A j \in Job : f[j] = 0
            BY <3>2, <3>4
        <3>6. Moved(c) = SumFunctionOnSet(f, Job)
            BY DEF Moved, SumFunction
        <3> HIDE DEF f
        <3> QED BY <3>5, <3>6, SetsFinite, SumOfZeros
    <2> QED BY <2>1, <2>2 DEF Init
<1>2. TypeOK /\ TypeOK' /\ Shape /\ Inv /\ [Next]_vars => Inv'
    <2> SUFFICES ASSUME TypeOK, TypeOK', Shape, [Next]_vars, NEW c \in Cell,
                        balance[c] = Landed(Into(c)) + adjusted[c] + Moved(c)
                 PROVE  balance'[c] = Landed(Into(c))' + adjusted'[c] + Moved(c)'
        OBVIOUS
    <2>0. balance[c] \in Int /\ adjusted[c] \in Int /\ adjusted'[c] \in Int
        BY DEF TypeOK
    <2>1. ASSUME NEW c0 \in Cell, NEW q \in Qty, Land(c0, q)
          PROVE  balance'[c] = Landed(Into(c))' + adjusted'[c] + Moved(c)'
        <3>1. /\ Landed(Into(c))' = Landed(Into(c)) + (IF c = c0 THEN q ELSE 0)
              /\ balance'[c] = balance[c] + (IF c = c0 THEN q ELSE 0)
              /\ Landed(Into(c)) \in Nat /\ q \in Nat
            BY <2>1, LandStep
        <3>2. adjusted' = adjusted /\ \A r \in Req : ~CompleteCommit(r)
            <4>1. receipts' # receipts
                BY <2>1, LandAppends
            <4> QED BY <2>1, <4>1 DEF Land, CompleteCommit
        <3>3. Moved(c)' = Moved(c) /\ Moved(c) \in Int
            BY <3>2, MovedKept
        <3> QED BY <2>0, <3>1, <3>2, <3>3
    <2>2. ASSUME NEW r \in Req, CompleteCommit(r)
          PROVE  balance'[c] = Landed(Into(c))' + adjusted'[c] + Moved(c)'
        <3>1. /\ balance'[c] = balance[c] + req[r].own[c]
              /\ receipts' = receipts /\ adjusted' = adjusted
            BY <2>2, Commit
        <3>2. Moved(c)' = Moved(c) + req[r].own[c] /\ Moved(c) \in Int /\ req[r].own[c] \in Int
            BY <2>2, MovedByCommit
        <3>3. Landed(Into(c))' = Landed(Into(c)) /\ Landed(Into(c)) \in Nat
            <4>1. \A c0 \in Cell : \A q \in Qty : ~Land(c0, q)
                BY <3>1, LandAppends
            <4> QED BY <4>1, ReceiptsKept
        <3> QED BY <2>0, <3>1, <3>2, <3>3
    <2>3. CASE /\ \A c0 \in Cell : \A q \in Qty : ~Land(c0, q)
               /\ \A r \in Req : ~CompleteCommit(r)
        <3>1. Landed(Into(c))' = Landed(Into(c)) /\ Landed(Into(c)) \in Nat
            BY <2>3, ReceiptsKept
        <3>2. Moved(c)' = Moved(c) /\ Moved(c) \in Int
            BY <2>3, MovedKept
        <3>3. ASSUME NEW c0 \in Cell, NEW q \in SetQty, SetBalance(c0, q)
              PROVE  balance'[c] = Landed(Into(c))' + adjusted'[c] + Moved(c)'
            <4>1. adjusted'[c] = adjusted[c] + (balance'[c] - balance[c]) /\ balance'[c] \in Int
                BY <3>3, SetStep
            <4> QED BY <2>0, <3>1, <3>2, <4>1
        <3>4. CASE \A c0 \in Cell : \A q \in SetQty : ~SetBalance(c0, q)
            <4>1. balance' = balance /\ adjusted' = adjusted
                BY <2>3, <3>4 DEF Next, Step, Others, CompleteRead, ReadBalance, ReadHub,
                   Check, Take, Put, Refuse,
                   Victim, Fail, RolledBack, Clear, SetHub, PostDraftBilling, CreateTransfer,
                   CreateTransformation, Draft, vars
            <4> QED BY <3>1, <3>2, <4>1
        <3> QED BY <3>3, <3>4
    <2> QED BY <2>1, <2>2, <2>3
<1>3. Inv => StockIsAccounted
    BY DEF StockIsAccounted, Moved
<1> HIDE DEF Inv
<1> QED BY <1>1, <1>2, <1>3, Shaped, PTL DEF Spec

-----------------------------------------------------------------------------
(* A job or a cell that never raced is used by one completion at a time.   *)
Alone == \A r, s \in Req : \A x : x \in Uses(r) /\ x \in Uses(s) => x \in raced \/ r = s

(* While a job that never raced is being completed it is a draft.          *)
Once ==
    \A j \in Job \ raced :
        /\ Times(j) = IF job[j].status = "COMPLETED" THEN 1 ELSE 0
        /\ \A r \in Req : InFlight(r) /\ req[r].job = j => job[j].status = "DRAFT"

LEMMA RacedStays ==
    ASSUME TypeOK, [Next]_vars
    PROVE  raced \subseteq raced'
BY DEF Next, Step, Others, CompleteRead, ReadBalance, ReadHub, Check, Take, Put,
   CompleteCommit, Refuse,
       Victim, Fail, RolledBack, Land, Clear, SetBalance, SetHub, PostDraftBilling, CreateTransfer,
       CreateTransformation, Draft, vars

(* What a completion uses stays the same until it ends.                    *)
LEMMA UsesKept ==
    ASSUME TypeOK, Shape, [Next]_vars, NEW r \in Req, \A j \in Job : ~CompleteRead(r, j)
    PROVE  /\ Uses(r)' \subseteq Uses(r)
           /\ InFlight(r)' => InFlight(r) /\ req'[r].job = req[r].job
                              /\ job'[req[r].job].script = job[req[r].job].script
                              /\ Takes(req[r].job)' = Takes(req[r].job)
<1>1. CASE ~InFlight(r)'
    BY <1>1 DEF Uses
<1>2. CASE InFlight(r)'
    <2>1. InFlight(r) /\ req'[r].job = req[r].job
        <3>1. CASE req'[r] = req[r]
            BY <1>2, <3>1 DEF InFlight
        <3>2. CASE ReadBalance(r)
            BY <3>2, ReadMoves
        <3>3. CASE Take(r)
            <4>1. InFlight(r) /\ Current(r).cell \in Cell /\ -Current(r).qty \in Int
                BY <3>3, CurrentStatement DEF Take
            <4> QED BY <3>3, <4>1, WritesMoves DEF Take
        <3>4. CASE Put(r)
            <4>1. InFlight(r) /\ Current(r).cell \in Cell /\ Current(r).qty \in Int
                BY <3>4, CurrentStatement DEF Put
            <4> QED BY <3>4, <4>1, WritesMoves DEF Put
        <3>5. req'[r] # Idle
            BY <1>2 DEF InFlight
        <3>6. CASE Advance(r)
            BY <3>6, AdvanceMoves
        <3> QED BY <3>1, <3>2, <3>3, <3>4, <3>5, <3>6, ReqMoves
    <2>2. PICK j \in Job : j = req[r].job
        BY <2>1, ReqFields
    <2>3. job'[j].script = job[j].script
        BY <2>1, <2>2, ScriptsKept DEF Shape, Flight, JobKept
    <2>4. Takes(j)' = Takes(j)
        BY <2>3 DEF Takes
    <2>5. Takes(req[r].job)' = Takes(req[r].job)
        <3>1. job'[req'[r].job].script = job[req[r].job].script
            BY <2>1, <2>2, <2>3
        <3> QED BY <3>1 DEF Takes
    <2>6. Uses(r)' = Uses(r)
        BY <1>2, <2>1, <2>5 DEF Uses
    <2> QED BY <1>2, <2>6, <2>1, <2>2, <2>3, <2>4, <2>5 DEF Uses
<1> QED BY <1>1, <1>2

(* A completion that begins.                                               *)
LEMMA Begins ==
    ASSUME TypeOK, NEW r \in Req, NEW j \in Job, CompleteRead(r, j)
    PROVE  /\ ~InFlight(r) /\ job[j].status = "DRAFT" /\ InFlight(r)' /\ req'[r].job = j
           /\ req'[r].at = "next" /\ req'[r].pc = 1 /\ req'[r].rows = {}
           /\ req'[r].own = [c \in Cell |-> 0]
           /\ \A s \in Req \ {r} : req'[s] = req[s] /\ Uses(s)' = Uses(s)
           /\ Uses(r)' = {j} \cup Takes(j)
           /\ \A x \in {j} \cup Takes(j) : (\E s \in Req \ {r} : x \in Uses(s)) => x \in raced'
           /\ raced \subseteq raced' /\ job' = job /\ balance' = balance
           /\ receipts' = receipts /\ bills' = bills
<1> DEFINE x == [at |-> "next", job |-> j, pc |-> 1, seen |-> 0,
                 rows |-> {}, own |-> [c \in Cell |-> 0]]
<1>1. req' = [req EXCEPT ![r] = x] /\ job' = job
    BY DEF CompleteRead
<1>2. req'[r] = x /\ \A s \in Req \ {r} : req'[s] = req[s]
    BY <1>1 DEF TypeOK
<1>3. /\ req'[r].at = "next" /\ req'[r].pc = 1 /\ req'[r].rows = {} /\ req'[r].job = j
      /\ req'[r].own = [c \in Cell |-> 0] /\ req'[r] # Idle
    BY <1>2 DEF Idle
<1>4. InFlight(r)'
    BY <1>3 DEF InFlight
<1>5. Takes(j)' = Takes(j)
    BY <1>1 DEF Takes
<1>6. Uses(r)' = {j} \cup Takes(j)
    BY <1>1, <1>3, <1>4 DEF Uses, Takes
<1>7. \A s \in Req \ {r} : Uses(s)' = Uses(s)
    BY <1>1, <1>2 DEF Uses, Takes, InFlight
<1> QED BY <1>2, <1>3, <1>4, <1>6, <1>7 DEF CompleteRead, Completable

LEMMA AloneStep ==
    ASSUME TypeOK, Shape, Alone, [Next]_vars
    PROVE  Alone'
<1> SUFFICES ASSUME NEW r \in Req, NEW s \in Req, NEW x, x \in Uses(r)', x \in Uses(s)', r # s
             PROVE  x \in raced'
    BY DEF Alone
<1>1. ASSUME NEW p \in Req, NEW q \in Req, p # q, x \in Uses(p)', x \in Uses(q)',
             NEW j \in Job, CompleteRead(p, j)
      PROVE  x \in raced'
    <2>1. x \in {j} \cup Takes(j) /\ x \in Uses(q) /\ q \in Req \ {p}
        BY <1>1, Begins
    <2> QED BY <1>1, <2>1, Begins
<1>2. CASE (\A j \in Job : ~CompleteRead(r, j)) /\ (\A j \in Job : ~CompleteRead(s, j))
    <2>1. x \in Uses(r) /\ x \in Uses(s)
        BY <1>2, UsesKept
    <2> QED BY <2>1, RacedStays DEF Alone
<1> QED BY <1>1, <1>2

LEMMA OnceStep ==
    ASSUME TypeOK, Shape, Alone, Once, [Next]_vars
    PROVE  Once'
<1> SUFFICES ASSUME NEW j \in Job, j \notin raced'
             PROVE  /\ Times(j)' = IF job'[j].status = "COMPLETED" THEN 1 ELSE 0
                    /\ \A r \in Req : InFlight(r)' /\ req'[r].job = j => job'[j].status = "DRAFT"
    BY DEF Once
<1>0. /\ j \notin raced /\ Times(j) = IF job[j].status = "COMPLETED" THEN 1 ELSE 0
      /\ \A r \in Req : InFlight(r) /\ req[r].job = j => job[j].status = "DRAFT"
    BY RacedStays DEF Once
<1>1. ASSUME NEW r \in Req, CompleteCommit(r)
      PROVE  /\ Times(j)' = IF job'[j].status = "COMPLETED" THEN 1 ELSE 0
             /\ \A s \in Req : InFlight(s)' /\ req'[s].job = j => job'[j].status = "DRAFT"
    <2>1. /\ InFlight(r) /\ req[r].job \in Job /\ job'[req[r].job].status = "COMPLETED"
          /\ \A i \in Job \ {req[r].job} : job'[i] = job[i]
          /\ req' = [req EXCEPT ![r] = Idle]
        BY <1>1, Commit
    <2>2. req'[r] = Idle /\ \A s \in Req \ {r} : req'[s] = req[s]
        BY <2>1 DEF TypeOK
    <2>3. CASE j = req[r].job
        <3>1. Times(j)' = Times(j) + 1
            BY <1>1, <2>3, TimesCommit
        <3>2. Times(j) = 0
            BY <1>0, <2>1, <2>3
        <3>3. ASSUME NEW s \in Req, InFlight(s)', req'[s].job = j
              PROVE  FALSE
            <4>1. s # r
                BY <2>2, <3>3 DEF InFlight
            <4>2. InFlight(s) /\ req[s].job = j
                BY <2>2, <3>3, <4>1 DEF InFlight
            <4>3. j \in Uses(s) /\ j \in Uses(r)
                BY <2>1, <2>3, <4>2 DEF Uses
            <4> QED BY <1>0, <4>1, <4>3 DEF Alone
        <3> QED BY <2>1, <2>3, <3>1, <3>2, <3>3
    <2>4. CASE j # req[r].job
        <3>1. job'[j] = job[j]
            BY <2>1, <2>4
        <3>2. Times(j)' = Times(j)
            <4>1. PICK k \in Job : k = req[r].job
                BY <2>1
            <4> QED BY <1>1, <2>4, <4>1, TimesCommit
        <3>3. \A s \in Req : InFlight(s)' => InFlight(s) /\ req'[s] = req[s]
            BY <2>2 DEF InFlight
        <3> QED BY <1>0, <3>1, <3>2, <3>3
    <2> QED BY <2>3, <2>4
<1>2. CASE \A r \in Req : ~CompleteCommit(r)
    <2>1. Times(j)' = Times(j)
        BY <1>2, TimesKept
    <2>2. CASE \E i \in Job : \E script \in Script : Draft(i, script)
        <3>1. PICK i \in Job, script \in Script : Draft(i, script)
            BY <2>2
        <3>2. /\ job[i] = NoJob /\ job'[i] = [status |-> "DRAFT", script |-> script]
              /\ \A k \in Job \ {i} : job'[k] = job[k]
              /\ req' = req
            BY <3>1, Creation
        <3>3. job'[j] = job[j] \/ (job[j].status = "ABSENT" /\ job'[j].status = "DRAFT")
            BY <3>2 DEF NoJob
        <3>4. \A r \in Req : InFlight(r)' => InFlight(r) /\ req'[r] = req[r]
            BY <3>2 DEF InFlight
        <3> QED BY <1>0, <2>1, <3>3, <3>4
    <2>3. CASE \A i \in Job : \A script \in Script : ~Draft(i, script)
        <3>1. job' = job
            BY <1>2, <2>3, Quiet
        <3>2. ASSUME NEW r \in Req, InFlight(r)', req'[r].job = j
              PROVE  job[j].status = "DRAFT"
            <4>1. CASE \A i \in Job : ~CompleteRead(r, i)
                BY <1>0, <3>2, <4>1, UsesKept
            <4>2. ASSUME NEW i \in Job, CompleteRead(r, i)
                  PROVE  job[j].status = "DRAFT"
                BY <3>2, <4>2, Begins
            <4> QED BY <4>1, <4>2
        <3> QED BY <1>0, <2>1, <3>1, <3>2
    <2> QED BY <2>2, <2>3
<1> QED BY <1>1, <1>2

(* What never raced is used by one completion at a time.                   *)
LEMMA StaysAlone == Spec => []Alone
<1>1. Init => Alone
    BY DEF Init, Alone, Uses, InFlight
<1>2. TypeOK /\ Shape /\ Alone /\ [Next]_vars => Alone'
    BY AloneStep
<1> QED BY <1>1, <1>2, Shaped, PTL DEF Spec

(* A job whose completions never overlapped is carried out at most once,   *)
(* and exactly once if and only if it is COMPLETED.                        *)
THEOREM CompletedOnce == Spec => []CompletedOnceUnlessRaced
<1>1. Init => Once
    BY DEF Init, Once, Times, InFlight, NoJob
<1>2. TypeOK /\ Shape /\ Alone /\ Once /\ [Next]_vars => Once'
    BY OnceStep
<1>3. Once => CompletedOnceUnlessRaced
    BY DEF Once, CompletedOnceUnlessRaced
<1> QED BY <1>1, <1>2, <1>3, Shaped, StaysAlone, PTL DEF Spec

-----------------------------------------------------------------------------
LEMMA HeldNat ==
    ASSUME TypeOK, NEW c \in Cell
    PROVE  Held(c) \in Nat
<1> DEFINE H == {i \in Into(c) : receipts[i].held}
<1>1. receipts \in Seq(Receipt)
    BY ReceiptsTyped
<1>2. H \in SUBSET DOMAIN receipts
    BY DEF Into
<1>3. Held(c) = SumFunctionOnSet(Brought(receipts), H)
    BY DEF Held, Landed, Brought
<1> HIDE DEF H
<1> QED BY <1>1, <1>2, <1>3, ReceiptSums

LEMMA HeldSame ==
    ASSUME receipts' = receipts, NEW c \in Cell
    PROVE  Held(c)' = Held(c)
BY DEF Held, Landed, Into

(* What a cell has to keep: what customs holds there, or nothing once a    *)
(* move took from it with the hub flag off.                                *)
Floor(c) == IF c \in lifted THEN 0 ELSE Held(c)

LEMMA FloorNat ==
    ASSUME TypeOK, NEW c \in Cell
    PROVE  Floor(c) \in Nat /\ Floor(c) <= Held(c)
BY HeldNat DEF Floor

LEMMA LiftedStays ==
    ASSUME [Next]_vars
    PROVE  lifted \subseteq lifted'
BY DEF Next, Step, Others, CompleteRead, ReadBalance, ReadHub, Check, Take, Put, CompleteCommit,
       Refuse, Victim, Fail, RolledBack, Land, Clear, SetBalance, SetHub, PostDraftBilling,
       CreateTransfer, CreateTransformation, Draft, vars

LEMMA FloorLanded ==
    ASSUME TypeOK, [Next]_vars, NEW c0 \in Cell, NEW q \in Qty, Land(c0, q), NEW c \in Cell
    PROVE  /\ Floor(c)' \in Nat
           /\ Floor(c)' <= Floor(c) + (IF c = c0 THEN q ELSE 0)
<1>1. /\ Held(c)' = Held(c) + (IF c = c0 /\ IsHub(c) THEN q ELSE 0)
      /\ Held(c) \in Nat /\ q \in Nat
    BY LandStep
<1>2. lifted' = lifted
    BY DEF Land
<1> QED BY <1>1, <1>2 DEF Floor

LEMMA FloorFalls ==
    ASSUME TypeOK, [Next]_vars, NEW c \in Cell, \A c0 \in Cell : \A q \in Qty : ~Land(c0, q)
    PROVE  Floor(c)' \in Nat /\ Floor(c)' <= Floor(c)
<1>1. Held(c)' <= Held(c) /\ Held(c) \in Nat /\ Held(c)' \in Nat
    BY ReceiptsKept
<1>2. c \in lifted => c \in lifted'
    BY LiftedStays
<1> QED BY <1>1, <1>2 DEF Floor

LEMMA FloorNext ==
    ASSUME TypeOK, [Next]_vars, NEW c \in Cell
    PROVE  Floor(c)' \in Nat
BY FloorLanded, FloorFalls

TakesFrom(r, c) == InFlight(r) /\ c \in Takes(req[r].job)

LEMMA TakesFromUses ==
    ASSUME NEW r, NEW c, TakesFrom(r, c)
    PROVE  c \in Uses(r)
BY DEF TakesFrom, Uses

(* What a completion has done to a cell: one it only puts into has not     *)
(* lost stock, and one it takes from still covers its floor, the stock     *)
(* that the completion will commit counted.  The balance a check has read  *)
(* may be out of date, but then the stock has grown since; and what passed *)
(* the check can be taken.                                                 *)
PutsOnly(r, c) == InFlight(r) /\ c \notin Takes(req[r].job) => req[r].own[c] >= 0

Safe(r, c) ==
    TakesFrom(r, c) =>
        /\ balance[c] + req[r].own[c] >= Floor(c)
        /\ req[r].at \in {"balance", "hub"} /\ Current(r).cell = c
              => req[r].seen <= balance[c] + req[r].own[c]
        /\ req[r].at = "checked" /\ Current(r).cell = c
              => balance[c] + req[r].own[c] - Current(r).qty >= Floor(c)

Covered ==
    /\ \A r \in Req : \A c \in Cell : PutsOnly(r, c)
    /\ \A c \in Cell \ raced : balance[c] >= Floor(c) /\ \A r \in Req : Safe(r, c)

LEMMA OwnTyped ==
    ASSUME TypeOK, NEW r \in Req, InFlight(r), NEW c \in Cell
    PROVE  req[r].own[c] \in Int /\ req[r].seen \in Int /\ balance[c] \in Int
<1>1. req[r].own \in [Cell -> Int] /\ req[r].seen \in Int
    BY ReqFields
<1> QED BY <1>1 DEF TypeOK

(* The cell a completion takes from at its current statement.              *)
LEMMA TakesCurrent ==
    ASSUME TypeOK, NEW r \in Req, Running(r), Current(r).op = "take"
    PROVE  Current(r).cell \in Takes(req[r].job)
<1>1. req[r].pc \in 1..Len(job[req[r].job].script) /\ job[req[r].job].script \in Seq(Statement)
    BY CurrentStatement, ReqFields
<1>2. req[r].pc \in DOMAIN job[req[r].job].script
    BY <1>1
<1> QED BY <1>2 DEF Takes, Current

LEMMA TakeMoves ==
    ASSUME TypeOK, Shape, [Next]_vars, NEW r \in Req, Take(r), NEW c \in Cell
    PROVE  /\ InFlight(r) /\ InFlight(r)' /\ req'[r].job = req[r].job /\ req'[r].at = "next"
           /\ req'[r].own[c] = req[r].own[c]
                               - (IF c = Current(r).cell THEN Current(r).qty ELSE 0)
           /\ Current(r).cell \in Takes(req[r].job) /\ Current(r).qty \in Nat
           /\ Takes(req[r].job)' = Takes(req[r].job)
           /\ receipts' = receipts /\ balance' = balance
<1>1. Running(r) /\ Writes(r, Current(r).cell, -Current(r).qty)
      /\ receipts' = receipts /\ balance' = balance /\ req[r].at = "checked"
    BY DEF Take
<1>2. InFlight(r) /\ Current(r).qty \in Nat
    BY <1>1, CurrentStatement
<1>3. Current(r).op = "take" /\ -Current(r).qty \in Int
    BY <1>1, <1>2 DEF Shape, Flight
<1>4. /\ InFlight(r)' /\ req'[r].job = req[r].job /\ req'[r].at = "next"
      /\ req'[r].own[c] = req[r].own[c] + Change(Current(r), c)
    BY <1>1, <1>3, WriteAdds
<1>5. \A j \in Job : ~CompleteRead(r, j)
    BY <1>2 DEF CompleteRead
<1>6. Takes(req[r].job)' = Takes(req[r].job)
    BY <1>4, <1>5, UsesKept
<1>7. req[r].own[c] \in Int
    BY <1>2, OwnTyped
<1>8. req[r].own[c] + Change(Current(r), c)
          = req[r].own[c] - (IF c = Current(r).cell THEN Current(r).qty ELSE 0)
    BY <1>2, <1>3, <1>7 DEF Change
<1> QED BY <1>1, <1>2, <1>3, <1>4, <1>6, <1>8, TakesCurrent

LEMMA PutMoves ==
    ASSUME TypeOK, Shape, [Next]_vars, NEW r \in Req, Put(r), NEW c \in Cell
    PROVE  /\ InFlight(r) /\ InFlight(r)' /\ req'[r].job = req[r].job /\ req'[r].at = "next"
           /\ req'[r].own[c] >= req[r].own[c] /\ req'[r].own[c] \in Int
           /\ Takes(req[r].job)' = Takes(req[r].job)
           /\ receipts' = receipts /\ balance' = balance
<1>1. Running(r) /\ Writes(r, Current(r).cell, Current(r).qty) /\ Current(r).op = "put"
      /\ receipts' = receipts /\ balance' = balance
    BY DEF Put
<1>2. InFlight(r) /\ Current(r).qty \in Nat
    BY <1>1, CurrentStatement
<1>3. /\ InFlight(r)' /\ req'[r].job = req[r].job /\ req'[r].at = "next"
      /\ req'[r].own[c] = req[r].own[c] + Change(Current(r), c)
    BY <1>1, <1>2, WriteAdds
<1>4. \A j \in Job : ~CompleteRead(r, j)
    BY <1>2 DEF CompleteRead
<1>5. Takes(req[r].job)' = Takes(req[r].job)
    BY <1>3, <1>4, UsesKept
<1>6. req[r].own[c] \in Int
    BY <1>2, OwnTyped
<1>7. Change(Current(r), c) \in Nat
    BY <1>1, <1>2 DEF Change
<1>8. req'[r].own[c] >= req[r].own[c] /\ req'[r].own[c] \in Int
    BY <1>3, <1>6, <1>7
<1> QED BY <1>1, <1>2, <1>3, <1>5, <1>8

LEMMA PutsOnlyStep ==
    ASSUME TypeOK, Shape, [Next]_vars, NEW r \in Req, NEW c \in Cell, PutsOnly(r, c)
    PROVE  PutsOnly(r, c)'
<1> SUFFICES ASSUME InFlight(r)', c \notin Takes(req[r].job)'
             PROVE  req'[r].own[c] >= 0
    BY DEF PutsOnly
<1>1. ASSUME NEW j \in Job, CompleteRead(r, j)
      PROVE  req'[r].own[c] >= 0
    <2>1. req'[r].own = [d \in Cell |-> 0]
        BY <1>1, Begins
    <2> QED BY <2>1
<1>2. CASE \A j \in Job : ~CompleteRead(r, j)
    <2>1. InFlight(r) /\ c \notin Takes(req[r].job) /\ req[r].own[c] >= 0
        BY <1>2, UsesKept DEF PutsOnly
    <2>2. CASE Take(r)
        <3>1. /\ req'[r].own[c] = req[r].own[c]
                                  - (IF c = Current(r).cell THEN Current(r).qty ELSE 0)
              /\ Current(r).cell \in Takes(req[r].job)
            BY <2>2, TakeMoves
        <3>2. req[r].own[c] \in Int
            BY <2>1, OwnTyped
        <3> QED BY <2>1, <3>1, <3>2
    <2>3. CASE Put(r)
        <3>1. req'[r].own[c] >= req[r].own[c] /\ req'[r].own[c] \in Int /\ req[r].own[c] \in Int
            BY <2>1, <2>3, PutMoves, OwnTyped
        <3> QED BY <2>1, <3>1
    <2>4. CASE ReadBalance(r) \/ Advance(r)
        BY <2>1, <2>4, ReadMoves, AdvanceMoves
    <2>5. CASE req'[r] = req[r]
        BY <2>1, <2>5
    <2>6. req'[r] # Idle
        BY DEF InFlight
    <2> QED BY <1>2, <2>2, <2>3, <2>4, <2>5, <2>6, ReqMoves
<1> QED BY <1>1, <1>2

(* A cell's stock grows at least as its floor does, or nobody takes of it. *)
Grows(c) == balance'[c] >= balance[c] /\ balance'[c] - Floor(c)' >= balance[c] - Floor(c)

LEMMA CellStep ==
    ASSUME TypeOK, TypeOK', Shape, Alone, Covered, [Next]_vars, NEW c \in Cell, c \notin raced'
    PROVE  /\ balance'[c] >= Floor(c)'
           /\ Grows(c) \/ \A s \in Req : ~TakesFrom(s, c)'
<1>1. c \notin raced /\ balance[c] >= Floor(c) /\ \A r \in Req : Safe(r, c)
    BY RacedStays DEF Covered
<1>2. /\ balance[c] \in Int /\ balance'[c] \in Int /\ Floor(c) \in Nat /\ Floor(c)' \in Nat
      /\ Floor(c) <= Held(c) /\ Held(c) \in Nat
    BY FloorNat, HeldNat, FloorNext DEF TypeOK
<1>3. ASSUME NEW c0 \in Cell, NEW q \in Qty, Land(c0, q)
      PROVE  balance'[c] >= Floor(c)' /\ Grows(c)
    <2>1. balance'[c] = balance[c] + (IF c = c0 THEN q ELSE 0) /\ q \in Nat
        BY <1>3, LandStep
    <2>2. Floor(c)' <= Floor(c) + (IF c = c0 THEN q ELSE 0)
        BY <1>3, FloorLanded
    <2> QED BY <1>1, <1>2, <2>1, <2>2 DEF Grows
<1>4. ASSUME NEW r \in Req, CompleteCommit(r)
      PROVE  /\ balance'[c] >= Floor(c)'
             /\ Grows(c) \/ \A s \in Req : ~TakesFrom(s, c)'
    <2>1. /\ InFlight(r) /\ balance'[c] = balance[c] + req[r].own[c] /\ receipts' = receipts
          /\ req' = [req EXCEPT ![r] = Idle]
          /\ \A j \in Job : job'[j].script = job[j].script
        BY <1>4, Commit
    <2>2. Floor(c)' <= Floor(c) /\ req[r].own[c] \in Int
        <3>1. \A c0 \in Cell : \A q \in Qty : ~Land(c0, q)
            BY <2>1, LandAppends
        <3> QED BY <2>1, <3>1, FloorFalls, OwnTyped
    <2>3. CASE c \notin Takes(req[r].job)
        <3>1. req[r].own[c] >= 0
            BY <2>1, <2>3 DEF Covered, PutsOnly
        <3> QED BY <1>1, <1>2, <2>1, <2>2, <3>1 DEF Grows
    <2>4. CASE c \in Takes(req[r].job)
        <3>1. TakesFrom(r, c)
            BY <2>1, <2>4 DEF TakesFrom
        <3>2. balance'[c] >= Floor(c)'
            BY <1>1, <1>2, <2>1, <2>2, <3>1 DEF Safe
        <3>3. ASSUME NEW s \in Req, TakesFrom(s, c)'
              PROVE  FALSE
            <4>1. req'[s] # Idle
                BY <3>3 DEF TakesFrom, InFlight
            <4>2. s # r /\ req'[s] = req[s]
                BY <2>1, <4>1 DEF TypeOK
            <4>3. \A j \in Job : ~CompleteRead(s, j)
                BY <4>1, <4>2 DEF CompleteRead, InFlight
            <4>4. c \in Uses(s)
                BY <3>3, <4>3, UsesKept DEF TakesFrom, Uses
            <4> QED BY <1>1, <3>1, <4>2, <4>4, TakesFromUses DEF Alone
        <3> QED BY <3>2, <3>3
    <2> QED BY <2>3, <2>4
<1>5. ASSUME NEW c0 \in Cell, NEW q \in SetQty, SetBalance(c0, q)
      PROVE  /\ balance'[c] >= Floor(c)'
             /\ Grows(c) \/ \A s \in Req : ~TakesFrom(s, c)'
    <2>1. /\ balance'[c] = IF c = c0 THEN q ELSE balance[c]
          /\ receipts' = receipts /\ req' = req /\ job' = job /\ lifted' = lifted
        BY <1>5, SetStep DEF SetBalance
    <2>2. Floor(c)' = Floor(c)
        BY <2>1, HeldSame DEF Floor
    <2>3. CASE c # c0
        BY <1>1, <1>2, <2>1, <2>2, <2>3 DEF Grows
    <2>4. CASE c = c0
        <3>1. ~(q < Held(c)) /\ \A s \in Req : c \notin Uses(s)
            BY <1>5, <2>4 DEF SetBalance
        <3>2. q \in Int
            BY StockMovesAssumption
        <3>3. ASSUME NEW s \in Req
              PROVE  ~TakesFrom(s, c)'
            <4>1. TakesFrom(s, c)' <=> TakesFrom(s, c)
                BY <2>1 DEF TakesFrom, InFlight, Takes
            <4> QED BY <3>1, <4>1, TakesFromUses
        <3> QED BY <1>2, <2>1, <2>2, <2>4, <3>1, <3>2, <3>3
    <2> QED BY <2>3, <2>4
<1>6. CASE /\ \A c0 \in Cell : \A q \in Qty : ~Land(c0, q)
           /\ \A r \in Req : ~CompleteCommit(r)
           /\ \A c0 \in Cell : \A q \in SetQty : ~SetBalance(c0, q)
    <2>1. balance' = balance
        BY <1>6 DEF Next, Step, Others, CompleteRead, ReadBalance, ReadHub, Check, Take, Put,
           Refuse,
           Victim, Fail, RolledBack, Clear, SetHub, PostDraftBilling, CreateTransfer,
           CreateTransformation, Draft, vars
    <2>2. Floor(c)' <= Floor(c)
        BY <1>6, FloorFalls
    <2> QED BY <1>1, <1>2, <2>1, <2>2 DEF Grows
<1> QED BY <1>3, <1>4, <1>5, <1>6

(* What a check lets through, its hold counted or the cell marked lifted.  *)
LEMMA CheckedStock ==
    ASSUME TypeOK, TypeOK', NEW r \in Req, Check(r), NEW c \in Cell, Current(r).cell = c,
           req[r].seen <= balance[c] + req[r].own[c], balance[c] + req[r].own[c] \in Int
    PROVE  balance[c] + req[r].own[c] - Current(r).qty >= Floor(c)'
<1>1. Running(r) /\ Enough(r)
    BY DEF Check, Checking
<1>2. InFlight(r) /\ Current(r).qty \in Nat \ {0}
    BY <1>1, CurrentStatement
<1>3. req[r].seen \in Int /\ Held(c) \in Nat
    BY <1>2, ReqFields, HeldNat
<1>4. Hold(r) \in Nat /\ Hold(r) <= Held(c)
    BY <1>3 DEF Hold
<1>5. req[r].seen - Hold(r) >= Current(r).qty
    BY <1>1, <1>2, <1>3, <1>4 DEF Enough, Available
<1>6. Floor(c)' <= Hold(r) /\ Floor(c)' \in Int
    <2>1. lifted' = IF Hold(r) < Held(c) THEN lifted \cup {c} ELSE lifted
        BY DEF Check
    <2>2. Held(c)' = Held(c)
        BY HeldSame DEF Check
    <2>3. CASE Hold(r) < Held(c)
        BY <1>4, <2>1, <2>3 DEF Floor
    <2>4. CASE ~(Hold(r) < Held(c))
        BY <1>3, <1>4, <2>2, <2>4 DEF Floor
    <2> QED BY <2>3, <2>4
<1>7. req[r].own[c] \in Int /\ balance[c] \in Int
    BY <1>2, OwnTyped
<1>8. Floor(c)' <= req[r].seen - Current(r).qty
    BY <1>2, <1>3, <1>4, <1>5, <1>6
<1> QED BY <1>2, <1>3, <1>6, <1>7, <1>8

LEMMA SafeStep ==
    ASSUME TypeOK, TypeOK', Shape, Alone, Covered, [Next]_vars,
           NEW c \in Cell, c \notin raced', NEW r \in Req
    PROVE  Safe(r, c)'
<1> SUFFICES ASSUME TakesFrom(r, c)'
             PROVE  /\ balance'[c] + req'[r].own[c] >= Floor(c)'
                    /\ req'[r].at \in {"balance", "hub"} /\ Current(r)'.cell = c
                          => req'[r].seen <= balance'[c] + req'[r].own[c]
                    /\ req'[r].at = "checked" /\ Current(r)'.cell = c
                          => balance'[c] + req'[r].own[c] - Current(r)'.qty >= Floor(c)'
    BY DEF Safe
<1>1. c \notin raced /\ balance[c] >= Floor(c) /\ Safe(r, c)
    BY RacedStays DEF Covered
<1>2. balance'[c] >= Floor(c)' /\ Grows(c)
    BY CellStep
<1>3. /\ balance[c] \in Int /\ balance'[c] \in Int /\ Floor(c) \in Nat /\ Floor(c)' \in Nat
      /\ InFlight(r)'
    BY FloorNat, FloorNext DEF TypeOK, TakesFrom
<1>4. ASSUME NEW j \in Job, CompleteRead(r, j)
      PROVE  req'[r].own[c] = 0 /\ req'[r].at = "next"
    <2>1. req'[r].own = [d \in Cell |-> 0] /\ req'[r].at = "next"
        BY <1>4, Begins
    <2> QED BY <2>1
<1>5. CASE \E j \in Job : CompleteRead(r, j)
    <2>1. req'[r].own[c] = 0 /\ req'[r].at = "next"
        BY <1>4, <1>5
    <2> QED BY <1>2, <1>3, <2>1
<1>6. CASE \A j \in Job : ~CompleteRead(r, j)
    <2>1. InFlight(r) /\ TakesFrom(r, c)
        BY <1>3, <1>6, UsesKept DEF TakesFrom
    <2>2. /\ balance[c] + req[r].own[c] >= Floor(c)
          /\ req[r].at \in {"balance", "hub"} /\ Current(r).cell = c
                => req[r].seen <= balance[c] + req[r].own[c]
          /\ req[r].at = "checked" /\ Current(r).cell = c
                => balance[c] + req[r].own[c] - Current(r).qty >= Floor(c)
          /\ req[r].own[c] \in Int /\ req[r].seen \in Int
        BY <1>1, <2>1, OwnTyped DEF Safe
    <2>3. CASE req'[r] = req[r]
        <3>1. Current(r)' = Current(r)
            BY <2>1, <2>3, FlightKept
        <3>2. req[r].at = "checked" => Current(r).qty \in Int
            <4>1. req[r].at = "checked" => Running(r)
                BY <2>1 DEF Shape, Flight
            <4> QED BY <4>1, CurrentStatement
        <3> QED BY <1>2, <1>3, <2>2, <2>3, <3>1, <3>2 DEF Grows
    <2>4. CASE ReadBalance(r)
        <3>1. /\ req'[r].seen = balance[Current(r).cell] + req[r].own[Current(r).cell]
              /\ req'[r].own = req[r].own /\ req'[r].job = req[r].job /\ req'[r].pc = req[r].pc
              /\ req'[r].at = "balance"
            BY <2>4, ReadMoves
        <3>2. receipts' = receipts /\ balance' = balance /\ job' = job /\ lifted' = lifted
            BY <2>4 DEF ReadBalance
        <3>3. Current(r)' = Current(r) /\ Floor(c)' = Floor(c)
            BY <3>1, <3>2, HeldSame DEF Current, Floor
        <3> QED BY <1>3, <2>2, <3>1, <3>2, <3>3
    <2>5. CASE Put(r)
        <3>1. /\ req'[r].own[c] >= req[r].own[c] /\ req'[r].own[c] \in Int
              /\ req'[r].at = "next" /\ receipts' = receipts /\ balance' = balance
            BY <2>5, PutMoves
        <3>2. Floor(c)' = Floor(c)
            BY <2>5, <3>1, HeldSame DEF Put, Floor
        <3> QED BY <1>3, <2>2, <3>1, <3>2
    <2>6. CASE Take(r)
        <3>1. /\ req'[r].own[c] = req[r].own[c]
                                  - (IF c = Current(r).cell THEN Current(r).qty ELSE 0)
              /\ req'[r].at = "next" /\ Current(r).qty \in Nat
              /\ receipts' = receipts /\ balance' = balance
            BY <2>6, TakeMoves
        <3>2. Floor(c)' = Floor(c) /\ req[r].at = "checked"
            BY <2>6, <3>1, HeldSame DEF Take, Floor
        <3>3. CASE c # Current(r).cell
            BY <1>3, <2>2, <3>1, <3>2, <3>3
        <3>4. CASE c = Current(r).cell
            BY <1>3, <2>2, <3>1, <3>2, <3>4
        <3> QED BY <3>3, <3>4
    <2>8. CASE Advance(r)
        <3>1. /\ req'[r].own = req[r].own /\ req'[r].seen = req[r].seen
              /\ balance' = balance /\ receipts' = receipts
              /\ Current(r)' = Current(r)
              /\ ReadHub(r) => req'[r].at = "hub"
              /\ Check(r) => req'[r].at = "checked"
            BY <2>8, AdvanceMoves
        <3>2. Floor(c)' <= Floor(c)
            <4>1. \A c0 \in Cell : \A q \in Qty : ~Land(c0, q)
                BY <3>1, LandAppends
            <4> QED BY <4>1, FloorFalls
        <3>3. req[r].at \in {"balance", "hub"}
            BY <2>8 DEF Advance, ReadHub, Check, Checking
        <3>4. ASSUME Check(r), Current(r).cell = c
              PROVE  balance[c] + req[r].own[c] - Current(r).qty >= Floor(c)'
            <4>1. req[r].seen <= balance[c] + req[r].own[c]
                BY <2>2, <3>3, <3>4
            <4>2. balance[c] + req[r].own[c] \in Int
                BY <1>3, <2>2
            <4> QED BY <3>4, <4>1, <4>2, CheckedStock
        <3> QED BY <1>3, <2>2, <2>8, <3>1, <3>2, <3>3, <3>4 DEF Advance
    <2>7. req'[r] # Idle
        BY <1>3 DEF InFlight
    <2> QED BY <1>6, <2>3, <2>4, <2>5, <2>6, <2>7, <2>8, ReqMoves
<1> QED BY <1>5, <1>6

(* No balance falls below what customs holds there, whatever runs at once  *)
(* and however often the hub flag is switched, in the cells where no check *)
(* was overtaken; below zero, in those a move took from with the flag off. *)
THEOREM HoldIsKept == Spec => []HoldIsKeptUnlessRaced
<1>1. Init => Covered
    <2> SUFFICES ASSUME Init, NEW c \in Cell
                 PROVE  balance[c] >= Floor(c)
        BY DEF Init, Covered, PutsOnly, Safe, TakesFrom, InFlight
    <2>1. Held(c) = 0
        <3>1. {i \in Into(c) : receipts[i].held} = {}
            BY DEF Init, Into
        <3> QED BY <3>1, SumEmpty DEF Held, Landed
    <2> QED BY <2>1 DEF Init, Floor
<1>2. TypeOK /\ TypeOK' /\ Shape /\ Alone /\ Covered /\ [Next]_vars => Covered'
    <2> SUFFICES ASSUME TypeOK, TypeOK', Shape, Alone, Covered, [Next]_vars
                 PROVE  Covered'
        OBVIOUS
    <2>1. \A r \in Req : \A c \in Cell : PutsOnly(r, c)'
        BY PutsOnlyStep DEF Covered
    <2>2. \A c \in Cell \ raced' : balance'[c] >= Floor(c)' /\ \A r \in Req : Safe(r, c)'
        BY CellStep, SafeStep
    <2> QED BY <2>1, <2>2 DEF Covered
<1>3. Covered => HoldIsKeptUnlessRaced
    BY DEF Covered, HoldIsKeptUnlessRaced, Floor
<1> QED BY <1>1, <1>2, <1>3, Shaped, StaysAlone, PTL DEF Spec

----------------------------------------------------------------------------
(* What the cells of product p hold together, when f says what each holds. *)
ByBin(f, p) == [b \in Bin |-> f[<<b, p>>]]
InAllBins(f, p) == SumFunctionOnSet(ByBin(f, p), Bin)

LEMMA AllBins ==
    ASSUME NEW f \in [Cell -> Int], NEW p \in Product
    PROVE  /\ \A b \in Bin : ByBin(f, p)[b] = f[<<b, p>>] /\ ByBin(f, p)[b] \in Int
           /\ InAllBins(f, p) \in Int
<1>1. \A b \in Bin : ByBin(f, p)[b] = f[<<b, p>>] /\ f[<<b, p>>] \in Int
    BY DEF ByBin, Cell
<1> QED BY <1>1, SetsFinite, SumInt DEF InAllBins

(* What one statement adds to all the cells of a product together.         *)
Gain(t, p) == IF t.cell[2] # p THEN 0 ELSE IF t.op = "put" THEN t.qty ELSE -t.qty

LEMMA StatementGain ==
    ASSUME NEW f \in [Cell -> Int], NEW g \in [Cell -> Int], NEW t \in Statement,
           \A c \in Cell : g[c] = f[c] + Change(t, c), NEW p \in Product
    PROVE  InAllBins(g, p) = InAllBins(f, p) + Gain(t, p)
<1>1. PICK b0 \in Bin, p0 \in Product : t.cell = <<b0, p0>>
    BY StatementFields DEF Cell
<1>2. t.cell[2] = p0
    BY <1>1
<1>3. ASSUME NEW b \in Bin
      PROVE  /\ ByBin(g, p)[b] = ByBin(f, p)[b] + Change(t, <<b, p>>)
             /\ ByBin(f, p)[b] \in Int
             /\ Change(t, <<b, p>>) = 0 => ByBin(g, p)[b] = ByBin(f, p)[b]
    <2>1. <<b, p>> \in Cell
        BY DEF Cell
    <2>2. g[<<b, p>>] = f[<<b, p>>] + Change(t, <<b, p>>)
        BY <2>1
    <2>3. ByBin(g, p)[b] = g[<<b, p>>]
        BY AllBins
    <2>4. ByBin(f, p)[b] = f[<<b, p>>] /\ ByBin(f, p)[b] \in Int
        BY AllBins
    <2> QED BY <2>2, <2>3, <2>4
<1>4. InAllBins(f, p) \in Int
    BY AllBins
<1>5. CASE p0 # p
    <2>1. \A b \in Bin : Change(t, <<b, p>>) = 0
        BY <1>1, <1>5 DEF Change
    <2>2. \A b \in Bin : ByBin(g, p)[b] = ByBin(f, p)[b]
        BY <1>3, <2>1
    <2>3. InAllBins(g, p) = InAllBins(f, p)
        BY <2>2, SetsFinite, SumSame DEF InAllBins
    <2> QED BY <1>2, <1>4, <1>5, <2>3 DEF Gain
<1>6. CASE p0 = p
    <2>1. \A b \in Bin \ {b0} : Change(t, <<b, p>>) = 0
        BY <1>1, <1>6 DEF Change
    <2>2. \A b \in Bin \ {b0} : ByBin(f, p)[b] = ByBin(g, p)[b]
        BY <1>3, <2>1
    <2>3. Change(t, <<b0, p>>) = Gain(t, p)
        BY <1>1, <1>2, <1>6 DEF Change, Gain
    <2>4. Gain(t, p) \in Int
        BY StatementFields DEF Gain
    <2>5. ByBin(g, p)[b0] = ByBin(f, p)[b0] + Gain(t, p)
        BY <1>3, <2>3
    <2>6. InAllBins(g, p) = InAllBins(f, p) - ByBin(f, p)[b0] + ByBin(g, p)[b0]
        <3>1. \A b \in Bin : ByBin(f, p)[b] \in Int /\ ByBin(g, p)[b] \in Int
            BY AllBins
        <3> QED BY <2>2, <3>1, SetsFinite, SumChange DEF InAllBins
    <2>7. ByBin(f, p)[b0] \in Int
        BY AllBins
    <2> QED BY <1>4, <2>4, <2>5, <2>6, <2>7
<1> QED BY <1>5, <1>6

LEMMA GainInt ==
    ASSUME NEW t \in Statement, NEW p
    PROVE  Gain(t, p) \in Int
<1>1. t.qty \in Nat
    BY StatementFields
<1> QED BY <1>1 DEF Gain

(* A transfer in flight is even when it is at a take; at a put it lacks    *)
(* what it took just before.                                               *)
Balanced(r) ==
    InFlight(r) /\ req[r].job \in Transfer =>
        \A p \in Product :
            InAllBins(req[r].own, p) =
                IF req[r].pc % 2 = 1 THEN 0
                ELSE Gain(job[req[r].job].script[req[r].pc - 1], p)

LEMMA BalancedWrite ==
    ASSUME TypeOK, TypeOK', Shape, [Next]_vars, NEW r \in Req, Balanced(r), Take(r) \/ Put(r)
    PROVE  Balanced(r)'
<1> DEFINE t == Current(r)
           script == job[req[r].job].script
           n == req[r].pc
<1>1. /\ Running(r) /\ InFlight(r) /\ t \in Statement /\ t.qty \in Nat /\ n \in 1..Len(script)
      /\ t = script[n] /\ t.op \in {"take", "put"} /\ script \in Seq(Statement)
    BY CurrentStatement, ReqFields DEF Take, Put, Current
<1>2. /\ InFlight(r)' /\ req'[r].job = req[r].job /\ req'[r].pc = n + 1
      /\ \A c \in Cell : req'[r].own[c] = req[r].own[c] + Change(t, c)
    <2>1. CASE Take(r)
        <3>1. Writes(r, Current(r).cell, -Current(r).qty) /\ req[r].at = "checked"
            BY <2>1 DEF Take
        <3>2. Current(r).op = "take"
            BY <1>1, <3>1 DEF Shape, Flight
        <3>3. -Current(r).qty \in Int
            BY <1>1
        <3>4. Running(r)
            BY <1>1
        <3>5. /\ InFlight(r)' /\ req'[r].job = req[r].job /\ req'[r].pc = req[r].pc + 1
              /\ \A c \in Cell : req'[r].own[c] = req[r].own[c] + Change(Current(r), c)
            BY <3>1, <3>2, <3>3, <3>4, WriteAdds
        <3> QED BY <3>5
    <2>2. CASE Put(r)
        <3>1. Writes(r, Current(r).cell, Current(r).qty) /\ Current(r).op = "put"
            BY <2>2 DEF Put
        <3>2. Current(r).qty \in Int /\ Running(r)
            BY <1>1
        <3>3. /\ InFlight(r)' /\ req'[r].job = req[r].job /\ req'[r].pc = req[r].pc + 1
              /\ \A c \in Cell : req'[r].own[c] = req[r].own[c] + Change(Current(r), c)
            BY <3>1, <3>2, WriteAdds
        <3> QED BY <3>3
    <2> QED BY <2>1, <2>2
<1>3. req[r].own \in [Cell -> Int] /\ req'[r].own \in [Cell -> Int]
    <2>1. req'[r] \in Completion
        BY <1>2 DEF TypeOK, InFlight
    <2> QED BY <1>1, <2>1, ReqFields DEF Completion
<1>4. SUFFICES ASSUME req[r].job \in Transfer, NEW p \in Product
               PROVE  InAllBins(req'[r].own, p) =
                          IF (n + 1) % 2 = 1 THEN 0
                          ELSE Gain(job'[req[r].job].script[(n + 1) - 1], p)
    BY <1>2 DEF Balanced
<1>5. InAllBins(req'[r].own, p) = InAllBins(req[r].own, p) + Gain(t, p)
    BY <1>1, <1>2, <1>3, StatementGain
<1>6. /\ job[req[r].job].status # "ABSENT" /\ req[r].job \in Job
      /\ job'[req[r].job].script = script
    BY <1>1, ReqFields, ScriptsKept DEF Shape, Flight, JobKept
<1>7. Paired(script)
    BY <1>4, <1>6 DEF Shape, JobShape
<1>8. InAllBins(req[r].own, p) = IF n % 2 = 1 THEN 0 ELSE Gain(script[n - 1], p)
    BY <1>1, <1>4 DEF Balanced
<1>9. Gain(t, p) \in Int /\ InAllBins(req[r].own, p) \in Int
    <2>1. InAllBins(req[r].own, p) \in Int
        BY <1>3, AllBins
    <2> HIDE DEF t
    <2> QED BY <1>1, <2>1, GainInt
<1>10. n \in Nat /\ (n + 1) - 1 = n
    BY <1>1
<1>11. CASE n % 2 = 1
    <2>1. (n + 1) % 2 # 1
        BY <1>10, <1>11
    <2>2. InAllBins(req'[r].own, p) = Gain(script[n], p)
        BY <1>1, <1>5, <1>8, <1>9, <1>11
    <2> QED BY <1>6, <1>10, <2>1, <2>2
<1>12. CASE n % 2 # 1
    <2>1. (n + 1) % 2 = 1
        BY <1>10, <1>12
    <2>2. /\ script[n].op = "put" /\ n - 1 \in 1..Len(script) /\ script[n - 1].op = "take"
          /\ script[n].qty = script[n - 1].qty /\ script[n].cell[2] = script[n - 1].cell[2]
        BY <1>1, <1>7, <1>12 DEF Paired
    <2>3. Gain(script[n - 1], p) + Gain(script[n], p) = 0
        <3>1. script[n].qty \in Nat
            BY <1>1
        <3> HIDE DEF script, n
        <3> QED BY <2>2, <3>1 DEF Gain
    <2>4. InAllBins(req'[r].own, p) = Gain(script[n - 1], p) + Gain(script[n], p)
        BY <1>1, <1>5, <1>8, <1>12
    <2> QED BY <2>1, <2>3, <2>4
<1> QED BY <1>11, <1>12

LEMMA BalancedStep ==
    ASSUME TypeOK, TypeOK', Shape, [Next]_vars, NEW r \in Req, Balanced(r)
    PROVE  Balanced(r)'
<1>1. ASSUME NEW j \in Job, CompleteRead(r, j)
      PROVE  Balanced(r)'
    <2>1. req'[r].own = [c \in Cell |-> 0] /\ req'[r].pc = 1
        BY <1>1, Begins
    <2>2. ASSUME NEW p \in Product
          PROVE  InAllBins(req'[r].own, p) = 0
        <3> DEFINE z == [c \in Cell |-> 0]
        <3>1. z \in [Cell -> Int]
            OBVIOUS
        <3>2. \A b \in Bin : ByBin(z, p)[b] = 0
            BY DEF ByBin, Cell
        <3> HIDE DEF z
        <3>3. InAllBins(z, p) = 0
            BY <3>2, SetsFinite, SumOfZeros DEF InAllBins
        <3> QED BY <2>1, <3>3 DEF z
    <2> QED BY <2>1, <2>2 DEF Balanced
<1>2. CASE Take(r) \/ Put(r)
    BY <1>2, BalancedWrite
<1>3. CASE ReadBalance(r) \/ Advance(r)
    <2>1. /\ InFlight(r) /\ req'[r].own = req[r].own /\ req'[r].pc = req[r].pc
          /\ req'[r].job = req[r].job /\ job' = job
        BY <1>3, ReadMoves, AdvanceMoves DEF ReadBalance
    <2> QED BY <2>1 DEF Balanced
<1>4. CASE req'[r] = req[r]
    <2>1. CASE InFlight(r)
        <3>1. job'[req[r].job].script = job[req[r].job].script
            BY <1>4, <2>1, FlightKept
        <3> QED BY <1>4, <2>1, <3>1 DEF Balanced
    <2>2. CASE ~InFlight(r)
        BY <1>4, <2>2 DEF Balanced, InFlight
    <2> QED BY <2>1, <2>2
<1>5. CASE req'[r] = Idle
    BY <1>5 DEF Balanced, InFlight
<1> QED BY <1>1, <1>2, <1>3, <1>4, <1>5, ReqMoves

LEMMA CommitConserves ==
    ASSUME TypeOK, TypeOK', Shape, NEW r \in Req, Balanced(r), CompleteCommit(r),
           req[r].job \in Transfer, NEW p \in Product
    PROVE  Total(p)' = Total(p)
<1> DEFINE script == job[req[r].job].script
<1>1. /\ InFlight(r) /\ req[r].job \in Job /\ req[r].pc = Len(script) + 1
      /\ \A c \in Cell : balance'[c] = balance[c] + req[r].own[c]
    BY Commit
<1>2. Paired(script) /\ script \in Seq(Statement)
    BY <1>1, ReqFields DEF Shape, JobShape, Flight
<1>3. req[r].pc % 2 = 1
    <2> HIDE DEF script
    <2>1. Len(script) \in Nat
        BY <1>2
    <2>2. Len(script) % 2 = 0
        BY <1>2 DEF Paired
    <2> QED BY <1>1, <2>1, <2>2
<1>4. InAllBins(req[r].own, p) = 0
    BY <1>1, <1>3 DEF Balanced
<1>5. /\ req[r].own \in [Cell -> Int] /\ balance \in [Cell -> Int] /\ balance' \in [Cell -> Int]
    BY <1>1, ReqFields DEF TypeOK
<1>6. \A b \in Bin : ByBin(balance', p)[b] = ByBin(balance, p)[b] + ByBin(req[r].own, p)[b]
    <2>1. \A b \in Bin : <<b, p>> \in Cell
        BY DEF Cell
    <2> QED BY <1>1, <1>5, <2>1, AllBins
<1>7. InAllBins(balance', p) = InAllBins(balance, p) + InAllBins(req[r].own, p)
    <2>1. \A b \in Bin : /\ ByBin(balance, p)[b] \in Int /\ ByBin(req[r].own, p)[b] \in Int
                         /\ ByBin(balance', p)[b] = ByBin(balance, p)[b] + ByBin(req[r].own, p)[b]
        BY <1>5, <1>6, AllBins
    <2> QED BY <2>1, SetsFinite, SumPlus DEF InAllBins
<1>8. Total(p) = InAllBins(balance, p) /\ Total(p)' = InAllBins(balance', p)
    BY DEF Total, InAllBins, ByBin, SumFunction
<1>9. InAllBins(balance, p) \in Int
    BY <1>5, AllBins
<1> QED BY <1>4, <1>7, <1>8, <1>9

(* No transfer makes or loses stock of any product, whatever else is       *)
(* committed while it runs.                                                *)
THEOREM TransferConserves == Spec => TransfersConserve
<1> DEFINE Inv == \A r \in Req : Balanced(r)
           Kept == \A r \in Req : CompleteCommit(r) /\ req[r].job \in Transfer
                                     => \A p \in Product : Total(p)' = Total(p)
<1>1. Init => Inv
    BY DEF Init, Balanced, InFlight
<1>2. TypeOK /\ TypeOK' /\ Shape /\ Inv /\ [Next]_vars => Inv'
    BY BalancedStep
<1>3. TypeOK /\ TypeOK' /\ Shape /\ Inv => [Kept]_vars
    BY CommitConserves
<1> HIDE DEF Inv
<1>4. Spec => []Inv
    BY <1>1, <1>2, Shaped, PTL DEF Spec
<1>5. Spec => [][Kept]_vars
    BY <1>3, <1>4, Shaped, PTL DEF Spec
<1> QED BY <1>5 DEF TransfersConserve
=============================================================================
