------------------------------ MODULE Outbound ------------------------------
(***************************************************************************)
(* Sales orders, their tasks, allocations and serial reservations:         *)
(* src/src/modules/outbound/outbound.service.ts.                           *)
(*                                                                         *)
(* The rows are those of one customer in one warehouse.  A request reads   *)
(* and checks in one step and writes in later ones, one for each of its    *)
(* transactions, and between them the database changes under it.           *)
(***************************************************************************)
EXTENDS Integers, FiniteSets, Functions

CONSTANTS
    Req,       \* request slots
    Order, Task,
    Product,   \* an order has at most one line for a product
    Serial,    \* serials the inbound and transformation trace knows
    Bin,
    Type,      \* the task types in use
    Ordered,   \* quantities an order's line may ask for
    Qty,       \* quantities of a task
    OnHand,    \* what a bin may hold of a product beyond the customs hold
    MaxWorked, \* bound: what a line may be worked in all
    MaxRaced,  \* bound: once so much is raced, requests follow one another
    Keep       \* a field of a request that is not set

Line == Order \X Product
Key == Product \X Serial
OrderStatus == {"DRAFT", "RELEASED", "ALLOCATED", "PICKING", "PACKING",
                "LOADING", "SHIPPED", "CANCELLED"}
LiveStatus == {"OPEN", "IN_PROGRESS", "DONE"}
ReservationStatus == {"ACTIVE", "CONSUMED", "RELEASED"}

ASSUME OutboundAssumption ==
    /\ Type \subseteq {"PICKING", "PACKING", "LOADING"}
    /\ Ordered \subseteq Nat \ {0} /\ Qty \subseteq Nat \ {0}
    /\ OnHand \subseteq Nat
    /\ IsFiniteSet(Task) /\ IsFiniteSet(Bin)
    /\ MaxWorked \in Nat /\ MaxRaced \in Nat

VARIABLES
    status, \* sales_orders.status, "ABSENT" before the order is created
    line,   \* sales_order_items: ordered, and worked by type of task
    task,   \* outbound_tasks
    alloc,  \* outbound_allocations: quantity of a line in a bin
    resv,   \* outbound_serial_reservations: the row of a serial in a status
    onHand, \* inventory_balances less the customs hold
    billed, \* quantity on the billing rows of a task
    req,    \* requests in flight
    raced   \* history: orders, lines, tasks and serials on which two requests
            \* decided at a time; serials of a cancelled task that was reopened

vars == <<status, line, task, alloc, resv, onHand, billed, req, raced>>

NoTask == [status |-> "ABSENT"]
TaskRow == [line : Line, type : Type, qty : Qty, done : Nat,
            serials : SUBSET Serial, status : LiveStatus \cup {"CANCELLED"}]

NoRow == [task |-> "none"]
Unlinked == "unlinked"
Reservation == [line : Line, task : Task \cup {Unlinked}]

Idle == [at |-> "idle"]

Request ==
         [at : {"update"}, order : Order, to : OrderStatus]
    \cup [at : {"replace", "cancel", "cancelTasks", "cancelOrder"}, order : Order]
    \cup [at : {"wave"}, order : Order, seen : OrderStatus]
    \cup [at : {"reserve"}, order : Order, pick : SUBSET Key, gone : BOOLEAN]
    \cup [at : {"create"}, order : Order, task : Task, row : TaskRow, gone : BOOLEAN]
    \cup [at : {"complete", "ship"}, order : Order, task : Task, qty : Nat,
          serials : SUBSET Serial, next : Nat, all : BOOLEAN]
    \cup [at : {"updateTask"}, order : Order, task : Task,
          to : {Keep, "CANCELLED"} \cup LiveStatus, serials : {Keep} \cup SUBSET Serial]
    \cup [at : {"cancelTask", "release"}, order : Order, task : Task]
    \cup [at : {"allocate"}, order : Order, again : BOOLEAN, seen : OrderStatus,
          change : [Line -> [Bin -> Int]], freed : SUBSET Key, pick : SUBSET Key,
          gone : BOOLEAN]

TypeOK ==
    /\ status \in [Order -> OrderStatus \cup {"ABSENT"}]
    /\ line \in [Line -> [ordered : Ordered \cup {0}, worked : [Type -> Nat]]]
    /\ task \in [Task -> TaskRow \cup {NoTask}]
    /\ alloc \in [Line -> [Bin -> Nat]]
    /\ resv \in [Key -> [ReservationStatus -> Reservation \cup {NoRow}]]
    /\ onHand \in [Bin \X Product -> OnHand]
    /\ billed \in [Task -> Nat]
    /\ req \in [Req -> Request \cup {Idle}]
    /\ raced \subseteq Order \cup Task \cup Line \cup Key

-----------------------------------------------------------------------------
(* Mutated form: any status may follow any other.                          *)
AnyTransition(from, to) == TRUE

(* ALLOWED_STATUS_TRANSITIONS, assertAllowedStatusTransition.              *)
AllowedTransition(from, to) ==
    \/ from = to
    \/ <<from, to>> \in
          {<<"DRAFT", "RELEASED">>, <<"RELEASED", "ALLOCATED">>, <<"RELEASED", "PICKING">>,
           <<"ALLOCATED", "PICKING">>, <<"PICKING", "PACKING">>, <<"PACKING", "LOADING">>,
           <<"LOADING", "SHIPPED">>}
    \/ to = "CANCELLED" /\ from # "SHIPPED"

(* statusFromTaskType.                                                     *)
StatusFromTaskType(type) == type

Eligible(o) == status[o] \notin {"ABSENT", "CANCELLED", "SHIPPED"}
Exists(l) == line[l].ordered > 0
Lines(o) == {l \in {o} \X Product : Exists(l)}
Live(t) == task[t].status \in LiveStatus
TasksOf(o) == {t \in Task : task[t] # NoTask /\ task[t].line[1] = o}

Free(r, t) == \A s \in Req \ {r} : ~(req[s].at = "ship" /\ req[s].task = t)

-----------------------------------------------------------------------------
(* Requests.  A request starts by reading what it will decide on: the      *)
(* order's status, lines to allocate, a task to complete, serials to use.  *)
SerialsOf(t) == {task[t].line[2]} \X Serial

Decides(q) ==
    LET at(X) == q.at \in X
    IN  IF q = Idle THEN {}
        ELSE {q.order}
             \cup (IF at({"allocate", "replace"}) THEN {q.order} \X Product ELSE {})
             \cup (IF at({"complete", "ship"}) THEN {q.task} ELSE {})
             \cup (IF at({"complete", "ship", "cancelTask", "release", "updateTask"})
                   THEN SerialsOf(q.task) ELSE {})
             \cup (IF at({"create"}) THEN {q.row.line[2]} \X q.row.serials ELSE {})
             \cup (IF at({"wave", "reserve", "allocate"}) THEN Key ELSE {})

Start(r, record) ==
    /\ req[r] = Idle
    /\ Cardinality(raced) < MaxRaced \/ \A s \in Req : req[s] = Idle
    /\ req' = [req EXCEPT ![r] = record]
    /\ raced' = raced \cup UNION {Decides(record) \cap Decides(req[s]) : s \in Req \ {r}}
    /\ UNCHANGED <<status, line, task, alloc, resv, onHand, billed>>

Finish(r) == req' = [req EXCEPT ![r] = Idle]
Continue(r, record) == req' = [req EXCEPT ![r] = record]

(* Any failure: a timeout, a lost connection, a unique or foreign key.     *)
Fail(r) ==
    /\ req[r] # Idle
    /\ Finish(r)
    /\ UNCHANGED <<status, line, task, alloc, resv, onHand, billed, raced>>

-----------------------------------------------------------------------------
(* Serials on tasks and reserved.                                          *)
OnTask(k, except) ==
    \E t \in Task \ except : Live(t) /\ task[t].line[2] = k[1] /\ k[2] \in task[t].serials

Active(k) == resv[k]["ACTIVE"]
ReservedFor(k, l) == Active(k) # NoRow /\ Active(k).line = l

(* Mutated form: other tasks not looked at.                                *)
ReservableThoughOnTask(p, serials, lines, except) ==
    \A s \in serials : (Active(<<p, s>>) # NoRow => Active(<<p, s>>).line \in lines)

(* assertReservableProductSerials: no other live task has the serial and no*)
(* line but the given ones has it reserved.                                *)
Reservable(p, serials, lines, except) ==
    \A s \in serials : /\ ~OnTask(<<p, s>>, except)
                       /\ (Active(<<p, s>>) # NoRow => Active(<<p, s>>).line \in lines)

(* Rows of serials keys go from ACTIVE to another status.  The unique key  *)
(* on customer, product, serial and status refuses a second row there.     *)
Movable(keys, to) == \A k \in keys : resv[k][to] = NoRow
Moved(keys, to, rows) ==
    [k \in Key |-> IF k \in keys
                   THEN [resv[k] EXCEPT !["ACTIVE"] = NoRow, ![to] = rows[k]]
                   ELSE resv[k]]

Released(keys) ==
    Moved(keys, "RELEASED", [k \in keys |-> [Active(k) EXCEPT !.task = Unlinked]])

ReservedOf(o) == {k \in Key : Active(k) # NoRow /\ Active(k).line[1] = o}

Taken(k, freed) == OnTask(k, {}) \/ (Active(k) # NoRow /\ k \notin freed)

(* reserveSerialsForSalesOrder reads: what each line of o misses, from the *)
(* trace less what is taken.  freed: reservations it has just released.    *)
Missing(l, freed) ==
    LET have == Cardinality({k \in Key \ freed : ReservedFor(k, l)})
    IN  IF line[l].ordered > have THEN line[l].ordered - have ELSE 0

Picks(o, freed) ==
    {S \in SUBSET {k \in Key : ~Taken(k, freed)} :
        \A p \in Product :
            LET free == {k \in Key : k[1] = p /\ ~Taken(k, freed)}
                n == IF Exists(<<o, p>>) THEN Missing(<<o, p>>, freed) ELSE 0
            IN  Cardinality({k \in S : k[1] = p})
                    = IF n < Cardinality(free) THEN n ELSE Cardinality(free)}

(* ... and inserts, skipping what another request has reserved meanwhile.  *)
Reserved(rv, o, pick) ==
    [k \in Key |-> IF k \in pick /\ rv[k]["ACTIVE"] = NoRow
                   THEN [rv[k] EXCEPT !["ACTIVE"] = [line |-> <<o, k[1]>>, task |-> Unlinked]]
                   ELSE rv[k]]

-----------------------------------------------------------------------------
Zero == [y \in Type |-> 0]

Init ==
    /\ status = [o \in Order |-> "ABSENT"]
    /\ line = [l \in Line |-> [ordered |-> 0, worked |-> Zero]]
    /\ task = [t \in Task |-> NoTask]
    /\ alloc = [l \in Line |-> [b \in Bin |-> 0]]
    /\ resv = [k \in Key |-> [x \in ReservationStatus |-> NoRow]]
    /\ onHand \in [Bin \X Product -> OnHand]
    /\ billed = [t \in Task |-> 0]
    /\ req = [r \in Req |-> Idle]
    /\ raced = {}

(* Order o asks for a quantity of some products, nothing is worked yet.    *)
HasItems(o) ==
    \E P \in SUBSET Product : \E q \in [P -> Ordered] :
        /\ P # {}
        /\ line' = [l \in Line |->
              IF l[1] # o THEN line[l]
              ELSE [ordered |-> IF l[2] \in P THEN q[l[2]] ELSE 0, worked |-> Zero]]

CreateSalesOrder(o) ==
    /\ status[o] = "ABSENT"
    /\ status' = [status EXCEPT ![o] = "RELEASED"]
    /\ HasItems(o)
    /\ UNCHANGED <<task, alloc, resv, onHand, billed, req, raced>>

(* updateSalesOrder: the transition is checked on the status read before.  *)
UpdateRead(r, o, to) ==
    /\ status[o] # "ABSENT"
    /\ AllowedTransition(status[o], to)
    /\ Start(r, [at |-> "update", order |-> o, to |-> to])

UpdateWrite(r) ==
    /\ req[r].at = "update"
    /\ status' = [status EXCEPT ![req[r].order] = req[r].to]
    /\ Finish(r)
    /\ UNCHANGED <<line, task, alloc, resv, onHand, billed, raced>>

(* updateSalesOrderItems.                                                  *)
ReplaceRead(r, o) ==
    /\ status[o] \in {"DRAFT", "RELEASED"}
    /\ \A t \in TasksOf(o) : ~Live(t)
    /\ Start(r, [at |-> "replace", order |-> o])

(* Rows that refer to the items keep them from being deleted; requests that*)
(* have read them will find them gone.                                     *)
Losing(s, o) == /\ req[s].at \in {"reserve", "create", "allocate"}
                /\ req[s].order = o

ReplaceWrite(r) ==
    LET o == req[r].order
    IN  /\ req[r].at = "replace"
        /\ TasksOf(o) = {}
        /\ \A l \in Lines(o), b \in Bin : alloc[l][b] = 0
        /\ \A k \in Key, x \in ReservationStatus :
               resv[k][x] # NoRow => resv[k][x].line[1] # o
        /\ HasItems(o)
        /\ req' = [s \in Req |-> IF s = r THEN Idle
                                 ELSE IF Losing(s, o) THEN [req[s] EXCEPT !.gone = TRUE]
                                 ELSE req[s]]
        /\ UNCHANGED <<status, task, alloc, resv, onHand, billed, raced>>

(* softDeleteSalesOrder: two statements, which a tenant's array transaction*)
(* runs as they come, without a transaction (tenantSchemaRouting).         *)
CancelRead(r, o) ==
    /\ status[o] \notin {"ABSENT", "SHIPPED"}
    /\ Start(r, [at |-> "cancel", order |-> o])

Then(r, other) ==
    IF req[r].at = "cancel" THEN Continue(r, [at |-> other, order |-> req[r].order])
    ELSE Finish(r)

CancelTasks(r) ==
    LET open == {t \in TasksOf(req[r].order) : task[t].status \in {"OPEN", "IN_PROGRESS"}}
    IN  /\ req[r].at \in {"cancel", "cancelTasks"}
        /\ \A t \in open : Free(r, t)
        /\ task' = [t \in Task |-> IF t \in open THEN [task[t] EXCEPT !.status = "CANCELLED"]
                                   ELSE task[t]]
        /\ Then(r, "cancelOrder")
        /\ UNCHANGED <<status, line, alloc, resv, onHand, billed, raced>>

CancelOrder(r) ==
    /\ req[r].at \in {"cancel", "cancelOrder"}
    /\ status' = [status EXCEPT ![req[r].order] = "CANCELLED"]
    /\ Then(r, "cancelTasks")
    /\ UNCHANGED <<line, task, alloc, resv, onHand, billed, raced>>

-----------------------------------------------------------------------------
(* createWave writes back the status it read, then reserves serials.       *)
WaveRead(r, o) ==
    /\ Eligible(o)
    /\ Start(r, [at |-> "wave", order |-> o, seen |-> status[o]])

WaveStatus(r) ==
    /\ req[r].at = "wave"
    /\ status' = [status EXCEPT ![req[r].order] =
                     IF req[r].seen = "RELEASED" THEN "ALLOCATED" ELSE req[r].seen]
    /\ \E pick \in Picks(req[r].order, {}) :
           Continue(r, [at |-> "reserve", order |-> req[r].order, pick |-> pick, gone |-> FALSE])
    /\ UNCHANGED <<line, task, alloc, resv, onHand, billed, raced>>

WaveReserve(r) ==
    /\ req[r].at = "reserve"
    /\ ~req[r].gone
    /\ resv' = Reserved(resv, req[r].order, req[r].pick)
    /\ Finish(r)
    /\ UNCHANGED <<status, line, task, alloc, onHand, billed, raced>>

-----------------------------------------------------------------------------
(* allocateSalesOrderInternal: bins one after another, oldest first, give  *)
(* what the line still misses and the bin holds.                           *)
Total(f) == SumFunction(f)
Least(m, n) == IF m < n THEN m ELSE n

(* Mutated form: what is allocated already not counted.                    *)
AllocatedNone(l, again) == 0
Already(l, again) == IF again THEN 0 ELSE Total(alloc[l])

(* Bins are emptied one by one, so that one at most is used in part.       *)
Plans(l, need) ==
    LET has == [b \in Bin |-> onHand[<<b, l[2]>>]]
    IN  {f \in [Bin -> 0..need] :
            /\ \A b \in Bin : f[b] <= has[b]
            /\ Cardinality({b \in Bin : 0 < f[b] /\ f[b] < has[b]}) <= 1
            /\ Total(f) = Least(need, Total(has))}

Need(l, again) ==
    IF Exists(l) /\ line[l].ordered > Already(l, again)
    THEN line[l].ordered - Already(l, again) ELSE 0

(* Mutated form: the old rows go in an ordinary allocation too.            *)
ChangeAlways(l, b, plan, again) == plan - alloc[l][b]
Change(l, b, plan, again) == plan - (IF again THEN alloc[l][b] ELSE 0)

(* Two that delete an order's rows wait for each other.                    *)
Dropping(s, o) == /\ req[s].at = "allocate" /\ req[s].again /\ req[s].order = o
                  /\ \E l \in {o} \X Product, b \in Bin :
                         req[s].change[l][b] < 0 \/ alloc[l][b] > 0

AllocateRead(r, o, again) ==
    LET freed == IF again THEN ReservedOf(o) ELSE {}
    IN  /\ Eligible(o)
        /\ again => \A s \in Req \ {r} : ~Dropping(s, o)
        /\ \E plan \in [Lines(o) -> UNION {Plans(l, Need(l, again)) : l \in Lines(o)}],
              pick \in Picks(o, freed) :
              /\ \A l \in Lines(o) : plan[l] \in Plans(l, Need(l, again))
              /\ Start(r,
                    [at |-> "allocate", order |-> o, again |-> again, freed |-> freed,
                     pick |-> pick, gone |-> FALSE,
                     change |-> [l \in Line |-> [b \in Bin |->
                         IF l \in Lines(o) THEN Change(l, b, plan[l][b], again) ELSE 0]],
                     seen |-> IF \E l \in Lines(o) : Already(l, again) + Total(plan[l]) > 0
                              THEN "ALLOCATED" ELSE status[o]])

(* Serials are picked for the lines as they are by then; those picked for  *)
(* lines that went afterwards have no line to refer to.                    *)
PicksNow(r) ==
    IF ~req[r].gone THEN {req[r].pick}
    ELSE Picks(req[r].order, req[r].freed) \cup {pick \in {req[r].pick} : pick = {}}

(* A new allocation of a line that is gone is refused (foreign key); with  *)
(* none to create, the status is written all the same.                     *)
AllocateCommit(r) ==
    /\ req[r].at = "allocate"
    /\ req[r].gone => \A l \in Line, b \in Bin : req[r].change[l][b] <= 0
    /\ Movable(req[r].freed, "RELEASED")
    /\ alloc' = [l \in Line |-> [b \in Bin |-> alloc[l][b] + req[r].change[l][b]]]
    /\ status' = [status EXCEPT ![req[r].order] = req[r].seen]
    /\ \E pick \in PicksNow(r) :
           resv' = Reserved(Released(req[r].freed), req[r].order, pick)
    /\ Finish(r)
    /\ UNCHANGED <<line, task, onHand, billed, raced>>

(* Reservations another request is releasing are locked.                   *)
Unlocked(r, keys) ==
    \A s \in Req \ {r} : req[s].at = "allocate" => keys \cap req[s].freed = {}

-----------------------------------------------------------------------------
(* createTask: the order, the line and the serials are read, then the task *)
(* is written, its reservations are linked to it and the order follows.    *)
CreateRead(r, t, l, type, q, serials) ==
    /\ task[t] = NoTask
    /\ \A s \in Req : req[s].at = "create" => req[s].task # t
    /\ Eligible(l[1]) /\ Exists(l)
    /\ Cardinality(serials) <= q
    /\ Reservable(l[2], serials, {l}, {})
    /\ Start(r,
             [at |-> "create", order |-> l[1], task |-> t, gone |-> FALSE,
              row |-> [line |-> l, type |-> type, qty |-> q, done |-> 0,
                       serials |-> serials, status |-> "OPEN"]])

CreateCommit(r) ==
    LET row == req[r].row
        keys == {k \in {row.line[2]} \X row.serials : ReservedFor(k, row.line)}
    IN  /\ req[r].at = "create"
        /\ ~req[r].gone
        /\ Unlocked(r, keys)
        /\ task' = [task EXCEPT ![req[r].task] = row]
        /\ resv' = [k \in Key |-> IF k \in keys
                       THEN [resv[k] EXCEPT !["ACTIVE"].task = req[r].task] ELSE resv[k]]
        /\ status' = [status EXCEPT ![req[r].order] = StatusFromTaskType(row.type)]
        /\ Finish(r)
        /\ UNCHANGED <<line, alloc, onHand, billed, raced>>

(* completeTask: the task is read and its part checked ...                 *)
Remaining(t) == task[t].qty - task[t].done

CompleteRead(r, t, q, serials) ==
    LET l == task[t].line
        on == IF serials = {} THEN task[t].serials ELSE serials
    IN  /\ task[t].status \in {"OPEN", "IN_PROGRESS"}
        /\ q <= Remaining(t)
        /\ line[l].worked[task[t].type] + q <= MaxWorked
        /\ Cardinality(on) <= q
        /\ Reservable(l[2], on, {l}, {t})
        /\ Start(r,
                 [at |-> "complete", order |-> l[1], task |-> t, qty |-> q, serials |-> on,
                  next |-> task[t].done + q, all |-> FALSE])

(* ... the task's row and the line's are written, and the order's lines    *)
(* read again ...                                                          *)
(* Mutated form: a line is shipped when more than ordered has left.        *)
ShippedBeyond(l, n) == n > line[l].ordered
Shipped(l, n) == n >= line[l].ordered

AllShipped(l, type, q) ==
    \A m \in Lines(l[1]) :
        Shipped(m, IF "LOADING" \notin Type THEN 0
                   ELSE line[m].worked["LOADING"] + (IF m = l /\ type = "LOADING" THEN q ELSE 0))

CompleteWrite(r) ==
    LET t == req[r].task
        l == task[t].line
    IN  /\ req[r].at = "complete"
        /\ \A s \in Req \ {r} : req[s].at = "ship" => task[req[s].task].line # l
        /\ req' = [req EXCEPT ![r].at = "ship",
                              ![r].all = AllShipped(l, task[t].type, req[r].qty)]
        /\ UNCHANGED <<status, line, task, alloc, resv, onHand, billed, raced>>

(* ... and the order's row last.  Only what completes the task is billed.  *)
(* Mutated form: every part is billed as the whole task.                   *)
BilledWhole(t, q, done) == task[t].qty
BilledPart(t, q, done) == IF done THEN q ELSE 0

(* Mutated form: the line counts the whole task.                           *)
CountedWhole(t, q) == task[t].qty
Counted(t, q) == q

CompleteCommit(r) ==
    LET t == req[r].task
        l == task[t].line
        q == req[r].qty
        done == req[r].next = task[t].qty
        keys == {k \in {l[2]} \X req[r].serials : ReservedFor(k, l)}
    IN  /\ req[r].at = "ship"
        /\ Unlocked(r, keys)
        /\ done => Movable(keys, "CONSUMED")
        /\ task' = [task EXCEPT
              ![t].done = req[r].next,
              ![t].serials = IF req[r].serials = {} THEN @ ELSE req[r].serials,
              ![t].status = IF done THEN "DONE" ELSE "IN_PROGRESS"]
        /\ resv' = Moved(keys, IF done THEN "CONSUMED" ELSE "ACTIVE",
                         [k \in keys |-> [line |-> l, task |-> t]])
        /\ line' = [line EXCEPT ![l].worked[task[t].type] = @ + Counted(t, q)]
        /\ status' = [status EXCEPT ![l[1]] =
                         IF req[r].all THEN "SHIPPED" ELSE StatusFromTaskType(task[t].type)]
        /\ billed' = [billed EXCEPT ![t] = @ + BilledPart(t, q, done)]
        /\ Finish(r)
        /\ UNCHANGED <<alloc, onHand, raced>>

-----------------------------------------------------------------------------
(* updateTask: a done task stays done; serials are checked against every   *)
(* reservation, the task's own included.                                   *)
UpdateTaskRead(r, t, to, serials) ==
    /\ task[t] # NoTask
    /\ task[t].status = "DONE" => to = "DONE"
    /\ serials # Keep => /\ Cardinality(serials) <= task[t].qty
                         /\ Cardinality(serials) >= task[t].done
                         /\ Reservable(task[t].line[2], serials, {}, {t})
    /\ Start(r,
             [at |-> "updateTask", order |-> task[t].line[1], task |-> t,
              to |-> to, serials |-> serials])

UpdateTaskWrite(r) ==
    LET t == req[r].task
        reopens == task[t].status = "CANCELLED" /\ req[r].to \in LiveStatus
    IN  /\ req[r].at = "updateTask"
        /\ Free(r, t)
        /\ task' = [task EXCEPT
              ![t].status = IF req[r].to = Keep THEN @ ELSE req[r].to,
              ![t].serials = IF req[r].serials = Keep THEN @ ELSE req[r].serials]
        /\ raced' = IF reopens THEN raced \cup SerialsOf(t) ELSE raced
        /\ Finish(r)
        /\ UNCHANGED <<status, line, alloc, resv, onHand, billed>>

(* softDeleteTask: the task, then its reservations, in two statements.     *)
CancelTaskRead(r, t) ==
    /\ task[t].status \notin {"ABSENT", "DONE"}
    /\ Start(r,
             [at |-> "cancelTask", order |-> task[t].line[1], task |-> t])

CancelTask(r) ==
    /\ req[r].at = "cancelTask"
    /\ Free(r, req[r].task)
    /\ task' = [task EXCEPT ![req[r].task].status = "CANCELLED"]
    /\ req' = [req EXCEPT ![r].at = "release"]
    /\ UNCHANGED <<status, line, alloc, resv, onHand, billed, raced>>

ReleaseReservations(r) ==
    LET keys == {k \in Key : Active(k) # NoRow /\ Active(k).task = req[r].task}
    IN  /\ req[r].at = "release"
        /\ Unlocked(r, keys)
        /\ Movable(keys, "RELEASED")
        /\ resv' = Released(keys)
        /\ Finish(r)
        /\ UNCHANGED <<status, line, task, alloc, onHand, billed, raced>>

-----------------------------------------------------------------------------
Writes(r) ==
    \/ UpdateWrite(r) \/ ReplaceWrite(r) \/ CancelTasks(r) \/ CancelOrder(r)
    \/ WaveStatus(r) \/ WaveReserve(r) \/ AllocateCommit(r)
    \/ CreateCommit(r) \/ CompleteWrite(r) \/ CompleteCommit(r)
    \/ UpdateTaskWrite(r) \/ CancelTask(r) \/ ReleaseReservations(r)

OrderRequest(r, o) ==
    \/ \E to \in OrderStatus : UpdateRead(r, o, to)
    \/ ReplaceRead(r, o)
    \/ CancelRead(r, o)
    \/ WaveRead(r, o)
    \/ \E again \in BOOLEAN : AllocateRead(r, o, again)

TaskRequest(r, t) ==
    \/ \E l \in Line, type \in Type, q \in Qty, serials \in SUBSET Serial :
           CreateRead(r, t, l, type, q, serials)
    \/ \E q \in 1..MaxWorked, serials \in SUBSET Serial : CompleteRead(r, t, q, serials)
    \/ \E to \in {Keep, "CANCELLED"} \cup LiveStatus, serials \in {Keep} \cup SUBSET Serial :
           UpdateTaskRead(r, t, to, serials)
    \/ CancelTaskRead(r, t)

Next ==
    \/ \E o \in Order : CreateSalesOrder(o)
    \/ \E r \in Req : \/ \E o \in Order : OrderRequest(r, o)
                      \/ \E t \in Task : TaskRequest(r, t)
                      \/ Writes(r)
                      \/ Fail(r)

Spec == Init /\ [][Next]_vars
-----------------------------------------------------------------------------
(* What a line has been worked is what its tasks have done, in as many     *)
(* parts as they were completed (completeTask writes the task's quantity   *)
(* and increments the line's), unless completions of one task overlapped.  *)
LineIsWorkedUnlessRaced ==
    \A l \in Line :
        LET T == {t \in TasksOf(l[1]) : task[t].line = l}
        IN  T \cap raced = {} =>
                \A type \in Type :
                    line[l].worked[type] =
                        SumFunctionOnSet([t \in T |-> task[t].done],
                                         {t \in T : task[t].type = type})

(* When every line of an order has been shipped, so has the order, however *)
(* its tasks, waves and allocations followed each other (completeTask      *)
(* judges it on the lines), unless requests on the order overlapped.       *)
ShippedWhenAllShippedUnlessRaced ==
    \A o \in Order \ raced :
        /\ "LOADING" \in Type /\ Lines(o) # {}
        /\ \A l \in Lines(o) : line[l].worked["LOADING"] >= line[l].ordered
        => status[o] = "SHIPPED"

(* A shipped order none of whose tasks is open stays shipped through waves,*)
(* allocations and new tasks asked for, unless requests on it overlapped.  *)
Closed(o) == \A t \in TasksOf(o) : task[t].status \notin {"OPEN", "IN_PROGRESS"}

ShippedIsFinalUnlessRaced ==
    [][\A o \in Order \ raced' :
          status[o] = "SHIPPED" /\ Closed(o) => status'[o] = "SHIPPED"]_vars

(* No task is billed for more than it has done (createOutboundBilling-     *)
(* Transaction at its completion), unless completions of it overlapped.    *)
BilledWithinDoneUnlessRaced ==
    \A t \in Task \ raced : task[t] = NoTask \/ billed[t] <= task[t].done

(* Allocations of a line add up to no more than it asks for, over repeated *)
(* allocations and reallocations (allocateSalesOrderInternal subtracts what*)
(* is allocated already), unless two of them overlapped.                   *)
AllocatedWithinOrderUnlessRaced ==
    \A l \in Line \ raced : Total(alloc[l]) <= line[l].ordered

(* A serial on a live task is on no other ('Serial already reserved/used   *)
(* for this customer/product') and reserved for no other line ('Serial     *)
(* already pre-reserved by another order'), over plans, completions,       *)
(* cancellations and new plans, unless the check was overtaken, or         *)
(* bypassed by a reopened task.                                            *)
SerialsAreKeptUnlessRaced ==
    \A k \in Key \ raced : \A t \in Task :
        Live(t) /\ task[t].line[2] = k[1] /\ k[2] \in task[t].serials
            => ~OnTask(k, {t}) /\ (Active(k) = NoRow \/ ReservedFor(k, task[t].line))

(* Nothing follows SHIPPED or CANCELLED (SHIPPED: [], CANCELLED: [] in the *)
(* transitions; 'Invalid sales order status transition').                  *)
FinalIsFinal ==
    [][\A o \in Order : status[o] \in {"SHIPPED", "CANCELLED"} => status'[o] = status[o]]_vars
=============================================================================
