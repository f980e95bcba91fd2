---------------------------- MODULE OutboundProofs ----------------------------
(* Theorems about Outbound, for every value of its constants.              *)
EXTENDS Outbound, Sums, TLAPS

-----------------------------------------------------------------------------
(* The kinds of requests, by what they still have to do.                   *)
UpdateReq == [at : {"update"}, order : Order, to : OrderStatus]
OrderReq == [at : {"replace", "cancel", "cancelTasks", "cancelOrder"}, order : Order]
WaveReq == [at : {"wave"}, order : Order, seen : OrderStatus]
ReserveReq == [at : {"reserve"}, order : Order, pick : SUBSET Key, gone : BOOLEAN]
CreateReq == [at : {"create"}, order : Order, task : Task, row : TaskRow, gone : BOOLEAN]
CompleteReq == [at : {"complete", "ship"}, order : Order, task : Task, qty : Nat,
                serials : SUBSET Serial, next : Nat, all : BOOLEAN]
UpdateTaskReq == [at : {"updateTask"}, order : Order, task : Task,
                  to : {Keep, "CANCELLED"} \cup LiveStatus,
                  serials : {Keep} \cup SUBSET Serial]
TaskReq == [at : {"cancelTask", "release"}, order : Order, task : Task]
AllocateReq == [at : {"allocate"}, order : Order, again : BOOLEAN, seen : OrderStatus,
                change : [Line -> [Bin -> Int]], freed : SUBSET Key, pick : SUBSET Key,
                gone : BOOLEAN]

LEMMA RequestKinds ==
    Request = UpdateReq \cup OrderReq \cup WaveReq \cup ReserveReq \cup CreateReq
              \cup CompleteReq \cup UpdateTaskReq \cup TaskReq \cup AllocateReq
BY Zenon DEF Request, UpdateReq, OrderReq, WaveReq, ReserveReq, CreateReq, CompleteReq,
   UpdateTaskReq,
   TaskReq, AllocateReq

(* The step a request is at tells its kind.                                *)
LEMMA KindAt ==
    /\ \A q \in UpdateReq : q.at \in {"update"}
    /\ \A q \in OrderReq : q.at \in {"replace", "cancel", "cancelTasks", "cancelOrder"}
    /\ \A q \in WaveReq : q.at \in {"wave"}
    /\ \A q \in ReserveReq : q.at \in {"reserve"}
    /\ \A q \in CreateReq : q.at \in {"create"}
    /\ \A q \in CompleteReq : q.at \in {"complete", "ship"}
    /\ \A q \in UpdateTaskReq : q.at \in {"updateTask"}
    /\ \A q \in TaskReq : q.at \in {"cancelTask", "release"}
    /\ \A q \in AllocateReq : q.at \in {"allocate"}
    /\ Idle.at = "idle"
BY DEF UpdateReq, OrderReq, WaveReq, ReserveReq, CreateReq, CompleteReq, UpdateTaskReq,
   TaskReq, AllocateReq, Idle

LEMMA Kinds ==
    ASSUME NEW q \in Request \cup {Idle}
    PROVE  /\ q.at = "update" => q \in UpdateReq
           /\ q.at \in {"replace", "cancel", "cancelTasks", "cancelOrder"} => q \in OrderReq
           /\ q.at = "wave" => q \in WaveReq
           /\ q.at = "reserve" => q \in ReserveReq
           /\ q.at = "create" => q \in CreateReq
           /\ q.at \in {"complete", "ship"} => q \in CompleteReq
           /\ q.at = "updateTask" => q \in UpdateTaskReq
           /\ q.at \in {"cancelTask", "release"} => q \in TaskReq
           /\ q.at = "allocate" => q \in AllocateReq
           /\ q # Idle => q \in Request
           /\ q.at # "idle" => q # Idle
BY RequestKinds, KindAt

LEMMA OrderOf ==
    ASSUME NEW q \in Request
    PROVE  q.order \in Order /\ q.at # "idle" /\ q # Idle
<1>1. \/ q \in UpdateReq \/ q \in OrderReq \/ q \in WaveReq \/ q \in ReserveReq \/ q \in CreateReq
      \/ q \in CompleteReq \/ q \in UpdateTaskReq \/ q \in TaskReq \/ q \in AllocateReq
    BY RequestKinds
<1>2. q.order \in Order
    BY <1>1 DEF UpdateReq, OrderReq, WaveReq, ReserveReq, CreateReq, CompleteReq, UpdateTaskReq,
       TaskReq, AllocateReq
<1>3. q.at # "idle"
    BY <1>1, KindAt
<1> QED BY <1>2, <1>3, KindAt

-----------------------------------------------------------------------------
LEMMA TaskFields ==
    ASSUME TypeOK, NEW t \in Task
    PROVE  /\ task[t] = NoTask => task[t].status = "ABSENT"
           /\ task[t] # NoTask =>
                /\ task[t] \in TaskRow /\ task[t].line \in Line /\ task[t].type \in Type
                /\ task[t].qty \in Nat /\ task[t].done \in Nat /\ task[t].serials \subseteq Serial
                /\ task[t].status \in LiveStatus \cup {"CANCELLED"} /\ task[t].status # "ABSENT"
                /\ task[t].line[1] \in Order /\ task[t].line[2] \in Product
<1>1. NoTask.status = "ABSENT"
    BY DEF NoTask
<1>2. task[t] # NoTask => task[t] \in TaskRow
    BY DEF TypeOK
<1>3. ASSUME task[t] # NoTask
      PROVE  task[t].line[1] \in Order /\ task[t].line[2] \in Product
    <2>1. task[t].line \in Line
        BY <1>2, <1>3, OutboundAssumption DEF TaskRow
    <2> QED BY <2>1 DEF Line
<1>4. ASSUME task[t] # NoTask
      PROVE  task[t].qty \in Nat
    BY <1>2, <1>4, OutboundAssumption DEF TaskRow
<1> QED BY <1>1, <1>2, <1>3, <1>4 DEF TaskRow, LiveStatus

LEMMA LineFields ==
    ASSUME TypeOK, NEW l \in Line
    PROVE  /\ line[l].ordered \in Nat /\ line[l].ordered \in Ordered \cup {0}
           /\ line[l].worked \in [Type -> Nat] /\ l[1] \in Order /\ l[2] \in Product
           /\ l = <<l[1], l[2]>>
<1>1. line[l] \in [ordered : Ordered \cup {0}, worked : [Type -> Nat]]
    BY DEF TypeOK
<1>2. line[l].ordered \in Ordered \cup {0} /\ line[l].worked \in [Type -> Nat]
    BY <1>1
<1>3. line[l].ordered \in Nat
    <2>1. \A n \in Ordered \cup {0} : n \in Nat
        BY OutboundAssumption
    <2> QED BY <1>2, <2>1
<1> QED BY <1>2, <1>3 DEF Line

(* Reservations in the columns of a serial.                                *)
LEMMA ActiveTyped ==
    ASSUME TypeOK, NEW k \in Key
    PROVE  /\ Active(k) \in Reservation \cup {NoRow}
           /\ Active(k) # NoRow => Active(k).line \in Line /\ Active(k) \in Reservation
           /\ k[1] \in Product /\ k[2] \in Serial /\ k = <<k[1], k[2]>>
BY DEF TypeOK, Active, ReservationStatus, Reservation, Key

(* A request that starts.                                                  *)
LEMMA Starts ==
    ASSUME TypeOK, NEW r \in Req, NEW q, Start(r, q)
    PROVE  /\ req[r] = Idle /\ req'[r] = q /\ \A s \in Req \ {r} : req'[s] = req[s]
           /\ \A s \in Req \ {r} : \A x : x \in Decides(q) /\ x \in Decides(req[s]) => x \in raced'
           /\ raced \subseteq raced' /\ raced' \subseteq raced \cup Decides(q)
           /\ status' = status /\ line' = line /\ task' = task /\ alloc' = alloc
           /\ resv' = resv /\ onHand' = onHand /\ billed' = billed
BY DEF Start, TypeOK

LEMMA Finishes ==
    ASSUME TypeOK, NEW r \in Req, Finish(r)
    PROVE  req'[r] = Idle /\ \A s \in Req \ {r} : req'[s] = req[s]
BY DEF Finish, TypeOK

LEMMA Continues ==
    ASSUME TypeOK, NEW r \in Req, NEW q, Continue(r, q)
    PROVE  req'[r] = q /\ \A s \in Req \ {r} : req'[s] = req[s]
BY DEF Continue, TypeOK

LEMMA HasItemsMeans ==
    ASSUME TypeOK, NEW o \in Order, HasItems(o)
    PROVE  /\ line' \in [Line -> [ordered : Ordered \cup {0}, worked : [Type -> Nat]]]
           /\ \A l \in Line : l[1] # o => line'[l] = line[l]
           /\ \A l \in Line : l[1] = o => line'[l].worked = Zero
           /\ \E l \in Line : l[1] = o /\ line'[l].ordered > 0
<1>1. PICK P \in SUBSET Product : \E n \in [P -> Ordered] :
          /\ P # {}
          /\ line' = [l \in Line |->
                IF l[1] # o THEN line[l]
                ELSE [ordered |-> IF l[2] \in P THEN n[l[2]] ELSE 0, worked |-> Zero]]
    BY DEF HasItems
<1>11. PICK n \in [P -> Ordered] :
          /\ P # {}
          /\ line' = [l \in Line |->
                IF l[1] # o THEN line[l]
                ELSE [ordered |-> IF l[2] \in P THEN n[l[2]] ELSE 0, worked |-> Zero]]
    BY <1>1
<1>2. Zero \in [Type -> Nat]
    BY DEF Zero
<1>3. ASSUME NEW l \in Line
      PROVE  line'[l] \in [ordered : Ordered \cup {0}, worked : [Type -> Nat]]
    <2>1. CASE l[1] # o
        BY <1>11, <2>1 DEF TypeOK
    <2>2. CASE l[1] = o
        <3> DEFINE m == IF l[2] \in P THEN n[l[2]] ELSE 0
        <3>1. m \in Ordered \cup {0}
            BY <1>11
        <3>2. line'[l] = [ordered |-> m, worked |-> Zero]
            BY <1>11, <2>2
        <3> HIDE DEF m
        <3> QED BY <1>2, <3>1, <3>2
    <2> QED BY <2>1, <2>2
<1>4. PICK p \in P : TRUE
    BY <1>11
<1>5. <<o, p>> \in Line /\ <<o, p>>[1] = o
    BY <1>4 DEF Line
<1>6. line'[<<o, p>>] = [ordered |-> n[p], worked |-> Zero] /\ n[p] \in Ordered
    BY <1>11, <1>4, <1>5
<1>7. line'[<<o, p>>].ordered > 0
    <2>1. n[p] \in Nat /\ n[p] # 0
        BY <1>6, OutboundAssumption
    <2> QED BY <1>6, <2>1
<1>8. \A l \in Line : l[1] # o => line'[l] = line[l]
    BY <1>11
<1>9. \A l \in Line : l[1] = o => line'[l].worked = Zero
    BY <1>11
<1>10. line' \in [Line -> [ordered : Ordered \cup {0}, worked : [Type -> Nat]]]
    BY <1>11, <1>3
<1> QED BY <1>5, <1>7, <1>8, <1>9, <1>10

-----------------------------------------------------------------------------
(* What a request in flight may count on whatever overlaps it: its order   *)
(* exists, its task exists and is one of the order's, a task it creates is *)
(* its own, and the rows it deletes are still there to be deleted.         *)
OnTasks == {"complete", "ship", "updateTask", "cancelTask", "release"}
Allocates(r) == req[r].at = "allocate"

HasTask(r) ==
    req[r].at \in OnTasks => /\ task[req[r].task] # NoTask
                             /\ req[r].order = task[req[r].task].line[1]

HasRow(r) ==
    req[r].at = "create" =>
        /\ task[req[r].task] = NoTask
        /\ req[r].row.line[1] = req[r].order /\ req[r].row.done = 0
        /\ \A s \in Req \ {r} : req[s].at = "create" => req[s].task # req[r].task

HasFreed(r) ==
    Allocates(r) => \A k \in req[r].freed : Active(k) # NoRow \/ resv[k]["RELEASED"] # NoRow

HasAlloc(r) ==
    Allocates(r) =>
        \A l \in Line, b \in Bin :
            /\ alloc[l][b] + req[r].change[l][b] >= 0
            /\ l[1] # req[r].order => req[r].change[l][b] = 0
            /\ ~req[r].again => req[r].change[l][b] >= 0
            /\ \A s \in Req \ {r} :
                   Allocates(s) /\ req[r].again /\ req[s].again /\ req[r].order = req[s].order
                       => req[r].change[l][b] >= 0

HasOrder(r) == req[r] # Idle => status[req[r].order] # "ABSENT"

Founded ==
    /\ \A t \in Task : task[t] = NoTask => billed[t] = 0
    /\ \A t \in Task : task[t] # NoTask => status[task[t].line[1]] # "ABSENT"
    /\ \A l \in Line : status[l[1]] = "ABSENT" => line[l].ordered = 0

Sound ==
    /\ Founded
    /\ \A r \in Req : HasOrder(r) /\ HasTask(r) /\ HasRow(r) /\ HasFreed(r) /\ HasAlloc(r)

LEMMA SoundAt ==
    ASSUME Sound, NEW r \in Req
    PROVE  HasOrder(r) /\ HasTask(r) /\ HasRow(r) /\ HasFreed(r) /\ HasAlloc(r)
BY DEF Sound

LEMMA TotalNat ==
    ASSUME NEW f \in [Bin -> Nat]
    PROVE  Total(f) \in Nat /\ \A b \in Bin : f[b] <= Total(f)
<1>1. DOMAIN f = Bin /\ IsFiniteSet(Bin) /\ \A b \in Bin : f[b] \in Nat
    BY OutboundAssumption
<1> QED BY <1>1, SumNat DEF Total, SumFunction

LEMMA AllocTyped ==
    ASSUME TypeOK, NEW l \in Line
    PROVE  alloc[l] \in [Bin -> Nat] /\ Total(alloc[l]) \in Nat
           /\ \A b \in Bin : alloc[l][b] \in Nat
<1>1. alloc[l] \in [Bin -> Nat]
    BY DEF TypeOK
<1> QED BY <1>1, TotalNat

LEMMA NeedNat ==
    ASSUME TypeOK, NEW l \in Line, NEW again \in BOOLEAN
    PROVE  Need(l, again) \in Nat /\ Already(l, again) \in Nat
<1>1. Already(l, again) \in Nat
    BY AllocTyped DEF Already
<1>2. line[l].ordered \in Nat
    BY LineFields
<1> QED BY <1>1, <1>2 DEF Need

LEMMA DecidesTyped ==
    ASSUME TypeOK, NEW q \in Request, q.at \in OnTasks => task[q.task] # NoTask
    PROVE  Decides(q) \subseteq Order \cup Task \cup Line \cup Key
<1>1. q.order \in Order /\ q # Idle
    BY OrderOf
<1>2. {q.order} \X Product \subseteq Line
    BY <1>1 DEF Line
<1>3. ASSUME q.at \in {"complete", "ship"} PROVE q.task \in Task
    BY <1>3, Kinds DEF CompleteReq
<1>4. ASSUME q.at \in OnTasks PROVE SerialsOf(q.task) \subseteq Key
    <2>1. q.task \in Task
        BY <1>4, Kinds DEF CompleteReq, UpdateTaskReq, TaskReq, OnTasks
    <2> QED BY <1>4, <2>1, TaskFields DEF SerialsOf, Key
<1>5. ASSUME q.at = "create" PROVE {q.row.line[2]} \X q.row.serials \subseteq Key
    <2>1. q.row \in TaskRow
        BY <1>5, Kinds DEF CreateReq
    <2>2. q.row.line \in Line /\ q.row.serials \subseteq Serial
        BY <2>1 DEF TaskRow
    <2> QED BY <2>2 DEF Line, Key
<1> QED BY <1>1, <1>2, <1>3, <1>4, <1>5 DEF Decides, OnTasks

LEMMA StartTyped ==
    ASSUME TypeOK, NEW r \in Req, NEW q \in Request,
           q.at \in OnTasks => task[q.task] # NoTask, Start(r, q)
    PROVE  TypeOK'
<1>1. raced' \subseteq Order \cup Task \cup Line \cup Key
    BY Starts, DecidesTyped DEF TypeOK
<1>2. req' \in [Req -> Request \cup {Idle}]
    BY DEF TypeOK, Start
<1> QED BY <1>1, <1>2, Starts DEF TypeOK

LEMMA FinishTyped ==
    ASSUME TypeOK, NEW r \in Req, Finish(r)
    PROVE  req' \in [Req -> Request \cup {Idle}]
BY DEF TypeOK, Finish

LEMMA ContinueTyped ==
    ASSUME TypeOK, NEW r \in Req, NEW q \in Request, Continue(r, q)
    PROVE  req' \in [Req -> Request \cup {Idle}]
BY DEF TypeOK, Continue

LEMMA MovedTyped ==
    ASSUME TypeOK, NEW keys \in SUBSET Key, NEW to \in ReservationStatus, NEW rows,
           \A k \in keys : rows[k] \in Reservation \cup {NoRow}
    PROVE  Moved(keys, to, rows) \in [Key -> [ReservationStatus -> Reservation \cup {NoRow}]]
<1>1. ASSUME NEW k \in Key
      PROVE  (IF k \in keys THEN [resv[k] EXCEPT !["ACTIVE"] = NoRow, ![to] = rows[k]]
              ELSE resv[k]) \in [ReservationStatus -> Reservation \cup {NoRow}]
    BY DEF TypeOK
<1> QED BY <1>1 DEF Moved

LEMMA ReleasedTyped ==
    ASSUME TypeOK, NEW keys \in SUBSET Key, \A k \in keys : Active(k) # NoRow
    PROVE  Released(keys) \in [Key -> [ReservationStatus -> Reservation \cup {NoRow}]]
<1> DEFINE rows == [k \in keys |-> [Active(k) EXCEPT !.task = Unlinked]]
<1>1. \A k \in keys : rows[k] \in Reservation \cup {NoRow}
    BY ActiveTyped DEF Reservation
<1>2. "RELEASED" \in ReservationStatus
    BY DEF ReservationStatus
<1> HIDE DEF rows
<1>3. Moved(keys, "RELEASED", rows) \in [Key -> [ReservationStatus -> Reservation \cup {NoRow}]]
    BY <1>1, <1>2, MovedTyped
<1> QED BY <1>3 DEF Released, rows

LEMMA ReservedTyped ==
    ASSUME NEW rv \in [Key -> [ReservationStatus -> Reservation \cup {NoRow}]],
           NEW o \in Order, NEW pick
    PROVE  Reserved(rv, o, pick) \in [Key -> [ReservationStatus -> Reservation \cup {NoRow}]]
<1>1. ASSUME NEW k \in Key
      PROVE  [line |-> <<o, k[1]>>, task |-> Unlinked] \in Reservation
    BY DEF Reservation, Line, Key
<1> QED BY <1>1 DEF Reserved

(* The change an allocation plans is a number for every line and bin.      *)
LEMMA ChangeTyped ==
    ASSUME TypeOK, NEW o \in Order, NEW again \in BOOLEAN,
           NEW plan, \A l \in Lines(o) : plan[l] \in Plans(l, Need(l, again)),
           NEW l \in Lines(o), NEW b \in Bin
    PROVE  /\ plan[l] \in [Bin -> Nat] /\ plan[l][b] \in Nat
           /\ Change(l, b, plan[l][b], again) \in Int
           /\ alloc[l][b] + Change(l, b, plan[l][b], again) \in Nat
           /\ ~again => Change(l, b, plan[l][b], again) \in Nat
<1>1. l \in Line
    BY DEF Lines, Line
<1>2. Need(l, again) \in Nat
    BY <1>1, NeedNat
<1>3. plan[l] \in [Bin -> 0..Need(l, again)]
    BY DEF Plans
<1>4. plan[l] \in [Bin -> Nat]
    BY <1>2, <1>3
<1>5. plan[l][b] \in Nat /\ alloc[l][b] \in Nat
    BY <1>1, <1>4, AllocTyped
<1> QED BY <1>4, <1>5 DEF Change

(* The request an allocation makes of what it has read.                    *)
Planned(o, again, freed, plan, pick, seen) ==
    [at |-> "allocate", order |-> o, again |-> again, freed |-> freed,
     pick |-> pick, gone |-> FALSE,
     change |-> [l \in Line |-> [b \in Bin |->
         IF l \in Lines(o) THEN Change(l, b, plan[l][b], again) ELSE 0]],
     seen |-> seen]

LEMMA PlannedTyped ==
    ASSUME TypeOK, NEW o \in Order, NEW again \in BOOLEAN, NEW freed \in SUBSET Key,
           NEW pick \in SUBSET Key, NEW seen \in OrderStatus,
           NEW plan, \A l \in Lines(o) : plan[l] \in Plans(l, Need(l, again))
    PROVE  Planned(o, again, freed, plan, pick, seen) \in AllocateReq
<1> DEFINE change == [l \in Line |-> [b \in Bin |->
                IF l \in Lines(o) THEN Change(l, b, plan[l][b], again) ELSE 0]]
<1>1. change \in [Line -> [Bin -> Int]]
    BY ChangeTyped
<1> HIDE DEF change
<1>2. [at |-> "allocate", order |-> o, again |-> again, freed |-> freed,
       pick |-> pick, gone |-> FALSE, change |-> change, seen |-> seen] \in AllocateReq
    BY <1>1 DEF AllocateReq
<1> QED BY <1>2 DEF change, Planned

LEMMA PlannedFields ==
    ASSUME NEW o, NEW again, NEW freed, NEW plan, NEW pick, NEW seen
    PROVE  LET q == Planned(o, again, freed, plan, pick, seen)
           IN  /\ q.at = "allocate" /\ q.order = o /\ q.again = again /\ q.freed = freed
               /\ q.pick = pick /\ q.seen = seen
               /\ \A l \in Line, b \in Bin :
                      q.change[l][b] = IF l \in Lines(o) THEN Change(l, b, plan[l][b], again) ELSE 0
BY DEF Planned

LEMMA AllocateReads ==
    ASSUME TypeOK, NEW r \in Req, NEW o \in Order, NEW again \in BOOLEAN,
           AllocateRead(r, o, again)
    PROVE  /\ Eligible(o)
           /\ again => \A s \in Req \ {r} : ~Dropping(s, o)
           /\ \E plan : \E freed \in SUBSET Key, pick \in SUBSET Key, seen \in OrderStatus :
                /\ freed = IF again THEN ReservedOf(o) ELSE {}
                /\ pick \in Picks(o, freed)
                /\ \A l \in Lines(o) : plan[l] \in Plans(l, Need(l, again))
                /\ seen \in {"ALLOCATED", status[o]}
                /\ Planned(o, again, freed, plan, pick, seen) \in AllocateReq
                /\ Start(r, Planned(o, again, freed, plan, pick, seen))
<1> DEFINE freed == IF again THEN ReservedOf(o) ELSE {}
           sees(plan) == IF \E l \in Lines(o) : Already(l, again) + Total(plan[l]) > 0
                         THEN "ALLOCATED" ELSE status[o]
<1>1. Eligible(o) /\ (again => \A s \in Req \ {r} : ~Dropping(s, o))
    BY DEF AllocateRead
<1>2. PICK plan \in [Lines(o) -> UNION {Plans(l, Need(l, again)) : l \in Lines(o)}],
           pick \in Picks(o, freed) :
           /\ \A l \in Lines(o) : plan[l] \in Plans(l, Need(l, again))
           /\ Start(r, Planned(o, again, freed, plan, pick, sees(plan)))
    BY DEF AllocateRead, Planned
<1>3. freed \in SUBSET Key
    BY DEF ReservedOf
<1>4. pick \in SUBSET Key
    BY <1>2 DEF Picks
<1>5. sees(plan) \in {"ALLOCATED", status[o]}
    OBVIOUS
<1>8. freed = IF again THEN ReservedOf(o) ELSE {}
    OBVIOUS
<1> HIDE DEF sees, freed
<1>6. sees(plan) \in OrderStatus
    BY <1>1, <1>5 DEF Eligible, TypeOK, OrderStatus
<1>9. Planned(o, again, freed, plan, pick, sees(plan)) \in AllocateReq
    BY <1>2, <1>3, <1>4, <1>6, PlannedTyped
<1>10. Start(r, Planned(o, again, freed, plan, pick, sees(plan)))
    BY <1>2
<1> QED BY Zenon, <1>1, <1>2, <1>3, <1>4, <1>5, <1>6, <1>8, <1>9, <1>10

-----------------------------------------------------------------------------
(* What a request has checked when it starts, in the state it has read.    *)
Checked(r, q) ==
    /\ q \in Request
    /\ q.at \notin {"reserve", "cancelTasks", "cancelOrder", "ship", "release"}
    /\ status[q.order] # "ABSENT"
    /\ q.at = "update" => AllowedTransition(status[q.order], q.to)
    /\ q.at \in {"cancel", "wave", "create", "allocate"} => status[q.order] # "SHIPPED"
    /\ q.at = "wave" => q.seen = status[q.order]
    /\ q.at = "allocate" =>
          /\ q.seen \in {"ALLOCATED", status[q.order]}
          /\ q.again => \A s \in Req \ {r} : ~Dropping(s, q.order)
          /\ q.freed = IF q.again THEN ReservedOf(q.order) ELSE {}
          /\ q.pick \in Picks(q.order, q.freed)
          /\ \E plan :
                /\ \A l \in Lines(q.order) : plan[l] \in Plans(l, Need(l, q.again))
                /\ \A l \in Line, b \in Bin :
                      q.change[l][b] = IF l \in Lines(q.order)
                                       THEN Change(l, b, plan[l][b], q.again) ELSE 0
    /\ q.at \in OnTasks => /\ task[q.task] # NoTask
                           /\ q.order = task[q.task].line[1]
    /\ q.at = "create" =>
          /\ task[q.task] = NoTask
          /\ \A s \in Req : req[s].at = "create" => req[s].task # q.task
          /\ q.row.line[1] = q.order /\ q.row.done = 0
          /\ Reservable(q.row.line[2], q.row.serials, {q.row.line}, {})
    /\ q.at = "complete" =>
          /\ task[q.task].status \in {"OPEN", "IN_PROGRESS"}
          /\ q.next = task[q.task].done + q.qty
          /\ q.serials = {} => task[q.task].serials = {}
          /\ Reservable(task[q.task].line[2], q.serials, {task[q.task].line}, {q.task})
    /\ q.at = "updateTask" =>
          /\ task[q.task].status = "DONE" => q.to = "DONE"
          /\ q.serials # Keep => Reservable(task[q.task].line[2], q.serials, {}, {q.task})

LEMMA Kinded ==
    /\ UpdateReq \subseteq Request /\ OrderReq \subseteq Request /\ WaveReq \subseteq Request
    /\ ReserveReq \subseteq Request /\ CreateReq \subseteq Request
    /\ CompleteReq \subseteq Request /\ UpdateTaskReq \subseteq Request
    /\ TaskReq \subseteq Request /\ AllocateReq \subseteq Request
BY RequestKinds

LEMMA OrderReads ==
    ASSUME TypeOK, NEW r \in Req, NEW o \in Order, OrderRequest(r, o)
    PROVE  \E q : Start(r, q) /\ Checked(r, q)
<1>1. ASSUME NEW to \in OrderStatus, UpdateRead(r, o, to)
      PROVE  \E q : Start(r, q) /\ Checked(r, q)
    <2> DEFINE q == [at |-> "update", order |-> o, to |-> to]
    <2>1. q \in UpdateReq
        BY DEF UpdateReq
    <2>2. q.at = "update" /\ q.order = o /\ q.to = to
        OBVIOUS
    <2>3. Start(r, q) /\ status[o] # "ABSENT" /\ AllowedTransition(status[o], to)
        BY <1>1 DEF UpdateRead
    <2> HIDE DEF q
    <2>4. Checked(r, q)
        BY <2>1, <2>2, <2>3, Kinded DEF Checked, OnTasks
    <2> QED BY <2>3, <2>4
<1>2. ASSUME ReplaceRead(r, o)
      PROVE  \E q : Start(r, q) /\ Checked(r, q)
    <2> DEFINE q == [at |-> "replace", order |-> o]
    <2>1. q \in OrderReq
        BY DEF OrderReq
    <2>2. q.at = "replace" /\ q.order = o
        OBVIOUS
    <2>3. Start(r, q) /\ status[o] # "ABSENT"
        BY <1>2 DEF ReplaceRead
    <2> HIDE DEF q
    <2>4. Checked(r, q)
        BY <2>1, <2>2, <2>3, Kinded DEF Checked, OnTasks
    <2> QED BY <2>3, <2>4
<1>3. ASSUME CancelRead(r, o)
      PROVE  \E q : Start(r, q) /\ Checked(r, q)
    <2> DEFINE q == [at |-> "cancel", order |-> o]
    <2>1. q \in OrderReq
        BY DEF OrderReq
    <2>2. q.at = "cancel" /\ q.order = o
        OBVIOUS
    <2>3. Start(r, q) /\ status[o] # "ABSENT" /\ status[o] # "SHIPPED"
        BY <1>3 DEF CancelRead
    <2> HIDE DEF q
    <2>4. Checked(r, q)
        BY <2>1, <2>2, <2>3, Kinded DEF Checked, OnTasks
    <2> QED BY <2>3, <2>4
<1>4. ASSUME WaveRead(r, o)
      PROVE  \E q : Start(r, q) /\ Checked(r, q)
    <2> DEFINE q == [at |-> "wave", order |-> o, seen |-> status[o]]
    <2>1. Start(r, q) /\ Eligible(o)
        BY <1>4 DEF WaveRead
    <2>2. status[o] \in OrderStatus
        BY <2>1 DEF TypeOK, Eligible
    <2>3. q \in WaveReq
        BY <2>2 DEF WaveReq
    <2>4. q.at = "wave" /\ q.order = o /\ q.seen = status[o]
        OBVIOUS
    <2> HIDE DEF q
    <2>5. Checked(r, q)
        BY <2>1, <2>3, <2>4, Kinded DEF Checked, OnTasks, Eligible
    <2> QED BY <2>1, <2>5
<1>5. ASSUME NEW again \in BOOLEAN, AllocateRead(r, o, again)
      PROVE  \E q : Start(r, q) /\ Checked(r, q)
    <2>1. /\ Eligible(o)
          /\ again => \A s \in Req \ {r} : ~Dropping(s, o)
        BY <1>5, AllocateReads
    <2>2. PICK plan : \E freed \in SUBSET Key, pick \in SUBSET Key, seen \in OrderStatus :
                /\ freed = IF again THEN ReservedOf(o) ELSE {}
                /\ pick \in Picks(o, freed)
                /\ \A l \in Lines(o) : plan[l] \in Plans(l, Need(l, again))
                /\ seen \in {"ALLOCATED", status[o]}
                /\ Planned(o, again, freed, plan, pick, seen) \in AllocateReq
                /\ Start(r, Planned(o, again, freed, plan, pick, seen))
        BY Zenon, <1>5, AllocateReads
    <2>3. PICK freed \in SUBSET Key, pick \in SUBSET Key, seen \in OrderStatus :
                /\ freed = IF again THEN ReservedOf(o) ELSE {}
                /\ pick \in Picks(o, freed)
                /\ \A l \in Lines(o) : plan[l] \in Plans(l, Need(l, again))
                /\ seen \in {"ALLOCATED", status[o]}
                /\ Planned(o, again, freed, plan, pick, seen) \in AllocateReq
                /\ Start(r, Planned(o, again, freed, plan, pick, seen))
        BY Zenon, <2>2
    <2> DEFINE q == Planned(o, again, freed, plan, pick, seen)
    <2>4. /\ q.at = "allocate" /\ q.order = o /\ q.again = again /\ q.freed = freed
          /\ q.pick = pick /\ q.seen = seen
          /\ \A l \in Line, b \in Bin :
                 q.change[l][b] = IF l \in Lines(o) THEN Change(l, b, plan[l][b], again) ELSE 0
        BY PlannedFields
    <2>5. Start(r, q) /\ q \in AllocateReq
        BY <2>3
    <2> HIDE DEF q
    <2>6. status[o] \notin {"ABSENT", "SHIPPED"}
        BY <2>1 DEF Eligible
    <2>7. \E p : /\ \A l \in Lines(q.order) : p[l] \in Plans(l, Need(l, q.again))
                 /\ \A l \in Line, b \in Bin :
                      q.change[l][b] = IF l \in Lines(q.order)
                                       THEN Change(l, b, p[l][b], q.again) ELSE 0
        BY <2>3, <2>4
    <2>8. /\ q.seen \in {"ALLOCATED", status[q.order]}
          /\ q.again => \A s \in Req \ {r} : ~Dropping(s, q.order)
          /\ q.freed = IF q.again THEN ReservedOf(q.order) ELSE {}
          /\ q.pick \in Picks(q.order, q.freed)
        BY <2>1, <2>3, <2>4
    <2>9. q \in Request /\ q.at \notin OnTasks
        BY <2>4, <2>5, Kinded DEF OnTasks
    <2>10. Checked(r, q)
        BY <2>4, <2>6, <2>7, <2>8, <2>9 DEF Checked
    <2> QED BY <2>5, <2>10
<1> QED BY <1>1, <1>2, <1>3, <1>4, <1>5 DEF OrderRequest

LEMMA TaskReads ==
    ASSUME TypeOK, Founded, NEW r \in Req, NEW t \in Task, TaskRequest(r, t)
    PROVE  \E q : Start(r, q) /\ Checked(r, q)
<1>1. ASSUME NEW l \in Line, NEW type \in Type, NEW n \in Qty, NEW serials \in SUBSET Serial,
             CreateRead(r, t, l, type, n, serials)
      PROVE  \E q : Start(r, q) /\ Checked(r, q)
    <2> DEFINE row == [line |-> l, type |-> type, qty |-> n, done |-> 0,
                       serials |-> serials, status |-> "OPEN"]
               q == [at |-> "create", order |-> l[1], task |-> t, gone |-> FALSE, row |-> row]
    <2>1. /\ Start(r, q) /\ Eligible(l[1]) /\ task[t] = NoTask
          /\ \A s \in Req : req[s].at = "create" => req[s].task # t
          /\ Reservable(l[2], serials, {l}, {})
        BY <1>1 DEF CreateRead
    <2>2. row \in TaskRow
        BY DEF TaskRow, LiveStatus
    <2>3. row.line = l /\ row.done = 0 /\ row.serials = serials
        OBVIOUS
    <2> HIDE DEF row
    <2>4. q \in CreateReq
        BY <2>2, LineFields DEF CreateReq
    <2>5. q.at = "create" /\ q.order = l[1] /\ q.task = t /\ q.row = row
        OBVIOUS
    <2> HIDE DEF q
    <2>6. status[q.order] \notin {"ABSENT", "SHIPPED"}
        BY <2>1, <2>5 DEF Eligible
    <2>7. Checked(r, q)
        BY <2>1, <2>3, <2>4, <2>5, <2>6, Kinded DEF Checked, OnTasks
    <2> QED BY <2>1, <2>7
<1>2. ASSUME NEW n \in 1..MaxWorked, NEW serials \in SUBSET Serial,
             CompleteRead(r, t, n, serials)
      PROVE  \E q : Start(r, q) /\ Checked(r, q)
    <2> DEFINE l == task[t].line
               on == IF serials = {} THEN task[t].serials ELSE serials
               q == [at |-> "complete", order |-> l[1], task |-> t, qty |-> n, serials |-> on,
                     next |-> task[t].done + n, all |-> FALSE]
    <2>1. /\ Start(r, q) /\ task[t].status \in {"OPEN", "IN_PROGRESS"}
          /\ Reservable(l[2], on, {l}, {t})
        BY <1>2 DEF CompleteRead
    <2>2. task[t] # NoTask
        BY <2>1, TaskFields
    <2>3. on \in SUBSET Serial /\ l[1] \in Order /\ task[t].done \in Nat /\ n \in Nat
          /\ task[t].done + n \in Nat
        <3>1. n \in Nat
            BY OutboundAssumption
        <3> QED BY <2>2, <3>1, TaskFields
    <2>4. on = {} => task[t].serials = {}
        OBVIOUS
    <2> HIDE DEF on
    <2>5. q \in CompleteReq
        BY <2>3 DEF CompleteReq
    <2>6. /\ q.at = "complete" /\ q.order = l[1] /\ q.task = t /\ q.qty = n /\ q.serials = on
          /\ q.next = task[t].done + n
        OBVIOUS
    <2> HIDE DEF q
    <2>7. status[q.order] # "ABSENT"
        BY <2>2, <2>6 DEF Founded
    <2>8. Checked(r, q)
        BY <2>1, <2>2, <2>4, <2>5, <2>6, <2>7, Kinded DEF Checked, OnTasks
    <2> QED BY <2>1, <2>8
<1>3. ASSUME NEW to \in {Keep, "CANCELLED"} \cup LiveStatus,
             NEW serials \in {Keep} \cup SUBSET Serial, UpdateTaskRead(r, t, to, serials)
      PROVE  \E q : Start(r, q) /\ Checked(r, q)
    <2> DEFINE q == [at |-> "updateTask", order |-> task[t].line[1], task |-> t,
                     to |-> to, serials |-> serials]
    <2>1. /\ Start(r, q) /\ task[t] # NoTask
          /\ task[t].status = "DONE" => to = "DONE"
          /\ serials # Keep => Reservable(task[t].line[2], serials, {}, {t})
        BY <1>3 DEF UpdateTaskRead
    <2>2. task[t].line[1] \in Order
        BY <2>1, TaskFields
    <2>3. q \in UpdateTaskReq
        BY <2>2 DEF UpdateTaskReq
    <2>4. /\ q.at = "updateTask" /\ q.order = task[t].line[1] /\ q.task = t /\ q.to = to
          /\ q.serials = serials
        OBVIOUS
    <2> HIDE DEF q
    <2>5. status[q.order] # "ABSENT"
        BY <2>1, <2>4 DEF Founded
    <2>6. Checked(r, q)
        BY <2>1, <2>3, <2>4, <2>5, Kinded DEF Checked, OnTasks
    <2> QED BY <2>1, <2>6
<1>4. ASSUME CancelTaskRead(r, t)
      PROVE  \E q : Start(r, q) /\ Checked(r, q)
    <2> DEFINE q == [at |-> "cancelTask", order |-> task[t].line[1], task |-> t]
    <2>1. Start(r, q) /\ task[t].status # "ABSENT"
        BY <1>4 DEF CancelTaskRead
    <2>2. task[t] # NoTask
        BY <2>1, TaskFields
    <2>3. task[t].line[1] \in Order
        BY <2>2, TaskFields
    <2>4. q \in TaskReq
        BY <2>3 DEF TaskReq
    <2>5. q.at = "cancelTask" /\ q.order = task[t].line[1] /\ q.task = t
        OBVIOUS
    <2> HIDE DEF q
    <2>6. status[q.order] # "ABSENT"
        BY <2>2, <2>5 DEF Founded
    <2>7. Checked(r, q)
        BY <2>1, <2>2, <2>4, <2>5, <2>6, Kinded DEF Checked, OnTasks
    <2> QED BY <2>1, <2>7
<1> QED BY <1>1, <1>2, <1>3, <1>4 DEF TaskRequest

(* A request whose items have gone is one of its kind still.               *)
LEMMA GoneTyped ==
    ASSUME NEW q \in Request, q.at \in {"reserve", "create", "allocate"},
           NEW f, f = [q EXCEPT !.gone = TRUE]
    PROVE  /\ f \in Request
           /\ q.at = "reserve" =>
                f = [at |-> q.at, order |-> q.order, pick |-> q.pick, gone |-> TRUE]
           /\ q.at = "create" =>
                f = [at |-> q.at, order |-> q.order, task |-> q.task, row |-> q.row, gone |-> TRUE]
           /\ q.at = "allocate" =>
                f = [at |-> q.at, order |-> q.order, again |-> q.again, seen |-> q.seen,
                     change |-> q.change, freed |-> q.freed, pick |-> q.pick, gone |-> TRUE]
<1>1. ASSUME q.at = "reserve"
      PROVE  /\ f \in Request
             /\ f = [at |-> q.at, order |-> q.order, pick |-> q.pick, gone |-> TRUE]
    <2>1. q \in ReserveReq
        BY <1>1, Kinds
    <2>2. f = [at |-> q.at, order |-> q.order, pick |-> q.pick, gone |-> TRUE]
        BY <2>1 DEF ReserveReq
    <2>3. f \in ReserveReq
        BY <2>1, <2>2 DEF ReserveReq
    <2> QED BY <2>2, <2>3, Kinded
<1>2. ASSUME q.at = "create"
      PROVE  /\ f \in Request
             /\ f = [at |-> q.at, order |-> q.order, task |-> q.task, row |-> q.row,
                     gone |-> TRUE]
    <2>1. q \in CreateReq
        BY <1>2, Kinds
    <2>2. f = [at |-> q.at, order |-> q.order, task |-> q.task, row |-> q.row, gone |-> TRUE]
        BY <2>1 DEF CreateReq
    <2>3. f \in CreateReq
        BY <2>1, <2>2 DEF CreateReq
    <2> QED BY <2>2, <2>3, Kinded
<1>3. ASSUME q.at = "allocate"
      PROVE  /\ f \in Request
             /\ f = [at |-> q.at, order |-> q.order, again |-> q.again, seen |-> q.seen,
                     change |-> q.change, freed |-> q.freed, pick |-> q.pick, gone |-> TRUE]
    <2>1. q \in AllocateReq
        BY <1>3, Kinds
    <2>2. f = [at |-> q.at, order |-> q.order, again |-> q.again, seen |-> q.seen,
               change |-> q.change, freed |-> q.freed, pick |-> q.pick, gone |-> TRUE]
        BY <2>1 DEF AllocateReq
    <2>3. f \in AllocateReq
        BY <2>1, <2>2 DEF AllocateReq
    <2> QED BY <2>2, <2>3, Kinded
<1> QED BY <1>1, <1>2, <1>3

LEMMA ReqAt ==
    ASSUME TypeOK, NEW r \in Req
    PROVE  /\ req[r] \in Request \cup {Idle}
           /\ req[r] # Idle => req[r] \in Request /\ req[r].order \in Order /\ req[r].at # "idle"
           /\ req[r].at # "idle" => req[r] # Idle
           /\ Idle.at = "idle"
           /\ req[r].at \in OnTasks => req[r].task \in Task
<1>1. req[r] \in Request \cup {Idle}
    BY DEF TypeOK
<1>2. req[r].at \in OnTasks => req[r].task \in Task
    BY <1>1, Kinds DEF CompleteReq, UpdateTaskReq, TaskReq, OnTasks
<1> QED BY <1>1, <1>2, Kinds, KindAt, OrderOf

(* The record a completion, and a cancellation, goes on with.              *)
LEMMA ShipRecord ==
    ASSUME TypeOK, NEW r \in Req, CompleteWrite(r)
    PROVE  /\ req[r] \in CompleteReq /\ req'[r] \in CompleteReq
           /\ req'[r] = [at |-> "ship", order |-> req[r].order, task |-> req[r].task,
                         qty |-> req[r].qty, serials |-> req[r].serials, next |-> req[r].next,
                         all |-> AllShipped(task[req[r].task].line, task[req[r].task].type,
                                            req[r].qty)]
           /\ \A s \in Req \ {r} : req'[s] = req[s]
<1> DEFINE all == AllShipped(task[req[r].task].line, task[req[r].task].type, req[r].qty)
<1>1. req' = [req EXCEPT ![r].at = "ship", ![r].all = all]
    BY DEF CompleteWrite
<1>2. all \in BOOLEAN
    BY DEF AllShipped
<1>3. req[r].at = "complete"
    BY DEF CompleteWrite
<1>4. req[r] \in CompleteReq
    BY <1>3, ReqAt, Kinds
<1> HIDE DEF all
<1>5. req'[r] = [at |-> "ship", order |-> req[r].order, task |-> req[r].task,
                 qty |-> req[r].qty, serials |-> req[r].serials, next |-> req[r].next, all |-> all]
    BY <1>1, <1>4 DEF CompleteReq, TypeOK
<1>6. req'[r] \in CompleteReq
    BY <1>2, <1>4, <1>5 DEF CompleteReq
<1>7. \A s \in Req \ {r} : req'[s] = req[s]
    BY <1>1 DEF TypeOK
<1> QED BY <1>4, <1>5, <1>6, <1>7 DEF all

LEMMA CancelRecord ==
    ASSUME TypeOK, NEW r \in Req, CancelTasks(r) \/ CancelOrder(r)
    PROVE  /\ req' \in [Req -> Request \cup {Idle}]
           /\ req[r] # Idle /\ req[r].order \in Order
           /\ \A s \in Req \ {r} : req'[s] = req[s]
           /\ \/ req'[r] = Idle
              \/ /\ req[r].at = "cancel" /\ req'[r].order = req[r].order
                 /\ req'[r].at \in {"cancelTasks", "cancelOrder"}
<1>1. req[r].order \in Order /\ req[r] # Idle
    BY ReqAt DEF CancelTasks, CancelOrder
<1>2. PICK other \in {"cancelTasks", "cancelOrder"} : Then(r, other)
    BY DEF CancelTasks, CancelOrder
<1>3. CASE Finish(r)
    BY <1>1, <1>3, Finishes, FinishTyped
<1>4. CASE /\ req[r].at = "cancel"
           /\ Continue(r, [at |-> other, order |-> req[r].order])
    <2>1. PICK q : q = [at |-> other, order |-> req[r].order]
        OBVIOUS
    <2>2. q \in Request /\ q.at = other /\ q.order = req[r].order
        BY <1>1, <2>1, Kinded DEF OrderReq
    <2>3. Continue(r, q)
        BY <1>4, <2>1
    <2> QED BY <1>1, <1>4, <2>2, <2>3, Continues, ContinueTyped
<1> QED BY <1>2, <1>3, <1>4 DEF Then

LEMMA ReleaseRecord ==
    ASSUME TypeOK, NEW r \in Req, CancelTask(r)
    PROVE  /\ req[r] \in TaskReq /\ req'[r] \in TaskReq
           /\ req'[r] = [at |-> "release", order |-> req[r].order, task |-> req[r].task]
           /\ \A s \in Req \ {r} : req'[s] = req[s]
<1>1. req' = [req EXCEPT ![r].at = "release"] /\ req[r].at = "cancelTask"
    BY DEF CancelTask
<1>2. req[r] \in TaskReq
    BY <1>1, ReqAt, Kinds
<1>3. req'[r] = [at |-> "release", order |-> req[r].order, task |-> req[r].task]
    BY <1>1, <1>2 DEF TaskReq, TypeOK
<1>4. req'[r] \in TaskReq
    BY <1>2, <1>3 DEF TaskReq
<1> QED BY <1>1, <1>2, <1>3, <1>4 DEF TypeOK

(* A request that others' items are replaced under.                        *)
LEMMA ReplaceRecords ==
    ASSUME TypeOK, NEW r \in Req, ReplaceWrite(r)
    PROVE  /\ req[r].at = "replace" /\ req[r].order \in Order /\ req'[r] = Idle
           /\ req' \in [Req -> Request \cup {Idle}]
           /\ \A s \in Req \ {r} :
                 \/ ~Losing(s, req[r].order) /\ req'[s] = req[s]
                 \/ /\ Losing(s, req[r].order) /\ req[s] \in Request
                    /\ req'[s] = [req[s] EXCEPT !.gone = TRUE]
<1>1. req[r].at = "replace" /\ req[r].order \in Order
    BY ReqAt DEF ReplaceWrite
<1>2. req' = [s \in Req |-> IF s = r THEN Idle
                            ELSE IF Losing(s, req[r].order) THEN [req[s] EXCEPT !.gone = TRUE]
                            ELSE req[s]]
    BY DEF ReplaceWrite
<1>3. ASSUME NEW s \in Req, Losing(s, req[r].order)
      PROVE  req[s] \in Request /\ [req[s] EXCEPT !.gone = TRUE] \in Request
    <2>1. req[s].at \in {"reserve", "create", "allocate"}
        BY <1>3 DEF Losing
    <2>2. req[s] \in Request
        BY <2>1, ReqAt
    <2> QED BY <2>1, <2>2, GoneTyped
<1>4. \A s \in Req : req[s] \in Request \cup {Idle}
    BY DEF TypeOK
<1> QED BY <1>1, <1>2, <1>3, <1>4

(* The writes of a request keep the types.                                 *)
LEMMA OrderWritesTyped ==
    ASSUME TypeOK, Sound, NEW r \in Req,
           UpdateWrite(r) \/ ReplaceWrite(r) \/ CancelTasks(r) \/ CancelOrder(r)
               \/ WaveStatus(r) \/ WaveReserve(r) \/ AllocateCommit(r)
    PROVE  TypeOK'
<1>1. ASSUME UpdateWrite(r) PROVE TypeOK'
    <2>1. req[r] \in UpdateReq
        BY <1>1, ReqAt, Kinds DEF UpdateWrite
    <2>2. status' \in [Order -> OrderStatus \cup {"ABSENT"}]
        BY <1>1, <2>1 DEF UpdateReq, UpdateWrite, TypeOK
    <2>3. req' \in [Req -> Request \cup {Idle}]
        BY <1>1, FinishTyped DEF UpdateWrite
    <2> QED BY <1>1, <2>2, <2>3 DEF UpdateWrite, TypeOK
<1>2. ASSUME ReplaceWrite(r) PROVE TypeOK'
    <2>1. req' \in [Req -> Request \cup {Idle}] /\ req[r].order \in Order
        BY <1>2, ReplaceRecords
    <2>2. HasItems(req[r].order)
        BY <1>2 DEF ReplaceWrite
    <2>3. line' \in [Line -> [ordered : Ordered \cup {0}, worked : [Type -> Nat]]]
        BY <2>1, <2>2, HasItemsMeans
    <2> QED BY <1>2, <2>1, <2>3 DEF ReplaceWrite, TypeOK
<1>3. ASSUME CancelTasks(r) PROVE TypeOK'
    <2> DEFINE open == {t \in TasksOf(req[r].order) : task[t].status \in {"OPEN", "IN_PROGRESS"}}
    <2>1. task' = [t \in Task |-> IF t \in open THEN [task[t] EXCEPT !.status = "CANCELLED"]
                                  ELSE task[t]]
        BY <1>3 DEF CancelTasks
    <2>2. ASSUME NEW t \in Task, t \in open
          PROVE  [task[t] EXCEPT !.status = "CANCELLED"] \in TaskRow
        <3>1. task[t] \in TaskRow
            BY <2>2, TaskFields DEF TasksOf
        <3> QED BY <3>1 DEF TaskRow
    <2>3. \A t \in Task : task[t] \in TaskRow \cup {NoTask}
        BY DEF TypeOK
    <2> HIDE DEF open
    <2>4. task' \in [Task -> TaskRow \cup {NoTask}]
        BY <2>1, <2>2, <2>3
    <2>5. req' \in [Req -> Request \cup {Idle}]
        BY <1>3, CancelRecord
    <2> QED BY <1>3, <2>4, <2>5 DEF CancelTasks, TypeOK
<1>4. ASSUME CancelOrder(r) PROVE TypeOK'
    <2>1. status' \in [Order -> OrderStatus \cup {"ABSENT"}]
        BY <1>4 DEF CancelOrder, TypeOK, OrderStatus
    <2>2. req' \in [Req -> Request \cup {Idle}]
        BY <1>4, CancelRecord
    <2> QED BY <1>4, <2>1, <2>2 DEF CancelOrder, TypeOK
<1>5. ASSUME WaveStatus(r) PROVE TypeOK'
    <2>1. req[r] \in WaveReq
        BY <1>5, ReqAt, Kinds DEF WaveStatus
    <2>2. (IF req[r].seen = "RELEASED" THEN "ALLOCATED" ELSE req[r].seen) \in OrderStatus
        BY <2>1 DEF WaveReq, OrderStatus
    <2>3. status' \in [Order -> OrderStatus \cup {"ABSENT"}]
        BY <1>5, <2>2 DEF WaveStatus, TypeOK
    <2>4. PICK pick \in Picks(req[r].order, {}) :
              Continue(r, [at |-> "reserve", order |-> req[r].order, pick |-> pick,
                           gone |-> FALSE])
        BY <1>5 DEF WaveStatus
    <2>5. [at |-> "reserve", order |-> req[r].order, pick |-> pick, gone |-> FALSE] \in Request
        <3>1. pick \in SUBSET Key
            BY <2>4 DEF Picks
        <3>2. req[r].order \in Order
            BY <2>1 DEF WaveReq
        <3> QED BY <3>1, <3>2, Kinded DEF ReserveReq
    <2>6. req' \in [Req -> Request \cup {Idle}]
        BY <2>4, <2>5, ContinueTyped
    <2> QED BY <1>5, <2>3, <2>6 DEF WaveStatus, TypeOK
<1>6. ASSUME WaveReserve(r) PROVE TypeOK'
    <2>1. req[r].order \in Order
        BY <1>6, ReqAt DEF WaveReserve
    <2>2. resv' \in [Key -> [ReservationStatus -> Reservation \cup {NoRow}]]
        <3>1. resv' = Reserved(resv, req[r].order, req[r].pick)
            BY <1>6 DEF WaveReserve
        <3>2. resv \in [Key -> [ReservationStatus -> Reservation \cup {NoRow}]]
            BY DEF TypeOK
        <3> QED BY <2>1, <3>1, <3>2, ReservedTyped
    <2>3. req' \in [Req -> Request \cup {Idle}]
        BY <1>6, FinishTyped DEF WaveReserve
    <2> QED BY <1>6, <2>2, <2>3 DEF WaveReserve, TypeOK
<1>7. ASSUME AllocateCommit(r) PROVE TypeOK'
    <2>1. req[r].at = "allocate" /\ req[r] \in AllocateReq
        BY <1>7, ReqAt, Kinds DEF AllocateCommit
    <2>2. HasFreed(r) /\ HasAlloc(r)
        BY SoundAt
    <2>3. req[r].freed \in SUBSET Key /\ req[r].change \in [Line -> [Bin -> Int]]
          /\ req[r].order \in Order /\ req[r].seen \in OrderStatus
        BY <2>1 DEF AllocateReq
    <2>4. alloc' \in [Line -> [Bin -> Nat]]
        <3>1. alloc' = [l \in Line |-> [b \in Bin |-> alloc[l][b] + req[r].change[l][b]]]
            BY <1>7 DEF AllocateCommit
        <3>2. ASSUME NEW l \in Line, NEW b \in Bin
              PROVE  alloc[l][b] + req[r].change[l][b] \in Nat
            <4>1. alloc[l][b] \in Nat /\ req[r].change[l][b] \in Int
                BY <2>3, AllocTyped
            <4>2. alloc[l][b] + req[r].change[l][b] >= 0
                BY <2>1, <2>2 DEF HasAlloc, Allocates
            <4> QED BY <4>1, <4>2
        <3> QED BY <3>1, <3>2
    <2>5. status' \in [Order -> OrderStatus \cup {"ABSENT"}]
        BY <1>7, <2>3 DEF AllocateCommit, TypeOK
    <2>6. \A k \in req[r].freed : Active(k) # NoRow
        BY <1>7, <2>1, <2>2 DEF AllocateCommit, Movable, HasFreed, Allocates
    <2>7. Released(req[r].freed) \in [Key -> [ReservationStatus -> Reservation \cup {NoRow}]]
        BY <2>3, <2>6, ReleasedTyped
    <2>8. resv' \in [Key -> [ReservationStatus -> Reservation \cup {NoRow}]]
        <3>1. PICK pick : resv' = Reserved(Released(req[r].freed), req[r].order, pick)
            BY <1>7 DEF AllocateCommit
        <3> QED BY <2>3, <2>7, <3>1, ReservedTyped
    <2>9. req' \in [Req -> Request \cup {Idle}]
        BY <1>7, FinishTyped DEF AllocateCommit
    <2> QED BY <1>7, <2>4, <2>5, <2>8, <2>9 DEF AllocateCommit, TypeOK
<1> QED BY <1>1, <1>2, <1>3, <1>4, <1>5, <1>6, <1>7

LEMMA TaskWritesTyped ==
    ASSUME TypeOK, Sound, NEW r \in Req,
           CreateCommit(r) \/ CompleteWrite(r) \/ CompleteCommit(r)
               \/ UpdateTaskWrite(r) \/ CancelTask(r) \/ ReleaseReservations(r)
    PROVE  TypeOK'
<1>0. HasTask(r) /\ HasRow(r)
    BY SoundAt
<1>1. ASSUME CreateCommit(r) PROVE TypeOK'
    <2>1. req[r] \in CreateReq
        BY <1>1, ReqAt, Kinds DEF CreateCommit
    <2> DEFINE row == req[r].row
               t == req[r].task
               keys == {k \in {row.line[2]} \X row.serials : ReservedFor(k, row.line)}
    <2>2. row \in TaskRow /\ t \in Task /\ req[r].order \in Order /\ row.line \in Line
          /\ row.type \in Type
        BY <2>1 DEF CreateReq, TaskRow
    <2>3. task' \in [Task -> TaskRow \cup {NoTask}]
        BY <1>1, <2>2 DEF CreateCommit, TypeOK
    <2>4. status' \in [Order -> OrderStatus \cup {"ABSENT"}]
        BY <1>1, <2>2, OutboundAssumption DEF CreateCommit, TypeOK, StatusFromTaskType, OrderStatus
    <2>5. resv' = [k \in Key |-> IF k \in keys
                       THEN [resv[k] EXCEPT !["ACTIVE"].task = t] ELSE resv[k]]
        BY <1>1 DEF CreateCommit
    <2>6. ASSUME NEW k \in Key, k \in keys
          PROVE  [resv[k] EXCEPT !["ACTIVE"].task = t]
                     \in [ReservationStatus -> Reservation \cup {NoRow}]
        <3>1. Active(k) \in Reservation
            BY <2>6, ActiveTyped DEF ReservedFor
        <3>2. [resv[k]["ACTIVE"] EXCEPT !.task = t] \in Reservation
            BY <2>2, <3>1 DEF Reservation, Active
        <3>3. resv[k] \in [ReservationStatus -> Reservation \cup {NoRow}]
            BY DEF TypeOK
        <3> HIDE DEF t
        <3> QED BY <3>2, <3>3
    <2>7. \A k \in Key : resv[k] \in [ReservationStatus -> Reservation \cup {NoRow}]
        BY DEF TypeOK
    <2> HIDE DEF keys, t
    <2>8. resv' \in [Key -> [ReservationStatus -> Reservation \cup {NoRow}]]
        BY <2>5, <2>6, <2>7
    <2>9. req' \in [Req -> Request \cup {Idle}]
        BY <1>1, FinishTyped DEF CreateCommit
    <2> QED BY <1>1, <2>3, <2>4, <2>8, <2>9 DEF CreateCommit, TypeOK
<1>2. ASSUME CompleteWrite(r) PROVE TypeOK'
    <2>1. \A s \in Req : req'[s] \in Request \cup {Idle}
        BY <1>2, ShipRecord, ReqAt, Kinded
    <2>2. req' \in [Req -> Request \cup {Idle}]
        BY <1>2, <2>1 DEF CompleteWrite, TypeOK
    <2> QED BY <1>2, <2>2 DEF CompleteWrite, TypeOK
<1>3. ASSUME CompleteCommit(r) PROVE TypeOK'
    <2> DEFINE t == req[r].task
               l == task[t].line
               q == req[r].qty
               done == req[r].next = task[t].qty
               keys == {k \in {l[2]} \X req[r].serials : ReservedFor(k, l)}
    <2>1. req[r].at = "ship" /\ req[r] \in CompleteReq
        BY <1>3, ReqAt, Kinds DEF CompleteCommit
    <2>2. t \in Task /\ q \in Nat /\ req[r].serials \in SUBSET Serial /\ req[r].next \in Nat
        BY <2>1 DEF CompleteReq
    <2>3. task[t] # NoTask
        BY <1>0, <2>1 DEF HasTask, OnTasks
    <2>4. task[t] \in TaskRow /\ l \in Line /\ task[t].type \in Type /\ l[1] \in Order
          /\ l[2] \in Product
        BY <2>2, <2>3, TaskFields
    <2>5. task' \in [Task -> TaskRow \cup {NoTask}]
        <3> DEFINE ser == IF req[r].serials = {} THEN task[t].serials ELSE req[r].serials
                   st == IF done THEN "DONE" ELSE "IN_PROGRESS"
                   row == [task[t] EXCEPT !.done = req[r].next, !.serials = ser, !.status = st]
        <3>1. task' = [task EXCEPT ![t] = row]
            BY <1>3, <2>2 DEF CompleteCommit, TypeOK
        <3>2. ser \in SUBSET Serial
            BY <2>2, <2>4 DEF TaskRow
        <3>3. st \in LiveStatus
            BY DEF LiveStatus
        <3> HIDE DEF ser, st
        <3>4. row \in TaskRow
            BY <2>2, <2>4, <3>2, <3>3 DEF TaskRow
        <3> HIDE DEF row
        <3> QED BY <3>1, <3>4 DEF TypeOK
    <2>6. resv' \in [Key -> [ReservationStatus -> Reservation \cup {NoRow}]]
        <3> DEFINE rows == [k \in keys |-> [line |-> l, task |-> t]]
                   to == IF done THEN "CONSUMED" ELSE "ACTIVE"
        <3>1. keys \in SUBSET Key
            BY <2>2, <2>4 DEF Key
        <3>2. to \in ReservationStatus
            BY DEF ReservationStatus
        <3>3. \A k \in keys : rows[k] \in Reservation \cup {NoRow}
            BY <2>2, <2>4 DEF Reservation
        <3>4. resv' = Moved(keys, to, rows)
            BY <1>3 DEF CompleteCommit
        <3> HIDE DEF rows, to, keys
        <3> QED BY <3>1, <3>2, <3>3, <3>4, MovedTyped
    <2>7. line' \in [Line -> [ordered : Ordered \cup {0}, worked : [Type -> Nat]]]
        <3> DEFINE n == line[l].worked[task[t].type] + q
        <3>1. n \in Nat
            BY <2>2, <2>4, LineFields
        <3>2. line' = [line EXCEPT ![l].worked[task[t].type] = n]
            BY <1>3 DEF CompleteCommit, Counted
        <3> HIDE DEF n
        <3>3. ASSUME NEW m \in Line
              PROVE  line'[m] \in [ordered : Ordered \cup {0}, worked : [Type -> Nat]]
            <4>1. line[m] \in [ordered : Ordered \cup {0}, worked : [Type -> Nat]]
                BY DEF TypeOK
            <4>2. CASE m # l
                BY <3>2, <4>1, <4>2 DEF TypeOK
            <4>3. CASE m = l
                <5>1. line'[m] = [line[m] EXCEPT !.worked[task[t].type] = n]
                    BY <3>2, <4>3, <2>4 DEF TypeOK
                <5>2. [line[m].worked EXCEPT ![task[t].type] = n] \in [Type -> Nat]
                    BY <3>1, <4>1
                <5> QED BY <4>1, <5>1, <5>2
            <4> QED BY <4>2, <4>3
        <3> QED BY <3>2, <3>3 DEF TypeOK
    <2>8. status' \in [Order -> OrderStatus \cup {"ABSENT"}]
        <3>1. StatusFromTaskType(task[t].type) \in OrderStatus
            BY <2>4, OutboundAssumption DEF StatusFromTaskType, OrderStatus
        <3>2. "SHIPPED" \in OrderStatus
            BY DEF OrderStatus
        <3> QED BY <1>3, <3>1, <3>2 DEF CompleteCommit, TypeOK
    <2>9. billed' \in [Task -> Nat]
        <3>1. billed[t] + BilledPart(t, q, done) \in Nat
            BY <2>2 DEF BilledPart, TypeOK
        <3> QED BY <1>3, <3>1 DEF CompleteCommit, TypeOK
    <2>10. req' \in [Req -> Request \cup {Idle}]
        BY <1>3, FinishTyped DEF CompleteCommit
    <2> QED BY <1>3, <2>5, <2>6, <2>7, <2>8, <2>9, <2>10 DEF CompleteCommit, TypeOK
<1>4. ASSUME UpdateTaskWrite(r) PROVE TypeOK'
    <2> DEFINE t == req[r].task
    <2>1. req[r].at = "updateTask" /\ req[r] \in UpdateTaskReq
        BY <1>4, ReqAt, Kinds DEF UpdateTaskWrite
    <2>2. t \in Task
        BY <2>1 DEF UpdateTaskReq
    <2>3. task[t] # NoTask
        BY <1>0, <2>1 DEF HasTask, OnTasks
    <2>4. task[t] \in TaskRow
        BY <2>2, <2>3, TaskFields
    <2>5. task' \in [Task -> TaskRow \cup {NoTask}]
        <3> DEFINE ser == IF req[r].serials = Keep THEN task[t].serials ELSE req[r].serials
                   st == IF req[r].to = Keep THEN task[t].status ELSE req[r].to
                   row == [task[t] EXCEPT !.status = st, !.serials = ser]
        <3>1. task' = [task EXCEPT ![t] = row]
            BY <1>4, <2>2 DEF UpdateTaskWrite, TypeOK
        <3>2. ser \in SUBSET Serial
            BY <2>1, <2>4 DEF TaskRow, UpdateTaskReq
        <3>3. st \in LiveStatus \cup {"CANCELLED"}
            BY <2>1, <2>4 DEF TaskRow, UpdateTaskReq
        <3> HIDE DEF ser, st
        <3>4. row \in TaskRow
            BY <2>4, <3>2, <3>3 DEF TaskRow
        <3> HIDE DEF row
        <3> QED BY <3>1, <3>4 DEF TypeOK
    <2>6. raced' \subseteq Order \cup Task \cup Line \cup Key
        <3>1. SerialsOf(t) \subseteq Key
            BY <2>2, <2>3, TaskFields DEF SerialsOf, Key
        <3> QED BY <1>4, <3>1 DEF UpdateTaskWrite, TypeOK
    <2>7. req' \in [Req -> Request \cup {Idle}]
        BY <1>4, FinishTyped DEF UpdateTaskWrite
    <2> QED BY <1>4, <2>5, <2>6, <2>7 DEF UpdateTaskWrite, TypeOK
<1>5. ASSUME CancelTask(r) PROVE TypeOK'
    <2> DEFINE t == req[r].task
    <2>1. req[r] \in TaskReq /\ req'[r] \in TaskReq /\ \A s \in Req \ {r} : req'[s] = req[s]
        BY <1>5, ReleaseRecord
    <2>2. req' \in [Req -> Request \cup {Idle}]
        <3>1. \A s \in Req : req'[s] \in Request \cup {Idle}
            BY <2>1, Kinded, ReqAt
        <3> QED BY <1>5, <3>1 DEF CancelTask, TypeOK
    <2>3. t \in Task /\ task[t] # NoTask
        BY <1>0, <1>5, <2>1 DEF TaskReq, HasTask, OnTasks, CancelTask
    <2>4. task[t] \in TaskRow
        BY <2>3, TaskFields
    <2>5. [task[t] EXCEPT !.status = "CANCELLED"] \in TaskRow
        BY <2>4 DEF TaskRow
    <2>6. task' = [task EXCEPT ![t] = [task[t] EXCEPT !.status = "CANCELLED"]]
        BY <1>5, <2>3 DEF CancelTask, TypeOK
    <2>7. task' \in [Task -> TaskRow \cup {NoTask}]
        BY <2>5, <2>6 DEF TypeOK
    <2> QED BY <1>5, <2>2, <2>7 DEF CancelTask, TypeOK
<1>6. ASSUME ReleaseReservations(r) PROVE TypeOK'
    <2> DEFINE keys == {k \in Key : Active(k) # NoRow /\ Active(k).task = req[r].task}
    <2>1. keys \in SUBSET Key /\ \A k \in keys : Active(k) # NoRow
        OBVIOUS
    <2>2. resv' = Released(keys)
        BY <1>6 DEF ReleaseReservations
    <2> HIDE DEF keys
    <2>3. resv' \in [Key -> [ReservationStatus -> Reservation \cup {NoRow}]]
        BY <2>1, <2>2, ReleasedTyped
    <2>4. req' \in [Req -> Request \cup {Idle}]
        BY <1>6, FinishTyped DEF ReleaseReservations
    <2> QED BY <1>6, <2>3, <2>4 DEF ReleaseReservations, TypeOK
<1> QED BY <1>1, <1>2, <1>3, <1>4, <1>5, <1>6

LEMMA TypeStep ==
    ASSUME TypeOK, Sound, [Next]_vars
    PROVE  TypeOK'
<1>1. ASSUME NEW o \in Order, CreateSalesOrder(o) PROVE TypeOK'
    <2>1. line' \in [Line -> [ordered : Ordered \cup {0}, worked : [Type -> Nat]]]
        BY <1>1, HasItemsMeans DEF CreateSalesOrder
    <2>2. status' \in [Order -> OrderStatus \cup {"ABSENT"}]
        BY <1>1 DEF CreateSalesOrder, TypeOK, OrderStatus
    <2> QED BY <1>1, <2>1, <2>2 DEF CreateSalesOrder, TypeOK
<1>2. ASSUME NEW r \in Req, NEW q, Start(r, q), Checked(r, q) PROVE TypeOK'
    BY <1>2, StartTyped DEF Checked
<1>3. ASSUME NEW r \in Req, Writes(r) PROVE TypeOK'
    BY <1>3, OrderWritesTyped, TaskWritesTyped DEF Writes
<1>4. ASSUME NEW r \in Req, Fail(r) PROVE TypeOK'
    BY <1>4, FinishTyped DEF Fail, TypeOK
<1>5. ASSUME UNCHANGED vars PROVE TypeOK'
    BY <1>5 DEF vars, TypeOK
<1> QED BY <1>1, <1>2, <1>3, <1>4, <1>5, OrderReads, TaskReads DEF Next, Sound

-----------------------------------------------------------------------------
(* What each write does to the tasks.  A task stays what it is a task of.  *)
SameTask(t) ==
    /\ task[t] # NoTask /\ task'[t] # NoTask /\ task'[t].line = task[t].line
    /\ task'[t].type = task[t].type /\ task'[t].qty = task[t].qty

LEMMA NoTaskIsNone == NoTask \notin TaskRow
BY DEF NoTask, TaskRow, LiveStatus

LEMMA CancelsTasks ==
    ASSUME TypeOK, NEW r \in Req, CancelTasks(r), NEW t \in Task
    PROVE  \/ task'[t] = task[t]
           \/ /\ SameTask(t) /\ task'[t].done = task[t].done /\ task'[t].serials = task[t].serials
              /\ task[t].status \in {"OPEN", "IN_PROGRESS"} /\ task'[t].status = "CANCELLED"
              /\ task[t].line[1] = req[r].order
<1> DEFINE open == {u \in TasksOf(req[r].order) : task[u].status \in {"OPEN", "IN_PROGRESS"}}
<1>1. task' = [u \in Task |-> IF u \in open THEN [task[u] EXCEPT !.status = "CANCELLED"]
                              ELSE task[u]]
    BY DEF CancelTasks
<1>2. ASSUME t \in open
      PROVE  /\ task[t] \in TaskRow /\ task[t] # NoTask /\ task[t].line[1] = req[r].order
             /\ task[t].status \in {"OPEN", "IN_PROGRESS"}
    BY <1>2, TaskFields DEF TasksOf
<1> HIDE DEF open
<1>3. CASE t \notin open
    BY <1>1, <1>3
<1>4. CASE t \in open
    <2>1. task'[t] = [task[t] EXCEPT !.status = "CANCELLED"]
        BY <1>1, <1>4
    <2>2. PICK f : f = task'[t]
        OBVIOUS
    <2>3. /\ f \in TaskRow /\ f.line = task[t].line /\ f.type = task[t].type
          /\ f.qty = task[t].qty /\ f.done = task[t].done /\ f.serials = task[t].serials
          /\ f.status = "CANCELLED"
        BY <1>2, <1>4, <2>1, <2>2 DEF TaskRow
    <2> QED BY <1>2, <1>4, <2>2, <2>3, NoTaskIsNone DEF SameTask
<1> QED BY <1>3, <1>4

LEMMA CreatesTask ==
    ASSUME TypeOK, NEW r \in Req, CreateCommit(r)
    PROVE  /\ req[r].at = "create" /\ req[r].task \in Task /\ req[r].row \in TaskRow
           /\ req[r].order \in Order /\ req[r].row.line \in Line
           /\ task'[req[r].task] = req[r].row
           /\ \A t \in Task \ {req[r].task} : task'[t] = task[t]
<1>1. req[r].at = "create" /\ req[r] \in CreateReq
    BY ReqAt, Kinds DEF CreateCommit
<1>2. task' = [task EXCEPT ![req[r].task] = req[r].row]
    BY DEF CreateCommit
<1>3. req[r].task \in Task /\ req[r].row \in TaskRow /\ req[r].order \in Order
    BY <1>1 DEF CreateReq
<1>4. req[r].row.line \in Line
    BY <1>3 DEF TaskRow
<1> QED BY <1>1, <1>2, <1>3, <1>4 DEF TypeOK

LEMMA CompletesTask ==
    ASSUME TypeOK, NEW r \in Req, HasTask(r), CompleteCommit(r)
    PROVE  LET t == req[r].task
               done == req[r].next = task[t].qty
           IN  /\ req[r].at = "ship" /\ t \in Task /\ SameTask(t) /\ req[r] \in CompleteReq
               /\ task'[t].done = req[r].next
               /\ task'[t].serials = IF req[r].serials = {} THEN task[t].serials
                                     ELSE req[r].serials
               /\ task'[t].status = IF done THEN "DONE" ELSE "IN_PROGRESS"
               /\ \A u \in Task \ {t} : task'[u] = task[u]
<1> DEFINE t == req[r].task
           done == req[r].next = task[t].qty
           ser == IF req[r].serials = {} THEN task[t].serials ELSE req[r].serials
           st == IF done THEN "DONE" ELSE "IN_PROGRESS"
           row == [task[t] EXCEPT !.done = req[r].next, !.serials = ser, !.status = st]
<1>1. req[r].at = "ship" /\ req[r] \in CompleteReq
    BY ReqAt, Kinds DEF CompleteCommit
<1>2. t \in Task /\ req[r].serials \in SUBSET Serial /\ req[r].next \in Nat
    BY <1>1 DEF CompleteReq
<1>3. task[t] # NoTask /\ task[t] \in TaskRow
    BY <1>1, <1>2, TaskFields DEF HasTask, OnTasks
<1>4. task' = [task EXCEPT ![t] = row]
    BY <1>2 DEF CompleteCommit, TypeOK
<1>5. ser \in SUBSET Serial
    BY <1>2, <1>3 DEF TaskRow
<1>6. st \in LiveStatus
    BY DEF LiveStatus
<1>7. ser = (IF req[r].serials = {} THEN task[t].serials ELSE req[r].serials)
      /\ st = (IF done THEN "DONE" ELSE "IN_PROGRESS")
    OBVIOUS
<1> HIDE DEF ser, st
<1>8. PICK f : f = row
    OBVIOUS
<1>9. /\ f \in TaskRow /\ f.line = task[t].line /\ f.type = task[t].type
      /\ f.qty = task[t].qty /\ f.done = req[r].next /\ f.serials = ser /\ f.status = st
    BY <1>2, <1>3, <1>5, <1>6, <1>8 DEF TaskRow
<1> HIDE DEF row
<1>10. task'[t] = f /\ \A u \in Task \ {t} : task'[u] = task[u]
    BY <1>2, <1>4, <1>8 DEF TypeOK
<1> QED BY <1>1, <1>2, <1>3, <1>7, <1>9, <1>10, NoTaskIsNone DEF SameTask

LEMMA UpdatesTask ==
    ASSUME TypeOK, NEW r \in Req, HasTask(r), UpdateTaskWrite(r)
    PROVE  LET t == req[r].task
           IN  /\ req[r].at = "updateTask" /\ t \in Task /\ SameTask(t) /\ req[r] \in UpdateTaskReq
               /\ task'[t].done = task[t].done
               /\ task'[t].serials = IF req[r].serials = Keep THEN task[t].serials
                                     ELSE req[r].serials
               /\ task'[t].status = IF req[r].to = Keep THEN task[t].status ELSE req[r].to
               /\ \A u \in Task \ {t} : task'[u] = task[u]
<1> DEFINE t == req[r].task
           ser == IF req[r].serials = Keep THEN task[t].serials ELSE req[r].serials
           st == IF req[r].to = Keep THEN task[t].status ELSE req[r].to
           row == [task[t] EXCEPT !.status = st, !.serials = ser]
<1>1. req[r].at = "updateTask" /\ req[r] \in UpdateTaskReq
    BY ReqAt, Kinds DEF UpdateTaskWrite
<1>2. t \in Task
    BY <1>1 DEF UpdateTaskReq
<1>3. task[t] # NoTask /\ task[t] \in TaskRow
    BY <1>1, <1>2, TaskFields DEF HasTask, OnTasks
<1>4. task' = [task EXCEPT ![t] = row]
    BY <1>2 DEF UpdateTaskWrite, TypeOK
<1>5. ser \in SUBSET Serial
    BY <1>1, <1>3 DEF TaskRow, UpdateTaskReq
<1>6. st \in LiveStatus \cup {"CANCELLED"}
    BY <1>1, <1>3 DEF TaskRow, UpdateTaskReq
<1>7. ser = (IF req[r].serials = Keep THEN task[t].serials ELSE req[r].serials)
      /\ st = (IF req[r].to = Keep THEN task[t].status ELSE req[r].to)
    OBVIOUS
<1> HIDE DEF ser, st
<1>8. PICK f : f = row
    OBVIOUS
<1>9. /\ f \in TaskRow /\ f.line = task[t].line /\ f.type = task[t].type
      /\ f.qty = task[t].qty /\ f.done = task[t].done /\ f.serials = ser /\ f.status = st
    BY <1>3, <1>5, <1>6, <1>8 DEF TaskRow
<1> HIDE DEF row
<1>10. task'[t] = f /\ \A u \in Task \ {t} : task'[u] = task[u]
    BY <1>2, <1>4, <1>8 DEF TypeOK
<1> QED BY <1>1, <1>2, <1>3, <1>7, <1>9, <1>10, NoTaskIsNone DEF SameTask

LEMMA CancelsTask ==
    ASSUME TypeOK, NEW r \in Req, HasTask(r), CancelTask(r)
    PROVE  LET t == req[r].task
           IN  /\ req[r].at = "cancelTask" /\ t \in Task /\ SameTask(t)
               /\ task'[t].done = task[t].done /\ task'[t].serials = task[t].serials
               /\ task'[t].status = "CANCELLED"
               /\ \A u \in Task \ {t} : task'[u] = task[u]
<1> DEFINE t == req[r].task
           row == [task[t] EXCEPT !.status = "CANCELLED"]
<1>1. req[r].at = "cancelTask" /\ t \in Task
    BY ReqAt DEF CancelTask, OnTasks
<1>2. task[t] # NoTask /\ task[t] \in TaskRow
    BY <1>1, TaskFields DEF HasTask, OnTasks
<1>3. task' = [task EXCEPT ![t] = row]
    BY <1>1 DEF CancelTask, TypeOK
<1>4. PICK f : f = row
    OBVIOUS
<1>5. /\ f \in TaskRow /\ f.line = task[t].line /\ f.type = task[t].type
      /\ f.qty = task[t].qty /\ f.done = task[t].done /\ f.serials = task[t].serials
      /\ f.status = "CANCELLED"
    BY <1>2, <1>4 DEF TaskRow
<1> HIDE DEF row
<1>6. task'[t] = f /\ \A u \in Task \ {t} : task'[u] = task[u]
    BY <1>1, <1>3, <1>4 DEF TypeOK
<1> QED BY <1>1, <1>2, <1>5, <1>6, NoTaskIsNone DEF SameTask

LEMMA TasksStay ==
    ASSUME TypeOK, Sound, [Next]_vars, NEW t \in Task
    PROVE  \/ task'[t] = task[t]
           \/ SameTask(t)
           \/ task[t] = NoTask /\ \E r \in Req : CreateCommit(r) /\ t = req[r].task
<1>1. ASSUME NEW r \in Req, Writes(r)
      PROVE  \/ task'[t] = task[t]
             \/ SameTask(t)
             \/ task[t] = NoTask /\ \E s \in Req : CreateCommit(s) /\ t = req[s].task
    <2>0. HasTask(r) /\ HasRow(r)
        BY SoundAt
    <2>1. CASE CancelTasks(r)
        BY <2>1, CancelsTasks
    <2>2. CASE CreateCommit(r)
        BY <2>0, <2>2, CreatesTask DEF HasRow
    <2>3. CASE CompleteCommit(r)
        BY <2>0, <2>3, CompletesTask
    <2>4. CASE UpdateTaskWrite(r)
        BY <2>0, <2>4, UpdatesTask
    <2>5. CASE CancelTask(r)
        BY <2>0, <2>5, CancelsTask
    <2>6. CASE \/ UpdateWrite(r) \/ ReplaceWrite(r) \/ CancelOrder(r) \/ WaveStatus(r)
               \/ WaveReserve(r) \/ AllocateCommit(r) \/ CompleteWrite(r) \/ ReleaseReservations(r)
        BY <2>6 DEF UpdateWrite, ReplaceWrite, CancelOrder, WaveStatus, WaveReserve,
           AllocateCommit, CompleteWrite, ReleaseReservations
    <2> QED BY <1>1, <2>1, <2>2, <2>3, <2>4, <2>5, <2>6 DEF Writes
<1>2. ASSUME NEW r \in Req, NEW q, Start(r, q) PROVE task' = task
    BY <1>2, Starts
<1>3. ASSUME NEW r \in Req, Fail(r) PROVE task' = task
    BY <1>3 DEF Fail
<1>4. ASSUME NEW o \in Order, CreateSalesOrder(o) PROVE task' = task
    BY <1>4 DEF CreateSalesOrder
<1>5. ASSUME UNCHANGED vars PROVE task' = task
    BY <1>5 DEF vars
<1>6. Founded
    BY DEF Sound
<1> QED BY <1>1, <1>2, <1>3, <1>4, <1>5, <1>6, OrderReads, TaskReads DEF Next

-----------------------------------------------------------------------------
(* What a step does to a request.                                          *)
Resumed(s) ==
    /\ req[s] # Idle /\ req'[s].order = req[s].order
    /\ \/ /\ CancelTasks(s) \/ CancelOrder(s)
          /\ req[s].at = "cancel" /\ req'[s].at \in {"cancelTasks", "cancelOrder"}
       \/ /\ WaveStatus(s) /\ req[s].at = "wave" /\ req'[s].at = "reserve"
          /\ req'[s].pick \in Picks(req[s].order, {})
       \/ /\ CompleteWrite(s) /\ req[s].at = "complete" /\ req'[s].at = "ship"
          /\ req'[s].task = req[s].task /\ req'[s].qty = req[s].qty
          /\ req'[s].serials = req[s].serials /\ req'[s].next = req[s].next
          /\ req'[s].all = AllShipped(task[req[s].task].line, task[req[s].task].type, req[s].qty)
       \/ /\ CancelTask(s) /\ req[s].at = "cancelTask" /\ req'[s].at = "release"
          /\ req'[s].task = req[s].task
       \/ /\ \E r \in Req \ {s} : ReplaceWrite(r) /\ Losing(s, req[r].order)
          /\ req'[s].at = req[s].at /\ req[s].at \in {"reserve", "create", "allocate"}
          /\ req[s].at = "reserve" => req'[s].pick = req[s].pick
          /\ req[s].at = "create" => req'[s].task = req[s].task /\ req'[s].row = req[s].row
          /\ req[s].at = "allocate" =>
                /\ req'[s].again = req[s].again /\ req'[s].seen = req[s].seen
                /\ req'[s].change = req[s].change /\ req'[s].freed = req[s].freed
                /\ req'[s].pick = req[s].pick

ReqMoves(s) == req'[s] = req[s] \/ req'[s] = Idle \/ Resumed(s)

LEMMA WritesMove ==
    ASSUME TypeOK, Sound, NEW r \in Req, Writes(r), NEW s \in Req
    PROVE  ReqMoves(s)
<1>0. req[r] # Idle /\ req[r] \in Request
    BY ReqAt DEF Writes, UpdateWrite, ReplaceWrite, CancelTasks, CancelOrder, WaveStatus,
       WaveReserve, AllocateCommit, CreateCommit, CompleteWrite, CompleteCommit,
       UpdateTaskWrite, CancelTask, ReleaseReservations
<1>1. ASSUME Finish(r)
      PROVE  req'[s] = req[s] \/ req'[s] = Idle
    BY <1>1, Finishes
<1>2. ASSUME ReplaceWrite(r)
      PROVE  ReqMoves(s)
    <2>1. CASE s = r
        BY <1>2, <2>1, ReplaceRecords DEF ReqMoves
    <2>2. CASE s # r /\ ~Losing(s, req[r].order)
        BY <1>2, <2>2, ReplaceRecords DEF ReqMoves
    <2>3. CASE s # r /\ Losing(s, req[r].order)
        <3>1. req[s] \in Request /\ req'[s] = [req[s] EXCEPT !.gone = TRUE]
            BY <1>2, <2>3, ReplaceRecords
        <3>2. req[s].at \in {"reserve", "create", "allocate"} /\ req[s] # Idle
            BY <2>3, <3>1, OrderOf DEF Losing
        <3>3. /\ req[s].at = "reserve" => req'[s] =
                    [at |-> req[s].at, order |-> req[s].order, pick |-> req[s].pick, gone |-> TRUE]
              /\ req[s].at = "create" => req'[s] =
                    [at |-> req[s].at, order |-> req[s].order, task |-> req[s].task,
                     row |-> req[s].row, gone |-> TRUE]
              /\ req[s].at = "allocate" => req'[s] =
                    [at |-> req[s].at, order |-> req[s].order, again |-> req[s].again,
                     seen |-> req[s].seen, change |-> req[s].change, freed |-> req[s].freed,
                     pick |-> req[s].pick, gone |-> TRUE]
            <4>1. PICK q, f : q = req[s] /\ f = req'[s]
                OBVIOUS
            <4> QED BY <3>1, <3>2, <4>1, GoneTyped
        <3>4. Resumed(s)
            BY <1>2, <2>3, <3>2, <3>3 DEF Resumed
        <3> QED BY <3>4 DEF ReqMoves
    <2> QED BY <2>1, <2>2, <2>3
<1>3. ASSUME CancelTasks(r) \/ CancelOrder(r)
      PROVE  ReqMoves(s)
    BY <1>0, <1>3, CancelRecord DEF ReqMoves, Resumed
<1>4. ASSUME WaveStatus(r)
      PROVE  ReqMoves(s)
    <2>1. PICK pick \in Picks(req[r].order, {}) :
              /\ req'[r] = [at |-> "reserve", order |-> req[r].order, pick |-> pick, gone |-> FALSE]
              /\ \A u \in Req \ {r} : req'[u] = req[u]
        BY <1>4, Continues DEF WaveStatus
    <2>2. req[r].at = "wave"
        BY <1>4 DEF WaveStatus
    <2>3. CASE s = r
        BY <1>0, <1>4, <2>1, <2>2, <2>3 DEF ReqMoves, Resumed
    <2> QED BY <2>1, <2>3 DEF ReqMoves
<1>5. ASSUME CompleteWrite(r)
      PROVE  ReqMoves(s)
    <2>1. CASE s = r
        <3>1. req[r].at = "complete"
            BY <1>5 DEF CompleteWrite
        <3>2. /\ req'[r].at = "ship" /\ req'[r].order = req[r].order
              /\ req'[r].task = req[r].task /\ req'[r].qty = req[r].qty
              /\ req'[r].serials = req[r].serials /\ req'[r].next = req[r].next
              /\ req'[r].all = AllShipped(task[req[r].task].line, task[req[r].task].type,
                                          req[r].qty)
            <4>1. PICK all : all = AllShipped(task[req[r].task].line, task[req[r].task].type,
                                              req[r].qty)
                OBVIOUS
            <4>2. req'[r] = [at |-> "ship", order |-> req[r].order, task |-> req[r].task,
                             qty |-> req[r].qty, serials |-> req[r].serials,
                             next |-> req[r].next, all |-> all]
                BY Zenon, <1>5, <4>1, ShipRecord
            <4> QED BY <4>1, <4>2
        <3>3. Resumed(r)
            BY <1>0, <1>5, <3>1, <3>2 DEF Resumed
        <3> QED BY <2>1, <3>3 DEF ReqMoves
    <2> QED BY <1>5, <2>1, ShipRecord DEF ReqMoves
<1>6. ASSUME CancelTask(r)
      PROVE  ReqMoves(s)
    <2>1. CASE s = r
        <3>1. req[r].at = "cancelTask"
            BY <1>6 DEF CancelTask
        <3>2. /\ req'[r].at = "release" /\ req'[r].order = req[r].order
              /\ req'[r].task = req[r].task
            <4>1. req'[r] = [at |-> "release", order |-> req[r].order, task |-> req[r].task]
                BY Zenon, <1>6, ReleaseRecord
            <4> QED BY <4>1
        <3>3. Resumed(r)
            BY <1>0, <1>6, <3>1, <3>2 DEF Resumed
        <3> QED BY <2>1, <3>3 DEF ReqMoves
    <2> QED BY <1>6, <2>1, ReleaseRecord DEF ReqMoves
<1>7. ASSUME \/ UpdateWrite(r) \/ WaveReserve(r) \/ AllocateCommit(r)
             \/ CreateCommit(r) \/ CompleteCommit(r) \/ UpdateTaskWrite(r)
             \/ ReleaseReservations(r)
      PROVE  ReqMoves(s)
    <2>1. Finish(r)
        BY <1>7 DEF UpdateWrite, WaveReserve, AllocateCommit,
           CreateCommit, CompleteCommit, UpdateTaskWrite, ReleaseReservations
    <2> QED BY <1>1, <2>1 DEF ReqMoves
<1>8. ReqMoves(s)
    BY <1>2, <1>3, <1>4, <1>5, <1>6, <1>7 DEF Writes
<1> QED BY <1>8

-----------------------------------------------------------------------------
(* What a write does to the status of its order, and to no other.          *)
StatusMoves(r, o) ==
    \/ status'[o] = status[o]
    \/ /\ o = req[r].order /\ status'[o] \in OrderStatus
       /\ \/ UpdateWrite(r) /\ req[r].at = "update" /\ status'[o] = req[r].to
          \/ /\ CancelOrder(r) /\ req[r].at \in {"cancel", "cancelOrder"}
             /\ status'[o] = "CANCELLED"
          \/ /\ WaveStatus(r) /\ req[r].at = "wave"
             /\ status'[o] = IF req[r].seen = "RELEASED" THEN "ALLOCATED" ELSE req[r].seen
          \/ AllocateCommit(r) /\ req[r].at = "allocate" /\ status'[o] = req[r].seen
          \/ CreateCommit(r) /\ req[r].at = "create" /\ status'[o] = req[r].row.type
          \/ /\ CompleteCommit(r) /\ req[r].at = "ship"
             /\ status'[o] = IF req[r].all THEN "SHIPPED" ELSE task[req[r].task].type

LEMMA TypesAreStatuses == Type \subseteq OrderStatus \ {"SHIPPED"}
BY OutboundAssumption DEF OrderStatus

LEMMA StatusWrites ==
    ASSUME TypeOK, Sound, NEW r \in Req, Writes(r), NEW o \in Order
    PROVE  StatusMoves(r, o)
<1>1. ASSUME UpdateWrite(r) PROVE StatusMoves(r, o)
    <2>1. req[r] \in UpdateReq /\ req[r].at = "update"
        BY <1>1, ReqAt, Kinds DEF UpdateWrite
    <2>2. status' = [status EXCEPT ![req[r].order] = req[r].to] /\ req[r].to \in OrderStatus
        BY <1>1, <2>1 DEF UpdateWrite, UpdateReq
    <2> QED BY <1>1, <2>1, <2>2 DEF StatusMoves, TypeOK
<1>2. ASSUME CancelOrder(r) PROVE StatusMoves(r, o)
    <2>1. /\ status' = [status EXCEPT ![req[r].order] = "CANCELLED"]
          /\ req[r].at \in {"cancel", "cancelOrder"} /\ "CANCELLED" \in OrderStatus
        BY <1>2 DEF CancelOrder, OrderStatus
    <2> QED BY <1>2, <2>1 DEF StatusMoves, TypeOK
<1>3. ASSUME WaveStatus(r) PROVE StatusMoves(r, o)
    <2>1. req[r] \in WaveReq /\ req[r].at = "wave"
        BY <1>3, ReqAt, Kinds DEF WaveStatus
    <2>2. PICK to \in OrderStatus : to = IF req[r].seen = "RELEASED" THEN "ALLOCATED"
                                         ELSE req[r].seen
        BY <2>1 DEF WaveReq, OrderStatus
    <2>3. status' = [status EXCEPT ![req[r].order] = to]
        BY <1>3, <2>2 DEF WaveStatus
    <2> QED BY <1>3, <2>1, <2>2, <2>3 DEF StatusMoves, TypeOK
<1>4. ASSUME AllocateCommit(r) PROVE StatusMoves(r, o)
    <2>1. req[r] \in AllocateReq /\ req[r].at = "allocate"
        BY <1>4, ReqAt, Kinds DEF AllocateCommit
    <2>2. status' = [status EXCEPT ![req[r].order] = req[r].seen] /\ req[r].seen \in OrderStatus
        BY <1>4, <2>1 DEF AllocateCommit, AllocateReq
    <2> QED BY <1>4, <2>1, <2>2 DEF StatusMoves, TypeOK
<1>5. ASSUME CreateCommit(r) PROVE StatusMoves(r, o)
    <2>1. req[r].at = "create" /\ req[r].row \in TaskRow
        BY <1>5, CreatesTask
    <2>2. req[r].row.type \in OrderStatus
        BY <2>1, TypesAreStatuses DEF TaskRow
    <2>3. status' = [status EXCEPT ![req[r].order] = req[r].row.type]
        BY <1>5 DEF CreateCommit, StatusFromTaskType
    <2> QED BY <1>5, <2>1, <2>2, <2>3 DEF StatusMoves, TypeOK
<1>6. ASSUME CompleteCommit(r) PROVE StatusMoves(r, o)
    <2>1. HasTask(r)
        BY SoundAt
    <2>2. req[r].at = "ship" /\ req[r].task \in Task /\ SameTask(req[r].task)
        BY <1>6, <2>1, CompletesTask
    <2>3. task[req[r].task].type \in OrderStatus /\ req[r].order = task[req[r].task].line[1]
        BY <2>1, <2>2, TaskFields, TypesAreStatuses DEF SameTask, HasTask, OnTasks
    <2>4. PICK to \in OrderStatus : to = IF req[r].all THEN "SHIPPED" ELSE task[req[r].task].type
        BY <2>3 DEF OrderStatus
    <2>5. status' = [status EXCEPT ![req[r].order] = to]
        BY <1>6, <2>3, <2>4 DEF CompleteCommit, StatusFromTaskType
    <2> QED BY <1>6, <2>2, <2>4, <2>5 DEF StatusMoves, TypeOK
<1>7. ASSUME \/ ReplaceWrite(r) \/ CancelTasks(r) \/ WaveReserve(r) \/ CompleteWrite(r)
             \/ UpdateTaskWrite(r) \/ CancelTask(r) \/ ReleaseReservations(r)
      PROVE  StatusMoves(r, o)
    BY <1>7 DEF ReplaceWrite, CancelTasks, WaveReserve, CompleteWrite, UpdateTaskWrite,
       CancelTask, ReleaseReservations, StatusMoves
<1> QED BY <1>1, <1>2, <1>3, <1>4, <1>5, <1>6, <1>7 DEF Writes

LEMMA StatusStays ==
    ASSUME TypeOK, Sound, [Next]_vars, NEW o \in Order, status[o] # "ABSENT"
    PROVE  status'[o] # "ABSENT"
<1>1. ASSUME NEW r \in Req, Writes(r) PROVE status'[o] # "ABSENT"
    BY <1>1, StatusWrites DEF StatusMoves, OrderStatus
<1>2. ASSUME NEW r \in Req, NEW q, Start(r, q) PROVE status' = status
    BY <1>2, Starts
<1>3. ASSUME NEW r \in Req, Fail(r) PROVE status' = status
    BY <1>3 DEF Fail
<1>4. ASSUME NEW p \in Order, CreateSalesOrder(p) PROVE status'[o] # "ABSENT"
    BY <1>4 DEF CreateSalesOrder, TypeOK
<1>5. ASSUME UNCHANGED vars PROVE status' = status
    BY <1>5 DEF vars
<1>6. Founded
    BY DEF Sound
<1> QED BY <1>1, <1>2, <1>3, <1>4, <1>5, <1>6, OrderReads, TaskReads DEF Next

-----------------------------------------------------------------------------
(* What a write does to the reservations of a serial.                      *)
LEMMA NoRowIsNone == NoRow \notin Reservation
BY DEF NoRow, Reservation

LEMMA ReleasedMoves ==
    ASSUME TypeOK, NEW keys \in SUBSET Key, \A k \in keys : Active(k) # NoRow,
           Movable(keys, "RELEASED"), NEW k \in Key
    PROVE  /\ k \notin keys => Released(keys)[k] = resv[k]
           /\ k \in keys => /\ Released(keys)[k]["ACTIVE"] = NoRow
                            /\ Released(keys)[k]["RELEASED"] # NoRow
<1> DEFINE rows == [j \in keys |-> [Active(j) EXCEPT !.task = Unlinked]]
<1>1. Released(keys)[k] = IF k \in keys
                          THEN [resv[k] EXCEPT !["ACTIVE"] = NoRow, !["RELEASED"] = rows[k]]
                          ELSE resv[k]
    BY DEF Released, Moved
<1>2. ASSUME k \in keys
      PROVE  rows[k] \in Reservation
    BY <1>2, ActiveTyped DEF Reservation
<1>3. resv[k] \in [ReservationStatus -> Reservation \cup {NoRow}]
    BY DEF TypeOK
<1>4. "ACTIVE" \in ReservationStatus /\ "RELEASED" \in ReservationStatus
    BY DEF ReservationStatus
<1> HIDE DEF rows
<1> QED BY <1>1, <1>2, <1>3, <1>4, NoRowIsNone

LEMMA ReservedMoves ==
    ASSUME NEW rv, rv \in [Key -> [ReservationStatus -> Reservation \cup {NoRow}]],
           NEW o, NEW pick, NEW rw, rw = Reserved(rv, o, pick), NEW k \in Key
    PROVE  \/ rw[k] = rv[k]
           \/ /\ k \in pick /\ rv[k]["ACTIVE"] = NoRow
              /\ rw[k]["ACTIVE"] = [line |-> <<o, k[1]>>, task |-> Unlinked]
              /\ rw[k]["RELEASED"] = rv[k]["RELEASED"]
<1>1. rw[k] =
          IF k \in pick /\ rv[k]["ACTIVE"] = NoRow
          THEN [rv[k] EXCEPT !["ACTIVE"] = [line |-> <<o, k[1]>>, task |-> Unlinked]]
          ELSE rv[k]
    BY DEF Reserved
<1>2. PICK new : new = [line |-> <<o, k[1]>>, task |-> Unlinked]
    OBVIOUS
<1>3. "ACTIVE" \in ReservationStatus /\ "RELEASED" \in ReservationStatus
    BY DEF ReservationStatus
<1> QED BY <1>1, <1>2, <1>3

(* A reservation goes, stays with its line, or is picked for its order; one*)
(* that goes is released, or consumed by a completion.                     *)
Completing(r) ==
    {k \in {task[req[r].task].line[2]} \X req[r].serials : ReservedFor(k, task[req[r].task].line)}

ResvMoves(r, k) ==
    /\ resv[k]["RELEASED"] # NoRow => resv'[k]["RELEASED"] # NoRow
    /\ Active(k) # NoRow /\ resv'[k]["ACTIVE"] = NoRow =>
          \/ resv'[k]["RELEASED"] # NoRow
          \/ CompleteCommit(r) /\ k \in Completing(r)
    /\ \/ resv'[k]["ACTIVE"] = NoRow
       \/ /\ Active(k) # NoRow /\ resv'[k]["ACTIVE"] # NoRow
          /\ resv'[k]["ACTIVE"].line = Active(k).line
       \/ /\ \/ (WaveReserve(r) \/ AllocateCommit(r)) /\ k \in req[r].pick
             \/ AllocateCommit(r) /\ ~Taken(k, req[r].freed)
          /\ resv'[k]["ACTIVE"] = [line |-> <<req[r].order, k[1]>>, task |-> Unlinked]

LEMMA ResvSame ==
    ASSUME NEW r, NEW k, resv'[k] = resv[k]
    PROVE  ResvMoves(r, k)
BY DEF ResvMoves, Active

LEMMA ResvWrites ==
    ASSUME TypeOK, Sound, NEW r \in Req, Writes(r), NEW k \in Key
    PROVE  ResvMoves(r, k)
<1>0. /\ resv[k] \in [ReservationStatus -> Reservation \cup {NoRow}]
      /\ "ACTIVE" \in ReservationStatus /\ "RELEASED" \in ReservationStatus
      /\ "CONSUMED" \in ReservationStatus
      /\ resv \in [Key -> [ReservationStatus -> Reservation \cup {NoRow}]]
    BY DEF TypeOK, ReservationStatus
<1>1. ASSUME WaveReserve(r) PROVE ResvMoves(r, k)
    <2>1. req[r].order \in Order
        BY <1>1, ReqAt DEF WaveReserve
    <2>2. resv' = Reserved(resv, req[r].order, req[r].pick)
        BY <1>1 DEF WaveReserve
    <2>3. \/ resv'[k] = resv[k]
          \/ /\ k \in req[r].pick /\ resv[k]["ACTIVE"] = NoRow
             /\ resv'[k]["ACTIVE"] = [line |-> <<req[r].order, k[1]>>, task |-> Unlinked]
             /\ resv'[k]["RELEASED"] = resv[k]["RELEASED"]
        BY <1>0, <2>1, <2>2, ReservedMoves
    <2> QED BY <1>1, <2>3, ResvSame DEF ResvMoves, Active
<1>2. ASSUME AllocateCommit(r) PROVE ResvMoves(r, k)
    <2>1. req[r].at = "allocate" /\ req[r] \in AllocateReq
        BY <1>2, ReqAt, Kinds DEF AllocateCommit
    <2>2. HasFreed(r)
        BY SoundAt
    <2>3. req[r].freed \in SUBSET Key /\ req[r].order \in Order
        BY <2>1 DEF AllocateReq
    <2>4. Movable(req[r].freed, "RELEASED")
        BY <1>2 DEF AllocateCommit
    <2>5. \A j \in req[r].freed : Active(j) # NoRow
        BY <2>1, <2>2, <2>4 DEF Movable, HasFreed, Allocates
    <2>6. PICK rv \in [Key -> [ReservationStatus -> Reservation \cup {NoRow}]] :
              rv = Released(req[r].freed)
        BY <2>3, <2>5, ReleasedTyped
    <2>7. /\ k \notin req[r].freed => rv[k] = resv[k]
          /\ k \in req[r].freed => rv[k]["ACTIVE"] = NoRow /\ rv[k]["RELEASED"] # NoRow
        BY <2>3, <2>4, <2>5, <2>6, ReleasedMoves
    <2>8. PICK pick \in PicksNow(r) : resv' = Reserved(rv, req[r].order, pick)
        BY <1>2, <2>6 DEF AllocateCommit
    <2>9. \/ resv'[k] = rv[k]
          \/ /\ k \in pick /\ rv[k]["ACTIVE"] = NoRow
             /\ resv'[k]["ACTIVE"] = [line |-> <<req[r].order, k[1]>>, task |-> Unlinked]
             /\ resv'[k]["RELEASED"] = rv[k]["RELEASED"]
        BY <2>3, <2>8, ReservedMoves
    <2>10. k \in pick => k \in req[r].pick \/ ~Taken(k, req[r].freed)
        BY <2>8 DEF PicksNow, Picks
    <2> QED BY <1>2, <2>7, <2>9, <2>10 DEF ResvMoves, Active
<1>3. ASSUME CreateCommit(r) PROVE ResvMoves(r, k)
    <2> DEFINE row == req[r].row
               keys == {j \in {row.line[2]} \X row.serials : ReservedFor(j, row.line)}
    <2>1. resv' = [j \in Key |-> IF j \in keys
                       THEN [resv[j] EXCEPT !["ACTIVE"].task = req[r].task] ELSE resv[j]]
        BY <1>3 DEF CreateCommit
    <2>2. \A j \in keys : Active(j) # NoRow
        BY DEF ReservedFor
    <2> HIDE DEF keys
    <2>3. CASE k \notin keys
        BY <2>1, <2>3, ResvSame
    <2>4. CASE k \in keys
        <3>1. Active(k) \in Reservation
            BY <2>2, <2>4, ActiveTyped
        <3>2. PICK new : new = [Active(k) EXCEPT !.task = req[r].task]
            OBVIOUS
        <3>3. new.line = Active(k).line /\ new # NoRow
            <4>1. new = [line |-> Active(k).line, task |-> req[r].task]
                BY <3>1, <3>2 DEF Reservation
            <4> QED BY <4>1 DEF NoRow
        <3>4. resv'[k] = [resv[k] EXCEPT !["ACTIVE"] = new]
            BY <1>0, <2>1, <2>4, <3>2 DEF Active
        <3>5. resv'[k]["ACTIVE"] = new /\ resv'[k]["RELEASED"] = resv[k]["RELEASED"]
            BY <1>0, <3>4
        <3> QED BY <2>2, <2>4, <3>3, <3>5 DEF ResvMoves
    <2> QED BY <2>3, <2>4
<1>4. ASSUME CompleteCommit(r) PROVE ResvMoves(r, k)
    <2> DEFINE l == task[req[r].task].line
               done == req[r].next = task[req[r].task].qty
               to == IF done THEN "CONSUMED" ELSE "ACTIVE"
               keys == Completing(r)
               rows == [j \in keys |-> [line |-> l, task |-> req[r].task]]
    <2>1. resv' = Moved(keys, to, rows)
        BY <1>4 DEF CompleteCommit, Completing
    <2>2. resv'[k] = IF k \in keys THEN [resv[k] EXCEPT !["ACTIVE"] = NoRow, ![to] = rows[k]]
                     ELSE resv[k]
        BY <2>1 DEF Moved
    <2>3. CASE k \notin keys
        BY <2>2, <2>3, ResvSame
    <2>4. CASE k \in keys
        <3>1. Active(k) # NoRow /\ Active(k).line = l
            BY <2>4 DEF Completing, ReservedFor
        <3>2. rows[k] = [line |-> l, task |-> req[r].task]
            BY <2>4
        <3>3. rows[k] # NoRow /\ rows[k].line = l
            BY <3>2 DEF NoRow
        <3>4. to = "CONSUMED" \/ to = "ACTIVE"
            OBVIOUS
        <3> HIDE DEF rows, to, l
        <3>5. resv'[k]["RELEASED"] = resv[k]["RELEASED"]
            BY <1>0, <2>2, <2>4, <3>4
        <3>6. resv'[k]["ACTIVE"] = NoRow \/ resv'[k]["ACTIVE"] = rows[k]
            BY <1>0, <2>2, <2>4, <3>4
        <3> QED BY <1>4, <2>4, <3>1, <3>3, <3>5, <3>6 DEF ResvMoves
    <2> QED BY <2>3, <2>4
<1>5. ASSUME ReleaseReservations(r) PROVE ResvMoves(r, k)
    <2> DEFINE keys == {j \in Key : Active(j) # NoRow /\ Active(j).task = req[r].task}
    <2>1. keys \in SUBSET Key /\ \A j \in keys : Active(j) # NoRow
        OBVIOUS
    <2>2. resv' = Released(keys) /\ Movable(keys, "RELEASED")
        BY <1>5 DEF ReleaseReservations
    <2> HIDE DEF keys
    <2>3. /\ k \notin keys => resv'[k] = resv[k]
          /\ k \in keys => resv'[k]["ACTIVE"] = NoRow /\ resv'[k]["RELEASED"] # NoRow
        BY <2>1, <2>2, ReleasedMoves
    <2> QED BY <2>3, ResvSame DEF ResvMoves
<1>6. ASSUME \/ UpdateWrite(r) \/ ReplaceWrite(r) \/ CancelTasks(r) \/ CancelOrder(r)
             \/ WaveStatus(r) \/ CompleteWrite(r) \/ UpdateTaskWrite(r) \/ CancelTask(r)
      PROVE  ResvMoves(r, k)
    <2>1. resv' = resv
        BY <1>6 DEF UpdateWrite, ReplaceWrite, CancelTasks, CancelOrder, WaveStatus,
           CompleteWrite, UpdateTaskWrite, CancelTask
    <2> QED BY <2>1, ResvSame
<1> QED BY <1>1, <1>2, <1>3, <1>4, <1>5, <1>6 DEF Writes

-----------------------------------------------------------------------------
(* What each write does to what is allocated, ordered and billed.          *)
LEMMA AllocWrites ==
    ASSUME TypeOK, Sound, NEW r \in Req, Writes(r)
    PROVE  \/ alloc' = alloc
           \/ /\ AllocateCommit(r) /\ Allocates(r) /\ req[r] \in AllocateReq
              /\ \A l \in Line, b \in Bin : alloc'[l][b] = alloc[l][b] + req[r].change[l][b]
<1>1. ASSUME AllocateCommit(r)
      PROVE  /\ Allocates(r) /\ req[r] \in AllocateReq
             /\ \A l \in Line, b \in Bin : alloc'[l][b] = alloc[l][b] + req[r].change[l][b]
    <2>1. Allocates(r) /\ req[r] \in AllocateReq
        BY <1>1, ReqAt, Kinds DEF AllocateCommit, Allocates
    <2> QED BY <1>1, <2>1 DEF AllocateCommit
<1>2. ASSUME ~AllocateCommit(r)
      PROVE  alloc' = alloc
    BY <1>2 DEF Writes, UpdateWrite, ReplaceWrite, CancelTasks, CancelOrder, WaveStatus,
       WaveReserve, CreateCommit, CompleteWrite, CompleteCommit, UpdateTaskWrite, CancelTask,
       ReleaseReservations
<1> QED BY <1>1, <1>2

LEMMA BilledWrites ==
    ASSUME TypeOK, Sound, NEW r \in Req, Writes(r), NEW t \in Task
    PROVE  \/ billed'[t] = billed[t]
           \/ /\ CompleteCommit(r) /\ t = req[r].task
              /\ billed'[t] = billed[t] + BilledPart(t, req[r].qty, req[r].next = task[t].qty)
<1>1. ASSUME CompleteCommit(r)
      PROVE  \/ billed'[t] = billed[t]
             \/ /\ t = req[r].task
                /\ billed'[t] = billed[t] + BilledPart(t, req[r].qty, req[r].next = task[t].qty)
    BY <1>1 DEF CompleteCommit, TypeOK
<1>2. ASSUME ~CompleteCommit(r)
      PROVE  billed' = billed
    BY <1>2 DEF Writes, UpdateWrite, ReplaceWrite, CancelTasks, CancelOrder, WaveStatus,
       WaveReserve, AllocateCommit, CreateCommit, CompleteWrite, UpdateTaskWrite, CancelTask,
       ReleaseReservations
<1> QED BY <1>1, <1>2

LEMMA LineWrites ==
    ASSUME TypeOK, Sound, NEW r \in Req, Writes(r), NEW l \in Line
    PROVE  \/ line'[l] = line[l]
           \/ ReplaceWrite(r) /\ l[1] = req[r].order
           \/ /\ CompleteCommit(r) /\ l = task[req[r].task].line
              /\ line'[l].ordered = line[l].ordered
              /\ \A y \in Type : line'[l].worked[y] = line[l].worked[y]
                     + (IF y = task[req[r].task].type THEN req[r].qty ELSE 0)
<1>1. ASSUME CompleteCommit(r)
      PROVE  \/ line'[l] = line[l]
             \/ /\ l = task[req[r].task].line
                /\ line'[l].ordered = line[l].ordered
                /\ \A y \in Type : line'[l].worked[y] = line[l].worked[y]
                       + (IF y = task[req[r].task].type THEN req[r].qty ELSE 0)
    <2>1. HasTask(r)
        BY SoundAt
    <2>2. req[r].task \in Task /\ SameTask(req[r].task) /\ req[r] \in CompleteReq
        BY <1>1, <2>1, CompletesTask
    <2> DEFINE m == task[req[r].task].line
               y0 == task[req[r].task].type
               n == line[m].worked[y0] + req[r].qty
    <2>3. m \in Line /\ y0 \in Type /\ req[r].qty \in Nat
        BY <2>2, TaskFields DEF SameTask, CompleteReq
    <2>4. line' = [line EXCEPT ![m].worked[y0] = n]
        BY <1>1 DEF CompleteCommit, Counted
    <2>5. CASE l # m
        BY <2>4, <2>5 DEF TypeOK
    <2>6. CASE l = m
        <3>1. line[l] \in [ordered : Ordered \cup {0}, worked : [Type -> Nat]]
            BY DEF TypeOK
        <3>2. line[l].worked \in [Type -> Nat]
            BY <3>1
        <3>3. PICK k : k = n
            OBVIOUS
        <3>4. k = line[l].worked[y0] + req[r].qty
            BY <2>6, <3>3
        <3> HIDE DEF n, m, y0
        <3>5. line'[l] = [line[l] EXCEPT !.worked[y0] = k]
            BY <2>3, <2>4, <2>6, <3>3 DEF TypeOK
        <3>6. /\ line'[l].ordered = line[l].ordered
              /\ line'[l].worked = [line[l].worked EXCEPT ![y0] = k]
            BY <3>1, <3>5
        <3>7. ASSUME NEW y \in Type
              PROVE  line'[l].worked[y] = line[l].worked[y]
                         + (IF y = y0 THEN req[r].qty ELSE 0)
            <4>1. line[l].worked[y] \in Nat
                BY <3>2
            <4> QED BY <2>3, <3>2, <3>4, <3>6, <4>1
        <3> QED BY <2>6, <3>6, <3>7 DEF m, y0
    <2> QED BY <2>5, <2>6
<1>2. ASSUME ReplaceWrite(r)
      PROVE  line'[l] = line[l] \/ l[1] = req[r].order
    BY <1>2, ReplaceRecords, HasItemsMeans DEF ReplaceWrite
<1>3. ASSUME ~CompleteCommit(r), ~ReplaceWrite(r)
      PROVE  line' = line
    BY <1>3 DEF Writes, UpdateWrite, CancelTasks, CancelOrder, WaveStatus,
       WaveReserve, AllocateCommit, CreateCommit, CompleteWrite, UpdateTaskWrite, CancelTask,
       ReleaseReservations
<1> QED BY <1>1, <1>2, <1>3

-----------------------------------------------------------------------------
LEMMA FoundedStep ==
    ASSUME TypeOK, TypeOK', Sound, [Next]_vars
    PROVE  Founded'
<1>0. Founded
    BY DEF Sound
<1>1. ASSUME NEW r \in Req, Writes(r), NEW t \in Task, task'[t] = NoTask
      PROVE  billed'[t] = 0
    <2>1. task[t] = NoTask
        BY <1>1, TasksStay DEF SameTask, Next
    <2>2. ASSUME CompleteCommit(r), t = req[r].task PROVE FALSE
        <3>1. HasTask(r)
            BY SoundAt
        <3> QED BY <2>1, <2>2, <3>1, CompletesTask DEF SameTask
    <2> QED BY <1>0, <1>1, <2>1, <2>2, BilledWrites DEF Founded
<1>2. ASSUME NEW r \in Req, Writes(r), NEW t \in Task, task'[t] # NoTask
      PROVE  status'[task'[t].line[1]] # "ABSENT"
    <2>1. CASE task[t] # NoTask
        <3>1. task'[t].line = task[t].line /\ task[t].line[1] \in Order
            BY <1>2, <2>1, TasksStay, TaskFields DEF SameTask, Next
        <3> QED BY <1>0, <1>2, <2>1, <3>1, StatusStays DEF Founded, Next
    <2>2. CASE task[t] = NoTask
        <3>1. PICK s \in Req : CreateCommit(s) /\ t = req[s].task
            BY <1>2, <2>2, TasksStay DEF SameTask, Next
        <3>2. HasRow(s) /\ HasOrder(s)
            BY SoundAt
        <3>3. /\ req[s].at = "create" /\ req[s].order \in Order
              /\ task'[t] = req[s].row
            BY <3>1, CreatesTask
        <3>4. task'[t].line[1] = req[s].order /\ status[req[s].order] # "ABSENT"
            BY <3>2, <3>3, ReqAt DEF HasRow, HasOrder
        <3> QED BY <1>2, <3>3, <3>4, StatusStays DEF Next
    <2> QED BY <2>1, <2>2
<1>3. ASSUME NEW r \in Req, Writes(r), NEW l \in Line, status'[l[1]] = "ABSENT"
      PROVE  line'[l].ordered = 0
    <2>1. l[1] \in Order
        BY LineFields
    <2>2. status[l[1]] = "ABSENT"
        BY <1>3, <2>1, StatusStays DEF Next
    <2>3. line[l].ordered = 0
        BY <1>0, <2>2 DEF Founded
    <2>4. ASSUME ReplaceWrite(r), l[1] = req[r].order PROVE FALSE
        <3>1. HasOrder(r)
            BY SoundAt
        <3>2. req[r].at = "replace"
            BY <2>4, ReplaceRecords
        <3> QED BY <2>2, <2>4, <3>1, <3>2, ReqAt DEF HasOrder
    <2> QED BY <1>3, <2>3, <2>4, LineWrites
<1>4. ASSUME NEW r \in Req, Writes(r) PROVE Founded'
    BY <1>1, <1>2, <1>3, <1>4 DEF Founded
<1>5. ASSUME task' = task, status' = status, line' = line, billed' = billed PROVE Founded'
    BY <1>0, <1>5 DEF Founded
<1>6. ASSUME NEW r \in Req, NEW q, Start(r, q) PROVE Founded'
    BY <1>5, <1>6, Starts
<1>7. ASSUME NEW r \in Req, Fail(r) PROVE Founded'
    BY <1>5, <1>7 DEF Fail
<1>8. ASSUME NEW o \in Order, CreateSalesOrder(o) PROVE Founded'
    <2>1. task' = task /\ billed' = billed /\ status' = [status EXCEPT ![o] = "RELEASED"]
          /\ HasItems(o)
        BY <1>8 DEF CreateSalesOrder
    <2>2. \A l \in Line : l[1] # o => line'[l] = line[l]
        BY <2>1, HasItemsMeans
    <2>3. \A p \in Order : status'[p] = IF p = o THEN "RELEASED" ELSE status[p]
        BY <2>1 DEF TypeOK
    <2>4. ASSUME NEW t \in Task, task'[t] # NoTask
          PROVE  status'[task'[t].line[1]] # "ABSENT"
        <3>1. task[t].line[1] \in Order
            BY <2>1, <2>4, TaskFields
        <3> QED BY <1>0, <2>1, <2>3, <2>4, <3>1 DEF Founded
    <2>5. ASSUME NEW l \in Line, status'[l[1]] = "ABSENT"
          PROVE  line'[l].ordered = 0
        <3>1. l[1] \in Order
            BY LineFields
        <3> QED BY <1>0, <2>2, <2>3, <2>5, <3>1 DEF Founded
    <2> QED BY <1>0, <2>1, <2>4, <2>5 DEF Founded
<1>9. ASSUME UNCHANGED vars PROVE Founded'
    BY <1>5, <1>9 DEF vars
<1> QED BY <1>0, <1>4, <1>6, <1>7, <1>8, <1>9, OrderReads, TaskReads DEF Next

(* A step in which s starts nothing new leaves it its order and its task.  *)
LEMMA OrderKept ==
    ASSUME TypeOK, TypeOK', Sound, [Next]_vars, NEW s \in Req, ReqMoves(s)
    PROVE  HasOrder(s)'
<1>0. HasOrder(s)
    BY SoundAt
<1>1. ASSUME req'[s] # Idle
      PROVE  req[s] # Idle /\ req'[s].order = req[s].order
    BY <1>1 DEF ReqMoves, Resumed
<1>2. ASSUME req'[s] # Idle
      PROVE  status'[req'[s].order] # "ABSENT"
    <2>1. req[s].order \in Order /\ status[req[s].order] # "ABSENT"
        BY <1>0, <1>1, <1>2, ReqAt DEF HasOrder
    <2> QED BY <1>1, <1>2, <2>1, StatusStays
<1> QED BY <1>2 DEF HasOrder

LEMMA TaskKept ==
    ASSUME TypeOK, TypeOK', Sound, [Next]_vars, NEW s \in Req, ReqMoves(s)
    PROVE  HasTask(s)'
<1>0. HasTask(s)
    BY SoundAt
<1>1. ASSUME req'[s].at \in OnTasks
      PROVE  /\ req[s].at \in OnTasks /\ req'[s].order = req[s].order
             /\ req'[s].task = req[s].task
    <2>1. req'[s] # Idle
        BY <1>1, KindAt DEF OnTasks
    <2> QED BY <1>1, <2>1 DEF ReqMoves, Resumed, OnTasks
<1>2. ASSUME req'[s].at \in OnTasks
      PROVE  task'[req'[s].task] # NoTask /\ req'[s].order = task'[req'[s].task].line[1]
    <2>1. req[s].task \in Task /\ task[req[s].task] # NoTask
          /\ req[s].order = task[req[s].task].line[1]
        BY <1>0, <1>1, <1>2, ReqAt DEF HasTask
    <2>2. SameTask(req[s].task) \/ task'[req[s].task] = task[req[s].task]
        BY <2>1, TasksStay
    <2> QED BY <1>1, <1>2, <2>1, <2>2 DEF SameTask
<1> QED BY <1>2 DEF HasTask

LEMMA RowKept ==
    ASSUME TypeOK, TypeOK', Sound, [Next]_vars, \A v \in Req : ReqMoves(v), NEW s \in Req
    PROVE  HasRow(s)'
<1>0. HasRow(s)
    BY SoundAt
<1>1. ASSUME NEW v \in Req, req'[v].at = "create"
      PROVE  /\ req[v].at = "create" /\ req'[v].order = req[v].order
             /\ req'[v].task = req[v].task /\ req'[v].row = req[v].row
    <2>1. req'[v] # Idle
        BY <1>1, KindAt
    <2> QED BY <1>1, <2>1 DEF ReqMoves, Resumed
<1>2. ASSUME req'[s].at = "create"
      PROVE  task'[req'[s].task] = NoTask
    <2>1. req[s].at = "create" /\ req'[s].task = req[s].task
        BY <1>1, <1>2
    <2>2. req[s].task \in Task
        BY <2>1, ReqAt, Kinds DEF CreateReq
    <2>3. task[req[s].task] = NoTask
        BY <1>0, <2>1 DEF HasRow
    <2>4. ASSUME NEW u \in Req, CreateCommit(u), req[s].task = req[u].task
          PROVE  FALSE
        <3>1. req[u].at = "create" /\ req'[u] = Idle
            BY <2>4, Finishes DEF CreateCommit
        <3>2. u # s
            BY <1>2, <3>1, KindAt
        <3> QED BY <1>0, <2>1, <2>4, <3>1, <3>2 DEF HasRow
    <2> QED BY <2>1, <2>2, <2>3, <2>4, TasksStay DEF SameTask
<1> QED BY <1>0, <1>1, <1>2 DEF HasRow

LEMMA FreedKept ==
    ASSUME TypeOK, TypeOK', Sound, NEW r \in Req, Writes(r), NEW s \in Req
    PROVE  HasFreed(s)'
<1>0. HasFreed(s)
    BY SoundAt
<1> SUFFICES ASSUME Allocates(s)', NEW k, k \in req'[s].freed
             PROVE  resv'[k]["ACTIVE"] # NoRow \/ resv'[k]["RELEASED"] # NoRow
    BY DEF HasFreed, Active
<1>1. req'[s].at = "allocate" /\ req'[s] # Idle
    BY KindAt DEF Allocates
<1>2. Allocates(s) /\ req'[s].freed = req[s].freed
    BY <1>1, WritesMove DEF ReqMoves, Resumed, Allocates
<1>3. k \in Key
    BY <1>2, ReqAt, Kinds DEF AllocateReq, Allocates
<1>4. Active(k) # NoRow \/ resv[k]["RELEASED"] # NoRow
    BY <1>0, <1>2 DEF HasFreed
<1>5. ASSUME CompleteCommit(r), k \in Completing(r)
      PROVE  FALSE
    <2>1. Unlocked(r, Completing(r)) /\ req[r].at = "ship"
        BY <1>5 DEF CompleteCommit, Completing
    <2>2. s # r
        BY <1>2, <2>1 DEF Allocates
    <2> QED BY <1>2, <1>5, <2>1, <2>2 DEF Unlocked, Allocates
<1> QED BY <1>3, <1>4, <1>5, ResvWrites DEF ResvMoves

LEMMA AllocKept ==
    ASSUME TypeOK, TypeOK', Sound, NEW r \in Req, Writes(r), NEW s \in Req
    PROVE  HasAlloc(s)'
<1>0. HasAlloc(s) /\ HasAlloc(r)
    BY SoundAt
<1>1. ASSUME NEW v \in Req, Allocates(v)'
      PROVE  /\ Allocates(v) /\ req'[v].change = req[v].change /\ req'[v].order = req[v].order
             /\ req'[v].again = req[v].again
    <2>1. req'[v].at = "allocate" /\ req'[v] # Idle
        BY <1>1, KindAt DEF Allocates
    <2> QED BY <2>1, WritesMove DEF ReqMoves, Resumed, Allocates
<1>2. ASSUME NEW l \in Line, NEW b \in Bin, Allocates(s)'
      PROVE  /\ alloc'[l][b] + req'[s].change[l][b] >= 0
             /\ l[1] # req'[s].order => req'[s].change[l][b] = 0
             /\ ~req'[s].again => req'[s].change[l][b] >= 0
             /\ \A v \in Req \ {s} :
                    Allocates(v)' /\ req'[s].again /\ req'[v].again /\ req'[s].order = req'[v].order
                        => req'[s].change[l][b] >= 0
    <2>1. /\ Allocates(s) /\ req'[s].change = req[s].change /\ req'[s].order = req[s].order
          /\ req'[s].again = req[s].again
        BY <1>1, <1>2
    <2>2. /\ alloc[l][b] + req[s].change[l][b] >= 0
          /\ l[1] # req[s].order => req[s].change[l][b] = 0
          /\ ~req[s].again => req[s].change[l][b] >= 0
          /\ \A v \in Req \ {s} :
                 Allocates(v) /\ req[s].again /\ req[v].again /\ req[s].order = req[v].order
                     => req[s].change[l][b] >= 0
        BY <1>0, <2>1 DEF HasAlloc
    <2>3. alloc[l][b] \in Nat
        BY AllocTyped
    <2>4. req[s].change[l][b] \in Int
        <3>1. req[s] \in AllocateReq
            BY <2>1, ReqAt, Kinds DEF Allocates
        <3> QED BY <3>1 DEF AllocateReq
    <2>5. alloc'[l][b] + req[s].change[l][b] >= 0
        <3>1. CASE alloc' = alloc
            BY <2>2, <3>1
        <3>2. CASE /\ AllocateCommit(r) /\ Allocates(r) /\ req[r] \in AllocateReq
                   /\ \A m \in Line, c \in Bin : alloc'[m][c] = alloc[m][c] + req[r].change[m][c]
            <4>1. req[r].change[l][b] \in Int /\ req[r].again \in BOOLEAN
                BY <3>2 DEF AllocateReq
            <4>2. alloc'[l][b] = alloc[l][b] + req[r].change[l][b]
                BY <3>2
            <4>3. r # s
                <5>1. req'[r] = Idle
                    BY <3>2, Finishes DEF AllocateCommit
                <5> QED BY <1>2, <5>1, KindAt DEF Allocates
            <4>4. /\ alloc[l][b] + req[r].change[l][b] >= 0
                  /\ l[1] # req[r].order => req[r].change[l][b] = 0
                  /\ ~req[r].again => req[r].change[l][b] >= 0
                  /\ \A v \in Req \ {r} :
                         Allocates(v) /\ req[r].again /\ req[v].again
                             /\ req[r].order = req[v].order => req[r].change[l][b] >= 0
                BY <1>0, <3>2 DEF HasAlloc
            <4>5. CASE l[1] # req[s].order
                BY <2>2, <2>3, <2>4, <4>1, <4>2, <4>4, <4>5
            <4>6. CASE l[1] # req[r].order
                BY <2>2, <2>3, <2>4, <4>1, <4>2, <4>4, <4>6
            <4>7. CASE ~req[r].again
                BY <2>2, <2>3, <2>4, <4>1, <4>2, <4>4, <4>7
            <4>8. CASE ~req[s].again
                BY <2>2, <2>3, <2>4, <4>1, <4>2, <4>4, <4>8
            <4>9. CASE /\ l[1] = req[s].order /\ l[1] = req[r].order
                       /\ req[s].again /\ req[r].again
                <5>1. req[r].change[l][b] >= 0
                    BY <2>1, <4>3, <4>4, <4>9
                <5> QED BY <2>2, <2>3, <2>4, <4>1, <4>2, <5>1
            <4> QED BY <4>5, <4>6, <4>7, <4>8, <4>9
        <3> QED BY <3>1, <3>2, AllocWrites
    <2> QED BY <1>1, <2>1, <2>2, <2>5
<1> QED BY <1>2 DEF HasAlloc

(* A request that starts finds itself so, and leaves the others so.        *)
LEMMA SoundStart ==
    ASSUME TypeOK, TypeOK', Sound, [Next]_vars, NEW r \in Req, NEW q, Start(r, q), Checked(r, q),
           NEW s \in Req
    PROVE  (HasOrder(s) /\ HasTask(s) /\ HasRow(s) /\ HasFreed(s) /\ HasAlloc(s))'
<1>0. HasOrder(s) /\ HasTask(s) /\ HasRow(s) /\ HasFreed(s) /\ HasAlloc(s)
    BY SoundAt
<1>1. /\ req[r] = Idle /\ req'[r] = q /\ \A v \in Req \ {r} : req'[v] = req[v]
      /\ status' = status /\ task' = task /\ alloc' = alloc /\ resv' = resv
    BY Starts
<1>2. HasOrder(s)'
    BY <1>0, <1>1 DEF HasOrder, Checked
<1>3. HasTask(s)'
    BY <1>0, <1>1 DEF HasTask, Checked
<1>4. HasRow(s)'
    <2>1. CASE s = r
        BY <1>1, <2>1 DEF HasRow, Checked
    <2>2. CASE s # r
        BY <1>0, <1>1, <2>2 DEF HasRow, Checked
    <2> QED BY <2>1, <2>2
<1>5. HasFreed(s)'
    BY <1>0, <1>1 DEF HasFreed, Allocates, Active, Checked, ReservedOf
<1>6. ASSUME q.at = "allocate", NEW l \in Line, NEW b \in Bin
      PROVE  /\ alloc[l][b] + q.change[l][b] >= 0
             /\ l[1] # q.order => q.change[l][b] = 0
             /\ ~q.again => q.change[l][b] >= 0
             /\ \A v \in Req \ {r} :
                    Allocates(v) /\ q.again /\ req[v].again /\ q.order = req[v].order
                        => q.change[l][b] >= 0 /\ req[v].change[l][b] >= 0
    <2>1. q \in AllocateReq
        BY <1>6, Kinds DEF Checked
    <2>2. PICK o \in Order, again \in BOOLEAN : o = q.order /\ again = q.again
        BY <2>1 DEF AllocateReq
    <2>3. PICK plan :
              /\ \A m \in Lines(o) : plan[m] \in Plans(m, Need(m, again))
              /\ \A m \in Line, c \in Bin :
                    q.change[m][c] = IF m \in Lines(o)
                                     THEN Change(m, c, plan[m][c], again) ELSE 0
        BY <1>6, <2>2 DEF Checked
    <2>4. alloc[l][b] \in Nat
        BY AllocTyped
    <2>5. ASSUME again, NEW v \in Req \ {r}, Allocates(v), req[v].again, o = req[v].order
          PROVE  /\ \A m \in Line, c \in Bin : req[v].change[m][c] >= 0
                 /\ \A m \in Line, c \in Bin : m[1] = o => alloc[m][c] = 0
        <3>1. ~Dropping(v, o)
            BY <1>6, <2>2, <2>5 DEF Checked
        <3>2. \A m \in {o} \X Product, c \in Bin :
                  ~(req[v].change[m][c] < 0) /\ ~(alloc[m][c] > 0)
            BY <2>5, <3>1 DEF Dropping, Allocates
        <3>3. HasAlloc(v)
            BY SoundAt
        <3>4. req[v] \in AllocateReq
            BY <2>5, ReqAt, Kinds DEF Allocates
        <3>5. ASSUME NEW m \in Line, NEW c \in Bin
              PROVE  req[v].change[m][c] >= 0 /\ (m[1] = o => alloc[m][c] = 0)
            <4>1. req[v].change[m][c] \in Int /\ alloc[m][c] \in Nat
                BY <3>4, AllocTyped DEF AllocateReq
            <4>2. CASE m[1] = o
                <5>1. m \in {o} \X Product
                    BY <4>2, LineFields
                <5> QED BY <3>2, <4>1, <5>1
            <4>3. CASE m[1] # o
                BY <2>5, <3>3, <4>3 DEF HasAlloc
            <4> QED BY <4>2, <4>3
        <3> QED BY <3>5
    <2>6. CASE l \notin Lines(o)
        <3>1. q.change[l][b] = 0
            BY <2>3, <2>6
        <3> QED BY <2>2, <2>4, <2>5, <3>1
    <2>7. CASE l \in Lines(o)
        <3>1. q.change[l][b] = Change(l, b, plan[l][b], again) /\ l[1] = o
            BY <2>3, <2>7 DEF Lines
        <3>2. /\ plan[l][b] \in Nat
              /\ alloc[l][b] + Change(l, b, plan[l][b], again) \in Nat
              /\ ~again => Change(l, b, plan[l][b], again) \in Nat
              /\ Change(l, b, plan[l][b], again) \in Int
            BY <2>3, <2>7, ChangeTyped
        <3>3. ASSUME NEW v \in Req \ {r}, Allocates(v), again, req[v].again, o = req[v].order
              PROVE  q.change[l][b] >= 0 /\ req[v].change[l][b] >= 0
            <4>1. alloc[l][b] = 0 /\ req[v].change[l][b] >= 0
                BY <2>5, <3>1, <3>3
            <4> QED BY <3>1, <3>2, <4>1
        <3> QED BY <2>2, <2>4, <3>1, <3>2, <3>3
    <2> QED BY <2>6, <2>7
<1>7. HasAlloc(s)'
    <2>1. CASE s = r
        BY <1>1, <1>6, <2>1 DEF HasAlloc, Allocates
    <2>2. CASE s # r
        <3> SUFFICES ASSUME Allocates(s), NEW l \in Line, NEW b \in Bin, q.at = "allocate",
                            req[s].again, q.again, req[s].order = q.order
                     PROVE  req[s].change[l][b] >= 0
            BY <1>0, <1>1, <2>2 DEF HasAlloc, Allocates
        <3> QED BY <1>6, <2>2
    <2> QED BY <2>1, <2>2
<1> QED BY <1>2, <1>3, <1>4, <1>5, <1>7

LEMMA SoundStep ==
    ASSUME TypeOK, TypeOK', Sound, [Next]_vars
    PROVE  Sound'
<1>0. Founded' /\ Founded
    BY FoundedStep DEF Sound
<1>1. ASSUME NEW r \in Req, NEW q, Start(r, q), Checked(r, q) PROVE Sound'
    BY <1>0, <1>1, SoundStart DEF Sound
<1>2. ASSUME NEW r \in Req, Writes(r) PROVE Sound'
    <2>1. \A v \in Req : ReqMoves(v)
        BY <1>2, WritesMove
    <2> QED BY <1>0, <1>2, <2>1, OrderKept, TaskKept, RowKept, FreedKept, AllocKept DEF Sound
<1>3. ASSUME \A v \in Req : req'[v] = req[v] \/ req'[v] = Idle,
             alloc' = alloc, resv' = resv
      PROVE  Sound'
    <2>1. \A v \in Req : ReqMoves(v)
        BY <1>3 DEF ReqMoves
    <2>2. ASSUME NEW s \in Req PROVE HasFreed(s)' /\ HasAlloc(s)'
        <3>1. HasFreed(s) /\ HasAlloc(s)
            BY SoundAt
        <3>2. \A v \in Req : req'[v].at = "allocate" => req'[v] = req[v]
            BY <1>3, KindAt
        <3>3. HasFreed(s)'
            BY <1>3, <3>1, <3>2 DEF HasFreed, Allocates, Active
        <3>4. HasAlloc(s)'
            BY <1>3, <3>1, <3>2 DEF HasAlloc, Allocates
        <3> QED BY <3>3, <3>4
    <2> QED BY <1>0, <2>1, <2>2, OrderKept, TaskKept, RowKept DEF Sound
<1>4. ASSUME NEW r \in Req, Fail(r) PROVE Sound'
    BY <1>3, <1>4, Finishes DEF Fail
<1>5. ASSUME NEW o \in Order, CreateSalesOrder(o) PROVE Sound'
    BY <1>3, <1>5 DEF CreateSalesOrder
<1>6. ASSUME UNCHANGED vars PROVE Sound'
    BY <1>3, <1>6 DEF vars
<1> QED BY <1>0, <1>1, <1>2, <1>4, <1>5, <1>6, OrderReads, TaskReads DEF Next

LEMMA SoundInit == Init => TypeOK /\ Sound
<1> SUFFICES ASSUME Init PROVE TypeOK /\ Sound
    OBVIOUS
<1>1. Zero \in [Type -> Nat] /\ 0 \in Nat
    BY DEF Zero
<1>2. line \in [Line -> [ordered : Ordered \cup {0}, worked : [Type -> Nat]]]
    BY <1>1 DEF Init
<1>3. TypeOK
    BY <1>2 DEF Init, TypeOK
<1>4. \A r \in Req : req[r] = Idle /\ req[r].at = "idle"
    BY KindAt DEF Init
<1>5. Founded
    BY DEF Init, Founded
<1>6. ASSUME NEW r \in Req
      PROVE  HasOrder(r) /\ HasTask(r) /\ HasRow(r) /\ HasFreed(r) /\ HasAlloc(r)
    BY <1>4 DEF HasOrder, HasTask, HasRow, HasFreed, HasAlloc, Allocates, OnTasks
<1> QED BY <1>3, <1>5, <1>6 DEF Sound

LEMMA AlwaysSound == Spec => [](TypeOK /\ Sound)
<1>1. TypeOK /\ Sound /\ [Next]_vars => TypeOK' /\ Sound'
    BY TypeStep, SoundStep
<1> QED BY <1>1, SoundInit, PTL DEF Spec

(* Every row has its type, and no allocation falls below zero: a request   *)
(* that deletes an order's allocations writes what it has read, and two    *)
(* that do wait for each other (allocateSalesOrderInternal).  The types are*)
(* not inductive by themselves: they rest on Sound.                        *)
THEOREM TypeCorrect == Spec => []TypeOK
BY AlwaysSound, PTL

-----------------------------------------------------------------------------
(* What two requests in flight both decide on is raced.                    *)
Alone ==
    \A r \in Req : \A s \in Req \ {r} :
        \A x : x \in Decides(req[r]) /\ x \in Decides(req[s]) => x \in raced

LEMMA RacedStays ==
    ASSUME TypeOK, Founded, [Next]_vars
    PROVE  raced \subseteq raced'
<1>1. ASSUME NEW r \in Req, NEW q, Start(r, q) PROVE raced \subseteq raced'
    BY <1>1, Starts
<1>2. ASSUME NEW r \in Req, Writes(r) PROVE raced \subseteq raced'
    BY <1>2 DEF Writes, UpdateWrite, ReplaceWrite, CancelTasks, CancelOrder, WaveStatus,
       WaveReserve, AllocateCommit, CreateCommit, CompleteWrite, CompleteCommit, UpdateTaskWrite,
       CancelTask, ReleaseReservations
<1> QED BY <1>1, <1>2, OrderReads, TaskReads DEF Next, Fail, CreateSalesOrder, vars

LEMMA DecidesIdle == Decides(Idle) = {}
BY DEF Decides

(* What a request decides on after a step it has decided on before, unless *)
(* the step starts it.                                                     *)
LEMMA DecidesKept ==
    ASSUME TypeOK, TypeOK', Sound, [Next]_vars, NEW s \in Req, ReqMoves(s),
           NEW x, x \in Decides(req[s])'
    PROVE  x \in Decides(req[s])
<1>0. PICK q : q = req'[s]
    OBVIOUS
<1>1. q # Idle
    <2>1. req'[s] = Idle => Decides(req[s])' = {}
        BY DEF Decides
    <2> QED BY <1>0, <2>1
<1>2. q.order = req[s].order /\ req[s] # Idle
    BY <1>0, <1>1 DEF ReqMoves, Resumed
<1>3. ASSUME q.at \in OnTasks
      PROVE  /\ req[s].at \in OnTasks /\ q.task = req[s].task
             /\ SerialsOf(q.task)' = SerialsOf(req[s].task)
             /\ q.at \in {"complete", "ship"} <=> req[s].at \in {"complete", "ship"}
    <2>1. /\ req[s].at \in OnTasks /\ q.task = req[s].task
          /\ q.at \in {"complete", "ship"} <=> req[s].at \in {"complete", "ship"}
        BY <1>0, <1>1, <1>3 DEF ReqMoves, Resumed, OnTasks
    <2>2. req[s].task \in Task /\ task[req[s].task] # NoTask
        BY <2>1, SoundAt, ReqAt DEF HasTask
    <2>3. task'[req[s].task].line = task[req[s].task].line
        BY <2>2, TasksStay DEF SameTask
    <2> QED BY <2>1, <2>3 DEF SerialsOf
<1>4. ASSUME q.at \in {"create"}
      PROVE  req[s].at \in {"create"} /\ q.row = req[s].row
    BY <1>0, <1>1, <1>4 DEF ReqMoves, Resumed
<1>5. ASSUME q.at \in {"allocate", "replace"}
      PROVE  req[s].at \in {"allocate", "replace"}
    BY <1>0, <1>1, <1>5 DEF ReqMoves, Resumed
<1>6. ASSUME q.at \in {"wave", "reserve", "allocate"}
      PROVE  req[s].at \in {"wave", "reserve", "allocate"}
    BY <1>0, <1>1, <1>6 DEF ReqMoves, Resumed
<1>7. Decides(req[s])' =
          {q.order}
          \cup (IF q.at \in {"allocate", "replace"} THEN {q.order} \X Product ELSE {})
          \cup (IF q.at \in {"complete", "ship"} THEN {q.task} ELSE {})
          \cup (IF q.at \in OnTasks THEN SerialsOf(q.task)' ELSE {})
          \cup (IF q.at \in {"create"} THEN {q.row.line[2]} \X q.row.serials ELSE {})
          \cup (IF q.at \in {"wave", "reserve", "allocate"} THEN Key ELSE {})
    BY <1>0, <1>1 DEF Decides, OnTasks, SerialsOf
<1>8. \/ x = q.order
      \/ q.at \in {"allocate", "replace"} /\ x \in {q.order} \X Product
      \/ q.at \in {"complete", "ship"} /\ x = q.task
      \/ q.at \in OnTasks /\ x \in SerialsOf(q.task)'
      \/ q.at \in {"create"} /\ x \in {q.row.line[2]} \X q.row.serials
      \/ q.at \in {"wave", "reserve", "allocate"} /\ x \in Key
    BY Zenon, <1>7
<1>9. CASE x = q.order
    BY <1>2, <1>9 DEF Decides
<1>10. CASE q.at \in {"allocate", "replace"} /\ x \in {q.order} \X Product
    BY <1>2, <1>5, <1>10 DEF Decides
<1>11. CASE q.at \in {"complete", "ship"} /\ x = q.task
    BY <1>2, <1>3, <1>11 DEF Decides, OnTasks
<1>12. CASE q.at \in OnTasks /\ x \in SerialsOf(q.task)'
    <2>1. x \in SerialsOf(req[s].task) /\ req[s].at \in OnTasks
        BY Zenon, <1>3, <1>12
    <2> QED BY <1>2, <2>1 DEF Decides, OnTasks
<1>13. CASE q.at \in {"create"} /\ x \in {q.row.line[2]} \X q.row.serials
    BY <1>2, <1>4, <1>13 DEF Decides
<1>14. CASE q.at \in {"wave", "reserve", "allocate"} /\ x \in Key
    BY <1>2, <1>6, <1>14 DEF Decides
<1> QED BY <1>8, <1>9, <1>10, <1>11, <1>12, <1>13, <1>14

LEMMA AloneStep ==
    ASSUME TypeOK, TypeOK', Sound, Alone, [Next]_vars
    PROVE  Alone'
<1>0. Founded /\ raced \subseteq raced'
    BY RacedStays DEF Sound
<1>1. ASSUME \A v \in Req : ReqMoves(v)
      PROVE  Alone'
    <2>1. ASSUME NEW r \in Req, NEW s \in Req \ {r}, NEW x,
                 x \in Decides(req[r])', x \in Decides(req[s])'
          PROVE  x \in raced'
        <3>1. x \in Decides(req[r]) /\ x \in Decides(req[s])
            BY <1>1, <2>1, DecidesKept
        <3> QED BY <1>0, <3>1 DEF Alone
    <2> QED BY <2>1 DEF Alone
<1>2. ASSUME NEW r \in Req, NEW q, Start(r, q)
      PROVE  Alone'
    <2>1. /\ req'[r] = q /\ task' = task
          /\ \A s \in Req \ {r} : req'[s] = req[s]
          /\ \A s \in Req \ {r} : \A x : x \in Decides(q) /\ x \in Decides(req[s]) => x \in raced'
        BY <1>2, Starts
    <2>2. Decides(req[r])' = Decides(q)
        BY <2>1 DEF Decides, SerialsOf
    <2>3. \A s \in Req \ {r} : Decides(req[s])' = Decides(req[s])
        BY <2>1 DEF Decides, SerialsOf
    <2>4. ASSUME NEW u \in Req, NEW s \in Req \ {u}, NEW x,
                 x \in Decides(req[u])', x \in Decides(req[s])'
          PROVE  x \in raced'
        <3>1. CASE u = r
            <4>1. x \in Decides(q) /\ x \in Decides(req[s])
                BY <2>2, <2>3, <2>4, <3>1
            <4> QED BY <2>1, <3>1, <4>1
        <3>2. CASE s = r
            <4>1. x \in Decides(q) /\ x \in Decides(req[u])
                BY <2>2, <2>3, <2>4, <3>2
            <4> QED BY <2>1, <3>2, <4>1
        <3>3. CASE u # r /\ s # r
            <4>1. x \in Decides(req[s]) /\ x \in Decides(req[u])
                BY <2>3, <2>4, <3>3
            <4> QED BY <1>0, <4>1 DEF Alone
        <3> QED BY <3>1, <3>2, <3>3
    <2> QED BY <2>4 DEF Alone
<1>3. ASSUME NEW r \in Req, Writes(r) PROVE Alone'
    BY <1>1, <1>3, WritesMove
<1>4. ASSUME \A v \in Req : req'[v] = req[v] \/ req'[v] = Idle PROVE Alone'
    BY <1>1, <1>4 DEF ReqMoves
<1>5. ASSUME NEW r \in Req, Fail(r) PROVE Alone'
    BY <1>4, <1>5, Finishes DEF Fail
<1>6. ASSUME NEW o \in Order, CreateSalesOrder(o) PROVE Alone'
    BY <1>4, <1>6 DEF CreateSalesOrder
<1>7. ASSUME UNCHANGED vars PROVE Alone'
    BY <1>4, <1>7 DEF vars
<1> QED BY <1>0, <1>2, <1>3, <1>5, <1>6, <1>7, OrderReads, TaskReads DEF Next

LEMMA AloneInit == Init => Alone
BY DecidesIdle DEF Init, Alone

LEMMA AlwaysAlone == Spec => []Alone
<1>1. TypeOK /\ TypeOK' /\ Sound /\ Alone /\ [Next]_vars => Alone'
    BY AloneStep
<1> QED BY <1>1, AloneInit, AlwaysSound, PTL DEF Spec

-----------------------------------------------------------------------------
(* A completion alone with its task writes what the task has done and the  *)
(* part it completes.                                                      *)
Counts ==
    \A r \in Req : req[r].at \in {"complete", "ship"} /\ req[r].task \notin raced
        => req[r].next = task[req[r].task].done + req[r].qty

LEMMA CountsAt ==
    ASSUME Counts, NEW r \in Req, req[r].at \in {"complete", "ship"}, req[r].task \notin raced
    PROVE  req[r].next = task[req[r].task].done + req[r].qty
BY DEF Counts

(* Two completions of a task that is not raced are one.                    *)
LEMMA AloneOn ==
    ASSUME TypeOK, Alone, NEW r \in Req, NEW s \in Req,
           req[r].at \in {"complete", "ship"}, req[s].at \in {"complete", "ship"},
           req[r].task = req[s].task, req[r].task \notin raced
    PROVE  r = s
<1>1. req[r] # Idle /\ req[s] # Idle
    BY KindAt
<1>2. req[r].task \in Decides(req[r]) /\ req[r].task \in Decides(req[s])
    BY <1>1 DEF Decides
<1> QED BY <1>2 DEF Alone

LEMMA DoneStays ==
    ASSUME TypeOK, Sound, NEW r \in Req, Writes(r), NEW t \in Task, task[t] # NoTask
    PROVE  /\ SameTask(t)
           /\ \/ task'[t].done = task[t].done
              \/ CompleteCommit(r) /\ t = req[r].task
<1>0. HasTask(r) /\ HasRow(r)
    BY SoundAt
<1>1. SameTask(t)
    <2>1. \/ task'[t] = task[t] \/ SameTask(t)
        BY TasksStay DEF Next
    <2> QED BY <2>1 DEF SameTask
<1>2. CASE CancelTasks(r)
    BY <1>1, <1>2, CancelsTasks
<1>3. CASE CreateCommit(r)
    BY <1>0, <1>1, <1>3, CreatesTask DEF HasRow
<1>4. CASE CompleteCommit(r)
    BY <1>0, <1>1, <1>4, CompletesTask
<1>5. CASE UpdateTaskWrite(r)
    BY <1>0, <1>1, <1>5, UpdatesTask
<1>6. CASE CancelTask(r)
    BY <1>0, <1>1, <1>6, CancelsTask
<1>7. CASE \/ UpdateWrite(r) \/ ReplaceWrite(r) \/ CancelOrder(r) \/ WaveStatus(r)
           \/ WaveReserve(r) \/ AllocateCommit(r) \/ CompleteWrite(r) \/ ReleaseReservations(r)
    BY <1>1, <1>7 DEF UpdateWrite, ReplaceWrite, CancelOrder, WaveStatus, WaveReserve,
       AllocateCommit, CompleteWrite, ReleaseReservations
<1> QED BY <1>1, <1>2, <1>3, <1>4, <1>5, <1>6, <1>7 DEF Writes

LEMMA CountsStep ==
    ASSUME TypeOK, TypeOK', Sound, Alone, Counts, [Next]_vars
    PROVE  Counts'
<1>0. Founded /\ raced \subseteq raced'
    BY RacedStays DEF Sound
<1>1. ASSUME NEW r \in Req, Writes(r)
      PROVE  Counts'
    <2> SUFFICES ASSUME NEW s \in Req, req'[s].at \in {"complete", "ship"},
                        req'[s].task \notin raced'
                 PROVE  req'[s].next = task'[req'[s].task].done + req'[s].qty
        BY DEF Counts
    <2>1. req'[s] # Idle
        BY KindAt
    <2>2. /\ req[s].at \in {"complete", "ship"} /\ req'[s].task = req[s].task
          /\ req'[s].next = req[s].next /\ req'[s].qty = req[s].qty
        BY <1>1, <2>1, WritesMove DEF ReqMoves, Resumed
    <2>3. req[s].task \notin raced
        BY <1>0, <2>2
    <2>4. req[s].task \in Task /\ task[req[s].task] # NoTask
        BY <2>2, SoundAt, ReqAt DEF HasTask, OnTasks
    <2>5. ASSUME CompleteCommit(r), req[s].task = req[r].task
          PROVE  FALSE
        <3>1. req[r].at = "ship" /\ req'[r] = Idle
            BY <2>5, Finishes DEF CompleteCommit
        <3>2. r = s
            BY <2>2, <2>3, <2>5, <3>1, AloneOn
        <3> QED BY <2>1, <3>1, <3>2
    <2>6. task'[req[s].task].done = task[req[s].task].done
        BY <1>1, <2>4, <2>5, DoneStays
    <2> QED BY <2>2, <2>3, <2>6, CountsAt
<1>2. ASSUME NEW r \in Req, NEW q, Start(r, q), Checked(r, q)
      PROVE  Counts'
    <2>1. /\ req'[r] = q /\ task' = task /\ \A s \in Req \ {r} : req'[s] = req[s]
        BY <1>2, Starts
    <2>2. q.at \in {"complete", "ship"} => q.next = task[q.task].done + q.qty
        BY <1>2 DEF Checked
    <2> QED BY <1>0, <2>1, <2>2 DEF Counts
<1>3. ASSUME \A v \in Req : req'[v] = req[v] \/ req'[v] = Idle, task' = task
      PROVE  Counts'
    BY <1>0, <1>3, KindAt DEF Counts
<1>4. ASSUME NEW r \in Req, Fail(r) PROVE Counts'
    BY <1>3, <1>4, Finishes DEF Fail
<1>5. ASSUME NEW o \in Order, CreateSalesOrder(o) PROVE Counts'
    BY <1>3, <1>5 DEF CreateSalesOrder
<1>6. ASSUME UNCHANGED vars PROVE Counts'
    BY <1>3, <1>6 DEF vars
<1> QED BY <1>0, <1>1, <1>2, <1>4, <1>5, <1>6, OrderReads, TaskReads DEF Next

LEMMA AlwaysCounts == Spec => []Counts
<1>1. TypeOK /\ TypeOK' /\ Sound /\ Alone /\ Counts /\ [Next]_vars => Counts'
    BY CountsStep
<1>2. Init => Counts
    BY KindAt DEF Init, Counts
<1> QED BY <1>1, <1>2, AlwaysAlone, AlwaysSound, PTL DEF Spec

(* A task is not billed for more than it has done over several parts: only *)
(* the completion that ends it is billed, for its own part, and a task that*)
(* is not there has no billing rows (Founded).                             *)
LEMMA BilledStep ==
    ASSUME TypeOK, TypeOK', Sound, Alone, Counts, BilledWithinDoneUnlessRaced, [Next]_vars
    PROVE  BilledWithinDoneUnlessRaced'
<1>0. Founded /\ raced \subseteq raced'
    BY RacedStays DEF Sound
<1>1. ASSUME NEW r \in Req, Writes(r)
      PROVE  BilledWithinDoneUnlessRaced'
    <2> SUFFICES ASSUME NEW t \in Task, t \notin raced', task'[t] # NoTask
                 PROVE  billed'[t] <= task'[t].done
        BY DEF BilledWithinDoneUnlessRaced
    <2>1. t \notin raced /\ billed[t] \in Nat
        BY <1>0 DEF TypeOK
    <2>2. CASE task[t] = NoTask
        <3>1. billed[t] = 0
            BY <1>0, <2>2 DEF Founded
        <3>2. ASSUME CompleteCommit(r), t = req[r].task PROVE FALSE
            BY <2>2, <3>2, SoundAt, CompletesTask DEF SameTask
        <3>3. billed'[t] = 0
            BY <1>1, <3>1, <3>2, BilledWrites
        <3>4. task'[t].done \in Nat
            <4>1. task'[t] \in TaskRow
                BY DEF TypeOK
            <4> QED BY <4>1 DEF TaskRow
        <3> QED BY <3>3, <3>4
    <2>3. CASE task[t] # NoTask
        <3>1. billed[t] <= task[t].done /\ task[t].done \in Nat
            BY <2>1, <2>3, TaskFields DEF BilledWithinDoneUnlessRaced
        <3>2. CASE CompleteCommit(r) /\ t = req[r].task
            <4>1. /\ req[r].at = "ship" /\ req[r] \in CompleteReq
                  /\ task'[t].done = req[r].next
                BY <3>2, SoundAt, CompletesTask
            <4>2. req[r].next = task[t].done + req[r].qty /\ req[r].qty \in Nat
                BY <2>1, <3>2, <4>1, CountsAt DEF CompleteReq
            <4>3. \/ billed'[t] = billed[t]
                  \/ billed'[t] = billed[t] + BilledPart(t, req[r].qty, req[r].next = task[t].qty)
                BY <1>1, BilledWrites
            <4>4. billed'[t] = billed[t] \/ billed'[t] = billed[t] + req[r].qty
                BY <2>1, <4>3 DEF BilledPart
            <4> QED BY <2>1, <3>1, <4>1, <4>2, <4>4
        <3>3. CASE ~(CompleteCommit(r) /\ t = req[r].task)
            <4>1. billed'[t] = billed[t]
                BY <1>1, <3>3, BilledWrites
            <4>2. task'[t].done = task[t].done
                BY <1>1, <2>3, <3>3, DoneStays
            <4> QED BY <3>1, <4>1, <4>2
        <3> QED BY <3>2, <3>3
    <2> QED BY <2>2, <2>3
<1>2. ASSUME task' = task, billed' = billed
      PROVE  BilledWithinDoneUnlessRaced'
    BY <1>0, <1>2 DEF BilledWithinDoneUnlessRaced
<1>3. ASSUME NEW r \in Req, NEW q, Start(r, q) PROVE BilledWithinDoneUnlessRaced'
    BY <1>2, <1>3, Starts
<1> QED BY <1>0, <1>1, <1>2, <1>3, OrderReads, TaskReads
        DEF Next, Fail, CreateSalesOrder, vars

(* No task is billed for more than it has done (createOutboundBilling-     *)
(* Transaction), unless completions of it overlapped.                      *)
THEOREM BilledOnce == Spec => []BilledWithinDoneUnlessRaced
<1>1. Init => BilledWithinDoneUnlessRaced
    BY DEF Init, BilledWithinDoneUnlessRaced
<1>2. TypeOK /\ TypeOK' /\ Sound /\ Alone /\ Counts /\ BilledWithinDoneUnlessRaced /\ [Next]_vars
          => BilledWithinDoneUnlessRaced'
    BY BilledStep
<1> QED BY <1>1, <1>2, AlwaysCounts, AlwaysAlone, AlwaysSound, PTL DEF Spec

-----------------------------------------------------------------------------
(* What the tasks of a line have done, by type, as a sum over all tasks.   *)
Share(t, l, y) ==
    IF task[t] # NoTask /\ task[t].line = l /\ task[t].type = y THEN task[t].done ELSE 0
Done(l, y) == SumFunctionOnSet([t \in Task |-> Share(t, l, y)], Task)
Of(l) == {t \in Task : task[t] # NoTask /\ task[t].line = l}

Worked ==
    \A l \in Line : Of(l) \cap raced = {} =>
        \A y \in Type : line[l].worked[y] = Done(l, y)

LEMMA ShareNat ==
    ASSUME TypeOK, NEW l \in Line, NEW y \in Type
    PROVE  /\ \A t \in Task : Share(t, l, y) \in Nat
           /\ Done(l, y) \in Nat
<1>1. \A t \in Task : Share(t, l, y) \in Nat
    BY TaskFields DEF Share
<1> DEFINE f == [t \in Task |-> Share(t, l, y)]
<1>2. \A t \in Task : f[t] \in Nat
    BY <1>1
<1>3. IsFiniteSet(Task)
    BY OutboundAssumption
<1> HIDE DEF f
<1>4. SumFunctionOnSet(f, Task) \in Nat
    BY <1>2, <1>3, SumNat
<1> QED BY <1>1, <1>4 DEF f, Done

LEMMA WorkedMeans ==
    ASSUME TypeOK, Worked
    PROVE  LineIsWorkedUnlessRaced
<1> SUFFICES ASSUME NEW l \in Line,
                    {t \in TasksOf(l[1]) : task[t].line = l} \cap raced = {}, NEW y \in Type
             PROVE  line[l].worked[y] =
                        SumFunctionOnSet([t \in {u \in TasksOf(l[1]) : task[u].line = l}
                                              |-> task[t].done],
                                         {t \in {u \in TasksOf(l[1]) : task[u].line = l} :
                                             task[t].type = y})
    BY Zenon DEF LineIsWorkedUnlessRaced
<1> DEFINE T == {t \in TasksOf(l[1]) : task[t].line = l}
           S == {t \in T : task[t].type = y}
           d == [t \in T |-> task[t].done]
           f == [t \in Task |-> Share(t, l, y)]
<1>1. T = Of(l)
    BY DEF Of, TasksOf
<1>2. line[l].worked[y] = SumFunctionOnSet(f, Task)
    <2>1. Of(l) \cap raced = {}
        BY <1>1
    <2> QED BY <2>1 DEF Worked, Done
<1>3. S \subseteq Task /\ IsFiniteSet(Task)
    BY OutboundAssumption DEF TasksOf
<1>4. \A t \in Task : f[t] \in Int
    <2>1. \A t \in Task : Share(t, l, y) \in Nat
        BY ShareNat
    <2> QED BY <2>1
<1>5. \A t \in Task \ S : f[t] = 0
    BY <1>1 DEF Of, Share
<1>6. \A t \in S : f[t] = d[t]
    BY <1>1, <1>3 DEF Of, Share
<1>7. IsFiniteSet(S)
    BY <1>3, FS_Subset
<1> HIDE DEF f, d, S
<1>8. SumFunctionOnSet(f, Task) = SumFunctionOnSet(f, S)
    BY <1>3, <1>4, <1>5, SumSupport
<1>9. SumFunctionOnSet(f, S) = SumFunctionOnSet(d, S)
    BY <1>6, <1>7, SumSame
<1> QED BY <1>2, <1>8, <1>9 DEF d, S

(* The sum when the tasks do not change, or one of them.                   *)
LEMMA DoneSame ==
    ASSUME TypeOK, TypeOK', NEW l \in Line, NEW y \in Type,
           \A t \in Task : Share(t, l, y)' = Share(t, l, y)
    PROVE  Done(l, y)' = Done(l, y)
<1> DEFINE f == [t \in Task |-> Share(t, l, y)]
           g == [t \in Task |-> Share(t, l, y)']
<1>1. \A t \in Task : f[t] = g[t]
    OBVIOUS
<1>2. IsFiniteSet(Task)
    BY OutboundAssumption
<1>3. Done(l, y) = SumFunctionOnSet(f, Task) /\ Done(l, y)' = SumFunctionOnSet(g, Task)
    BY DEF Done
<1> HIDE DEF f, g
<1> QED BY <1>1, <1>2, <1>3, SumSame

LEMMA DoneMore ==
    ASSUME TypeOK, TypeOK', NEW l \in Line, NEW y \in Type, NEW t \in Task, NEW n \in Nat,
           \A u \in Task \ {t} : Share(u, l, y)' = Share(u, l, y),
           Share(t, l, y)' = Share(t, l, y) + n
    PROVE  Done(l, y)' = Done(l, y) + n
<1> DEFINE f == [u \in Task |-> Share(u, l, y)]
           g == [u \in Task |-> Share(u, l, y)']
<1>1. \A u \in Task : f[u] \in Int
    <2>1. \A u \in Task : Share(u, l, y) \in Nat
        BY ShareNat
    <2> QED BY <2>1
<1>2. \A u \in Task \ {t} : f[u] = g[u]
    OBVIOUS
<1>3. f[t] \in Int /\ g[t] = f[t] + n
    BY <1>1
<1>4. IsFiniteSet(Task)
    BY OutboundAssumption
<1>5. Done(l, y) = SumFunctionOnSet(f, Task) /\ Done(l, y)' = SumFunctionOnSet(g, Task)
    BY DEF Done
<1> HIDE DEF f, g
<1>6. \A u \in Task : g[u] \in Int
    BY <1>1, <1>2, <1>3
<1>7. SumFunctionOnSet(g, Task) = SumFunctionOnSet(f, Task) - f[t] + g[t]
    BY <1>1, <1>2, <1>4, <1>6, SumChange
<1>8. SumFunctionOnSet(f, Task) \in Int
    BY <1>1, <1>4, SumInt
<1> QED BY <1>3, <1>5, <1>7, <1>8

LEMMA DoneNone ==
    ASSUME TypeOK, NEW l \in Line, NEW y \in Type, Of(l) = {}
    PROVE  Done(l, y) = 0
<1> DEFINE f == [t \in Task |-> Share(t, l, y)]
<1>1. \A t \in Task : f[t] = 0
    BY DEF Share, Of
<1>2. IsFiniteSet(Task)
    BY OutboundAssumption
<1>3. Done(l, y) = SumFunctionOnSet(f, Task)
    BY DEF Done
<1> HIDE DEF f
<1> QED BY <1>1, <1>2, <1>3, SumOfZeros

LEMMA WorkedStep ==
    ASSUME TypeOK, TypeOK', Sound, Alone, Counts, Worked, [Next]_vars
    PROVE  Worked'
<1>0. Founded /\ raced \subseteq raced'
    BY RacedStays DEF Sound
<1>1. ASSUME NEW l \in Line, Of(l)' \cap raced' = {}
      PROVE  Of(l) \cap raced = {}
    <2>1. ASSUME NEW t \in Of(l) PROVE t \in Of(l)'
        <3>1. task'[t] = task[t] \/ SameTask(t)
            BY <2>1, TasksStay DEF Of
        <3> QED BY <2>1, <3>1 DEF Of, SameTask
    <2> QED BY <1>0, <1>1, <2>1
<1>2. ASSUME NEW l \in Line, Of(l) \cap raced = {}, NEW y \in Type,
             \A t \in Task : Share(t, l, y)' = Share(t, l, y),
             line'[l].worked[y] = line[l].worked[y]
      PROVE  line'[l].worked[y] = Done(l, y)'
    BY <1>2, DoneSame DEF Worked
<1>3. ASSUME NEW r \in Req, Writes(r), ~CompleteCommit(r), NEW l \in Line, NEW y \in Type,
             NEW t \in Task
      PROVE  Share(t, l, y)' = Share(t, l, y)
    <2>1. CASE task[t] # NoTask
        BY <1>3, <2>1, DoneStays DEF Share, SameTask
    <2>2. CASE task[t] = NoTask
        <3>1. CASE task'[t] = NoTask
            BY <2>2, <3>1 DEF Share
        <3>2. CASE task'[t] # NoTask
            <4>1. PICK s \in Req : CreateCommit(s) /\ t = req[s].task
                BY <1>3, <2>2, <3>2, TasksStay DEF SameTask, Next
            <4>2. task'[t].done = 0
                BY <4>1, CreatesTask, SoundAt DEF HasRow
            <4> QED BY <2>2, <4>2 DEF Share
        <3> QED BY <3>1, <3>2
    <2> QED BY <2>1, <2>2
<1>4. ASSUME NEW o \in Order, \A t \in Task : task[t] = NoTask \/ task[t].line[1] # o,
             task' = task, HasItems(o)
      PROVE  Worked'
    <2>1. \A l \in Line, y \in Type : Done(l, y)' = Done(l, y)
        BY <1>4, DoneSame DEF Share
    <2>2. ASSUME NEW l \in Line, Of(l)' \cap raced' = {}, NEW y \in Type
          PROVE  line'[l].worked[y] = Done(l, y)'
        <3>1. CASE l[1] # o
            BY <1>1, <1>4, <2>1, <2>2, <3>1, HasItemsMeans DEF Worked
        <3>2. CASE l[1] = o
            <4>1. line'[l].worked[y] = 0
                BY <1>4, <3>2, HasItemsMeans DEF Zero
            <4>2. Of(l) = {}
                BY <1>4, <3>2 DEF Of
            <4> QED BY <2>1, <4>1, <4>2, DoneNone
        <3> QED BY <3>1, <3>2
    <2> QED BY <2>2 DEF Worked
<1>5. ASSUME NEW r \in Req, ReplaceWrite(r) PROVE Worked'
    <2>1. TasksOf(req[r].order) = {} /\ task' = task /\ HasItems(req[r].order)
        BY <1>5 DEF ReplaceWrite
    <2>2. PICK o \in Order : o = req[r].order
        BY <1>5, ReplaceRecords
    <2>3. HasItems(o)
        BY <2>1, <2>2
    <2>4. \A t \in Task : task[t] = NoTask \/ task[t].line[1] # o
        BY <2>1, <2>2 DEF TasksOf
    <2> QED BY <1>4, <2>1, <2>3, <2>4
<1>6. ASSUME NEW r \in Req, CompleteCommit(r) PROVE Worked'
    <2> SUFFICES ASSUME NEW l \in Line, Of(l)' \cap raced' = {}, NEW y \in Type
                 PROVE  line'[l].worked[y] = Done(l, y)'
        BY DEF Worked
    <2>0. Writes(r)
        BY <1>6 DEF Writes
    <2>1. PICK t \in Task : t = req[r].task
        BY <1>6, SoundAt, CompletesTask
    <2>2. /\ req[r].at = "ship" /\ SameTask(t) /\ req[r] \in CompleteReq
          /\ task'[t].done = req[r].next /\ \A u \in Task \ {t} : task'[u] = task[u]
        BY <1>6, <2>1, SoundAt, CompletesTask
    <2>3. task[t] # NoTask /\ task[t].done \in Nat /\ req[r].qty \in Nat
        BY <2>2, TaskFields DEF SameTask, CompleteReq
    <2>4. line[l].worked[y] = Done(l, y) /\ line[l].worked[y] \in Nat
        BY <1>1, LineFields DEF Worked
    <2>5. \A u \in Task \ {t} : Share(u, l, y)' = Share(u, l, y)
        BY <2>2 DEF Share
    <2>6. CASE l = task[t].line
        <3>1. t \notin raced
            <4>1. t \in Of(l)
                BY <2>3, <2>6 DEF Of
            <4> QED BY <1>1, <4>1
        <3>2. req[r].next = task[t].done + req[r].qty
            BY <2>1, <2>2, <3>1, CountsAt
        <3>3. line'[l].worked[y] = line[l].worked[y]
                  + (IF y = task[t].type THEN req[r].qty ELSE 0)
            <4>1. \/ line'[l] = line[l]
                  \/ ReplaceWrite(r) /\ l[1] = req[r].order
                  \/ line'[l].worked[y] = line[l].worked[y]
                         + (IF y = task[t].type THEN req[r].qty ELSE 0)
                BY <2>0, <2>1, LineWrites
            <4>2. ~ReplaceWrite(r)
                BY <2>2, ReplaceRecords
            <4>3. line' = [line EXCEPT ![l].worked[task[t].type] =
                              line[l].worked[task[t].type] + req[r].qty]
                BY <1>6, <2>1, <2>6 DEF CompleteCommit, Counted
            <4>4. line[l] \in [ordered : Ordered \cup {0}, worked : [Type -> Nat]]
                BY DEF TypeOK
            <4>5. PICK m, y0 : m = line[l].worked[task[t].type] + req[r].qty /\ y0 = task[t].type
                OBVIOUS
            <4>6. line'[l] = [line[l] EXCEPT !.worked[y0] = m]
                BY <4>3, <4>5 DEF TypeOK
            <4>7. line'[l].worked = [line[l].worked EXCEPT ![y0] = m]
                BY <4>4, <4>6
            <4>8. line[l].worked \in [Type -> Nat]
                BY <4>4
            <4>9. line[l].worked[y] \in Nat
                BY <4>8
            <4> QED BY <2>3, <4>5, <4>7, <4>8, <4>9
        <3>4. CASE y = task[t].type
            <4>1. Share(t, l, y) = task[t].done /\ Share(t, l, y)' = task[t].done + req[r].qty
                BY <2>2, <2>3, <2>6, <3>2, <3>4 DEF Share, SameTask
            <4>2. Done(l, y)' = Done(l, y) + req[r].qty
                BY <2>3, <2>5, <4>1, DoneMore
            <4> QED BY <2>4, <3>3, <3>4, <4>2
        <3>5. CASE y # task[t].type
            <4>1. Share(t, l, y)' = Share(t, l, y)
                BY <2>2, <3>5 DEF Share, SameTask
            <4>2. Done(l, y)' = Done(l, y)
                BY <2>5, <4>1, DoneSame
            <4> QED BY <2>4, <3>3, <3>5, <4>2
        <3> QED BY <3>4, <3>5
    <2>7. CASE l # task[t].line
        <3>1. Share(t, l, y)' = Share(t, l, y)
            BY <2>2, <2>7 DEF Share, SameTask
        <3>2. Done(l, y)' = Done(l, y)
            BY <2>5, <3>1, DoneSame
        <3>3. line'[l] = line[l]
            <4>1. ~ReplaceWrite(r)
                BY <2>2, ReplaceRecords
            <4> QED BY <2>0, <2>1, <2>7, <4>1, LineWrites
        <3> QED BY <2>4, <3>2, <3>3
    <2> QED BY <2>6, <2>7
<1>7. ASSUME NEW r \in Req, Writes(r), ~CompleteCommit(r), ~ReplaceWrite(r) PROVE Worked'
    <2>1. \A l \in Line : line'[l] = line[l]
        BY <1>7, LineWrites
    <2> QED BY <1>1, <1>2, <1>3, <1>7, <2>1 DEF Worked
<1>8. ASSUME NEW o \in Order, CreateSalesOrder(o) PROVE Worked'
    <2>1. status[o] = "ABSENT" /\ task' = task /\ HasItems(o)
        BY <1>8 DEF CreateSalesOrder
    <2>2. \A t \in Task : task[t] = NoTask \/ task[t].line[1] # o
        BY <1>0, <2>1 DEF Founded
    <2> QED BY <1>4, <2>1, <2>2
<1>9. ASSUME task' = task, line' = line PROVE Worked'
    <2>1. \A l \in Line, y \in Type : \A t \in Task : Share(t, l, y)' = Share(t, l, y)
        BY <1>9 DEF Share
    <2> QED BY <1>1, <1>2, <1>9, <2>1 DEF Worked
<1>10. ASSUME NEW r \in Req, NEW q, Start(r, q) PROVE Worked'
    BY <1>9, <1>10, Starts
<1> QED BY <1>0, <1>5, <1>6, <1>7, <1>8, <1>9, <1>10, OrderReads, TaskReads
        DEF Next, Fail, vars

(* What a line has been worked is what its tasks have done, in however many*)
(* parts they were completed (completeTask), unless completions of one of  *)
(* them overlapped: then an absolute quantity is written over another.     *)
THEOREM LineWorked == Spec => []LineIsWorkedUnlessRaced
<1>1. Init => Worked
    <2> SUFFICES ASSUME Init, NEW l \in Line, NEW y \in Type
                 PROVE  line[l].worked[y] = Done(l, y)
        BY DEF Worked
    <2>1. TypeOK
        BY SoundInit
    <2>2. Of(l) = {}
        BY DEF Init, Of
    <2>3. line[l].worked[y] = 0
        BY DEF Init, Zero
    <2> QED BY <2>1, <2>2, <2>3, DoneNone
<1>2. TypeOK /\ TypeOK' /\ Sound /\ Alone /\ Counts /\ Worked /\ [Next]_vars => Worked'
    BY WorkedStep
<1>3. TypeOK /\ Worked => LineIsWorkedUnlessRaced
    BY WorkedMeans
<1> QED BY <1>1, <1>2, <1>3, AlwaysCounts, AlwaysAlone, AlwaysSound, PTL DEF Spec

-----------------------------------------------------------------------------
(* What a request has checked of its order still holds when it writes, if  *)
(* no other request decided on the order meanwhile.                        *)
OrderHolds(r) ==
    req[r] # Idle /\ req[r].order \notin raced =>
        /\ req[r].at = "update" => AllowedTransition(status[req[r].order], req[r].to)
        /\ req[r].at \in {"cancel", "cancelTasks", "cancelOrder", "wave", "create", "allocate"}
               => status[req[r].order] # "SHIPPED"
        /\ req[r].at \in {"wave", "allocate"} => req[r].seen # "SHIPPED"
        /\ req[r].at \in {"complete", "ship"}
               => task[req[r].task].status \in {"OPEN", "IN_PROGRESS"}
        /\ req[r].at = "ship"
               => (req[r].all <=> AllShipped(task[req[r].task].line, task[req[r].task].type,
                                             req[r].qty))

OrdersHold == \A r \in Req : OrderHolds(r)

Untouched(o) ==
    /\ status'[o] = status[o]
    /\ \A l \in Line : l[1] = o => line'[l] = line[l]
    /\ \A t \in Task : task[t] # NoTask /\ task[t].line[1] = o => task'[t] = task[t]
    /\ \A t \in Task : task'[t] # NoTask /\ task'[t].line[1] = o => task'[t] = task[t]

(* A write leaves alone every order but its own.                           *)
LEMMA Away ==
    ASSUME TypeOK, TypeOK', Sound, NEW r \in Req, Writes(r), NEW o \in Order, o # req[r].order
    PROVE  Untouched(o)
<1>0. HasTask(r) /\ HasRow(r)
    BY SoundAt
<1>1. status'[o] = status[o]
    BY StatusWrites DEF StatusMoves
<1>2. ASSUME NEW l \in Line, l[1] = o
      PROVE  line'[l] = line[l]
    <2>1. ASSUME CompleteCommit(r) PROVE task[req[r].task].line[1] = req[r].order
        BY <1>0, <2>1 DEF CompleteCommit, HasTask, OnTasks
    <2> QED BY <1>2, <2>1, LineWrites
<1>3. ASSUME NEW t \in Task
      PROVE  \/ task'[t] = task[t]
             \/ /\ task[t] # NoTask => task[t].line[1] = req[r].order
                /\ task'[t] # NoTask => task'[t].line[1] = req[r].order
    <2>1. CASE CancelTasks(r)
        BY <2>1, CancelsTasks DEF SameTask
    <2>2. CASE CreateCommit(r)
        BY <1>0, <2>2, CreatesTask DEF HasRow
    <2>3. CASE CompleteCommit(r)
        <3>1. req[r].at = "ship"
            BY <2>3 DEF CompleteCommit
        <3> QED BY <1>0, <2>3, <3>1, CompletesTask DEF SameTask, HasTask, OnTasks
    <2>4. CASE UpdateTaskWrite(r)
        <3>1. req[r].at = "updateTask"
            BY <2>4 DEF UpdateTaskWrite
        <3> QED BY <1>0, <2>4, <3>1, UpdatesTask DEF SameTask, HasTask, OnTasks
    <2>5. CASE CancelTask(r)
        <3>1. req[r].at = "cancelTask"
            BY <2>5 DEF CancelTask
        <3> QED BY <1>0, <2>5, <3>1, CancelsTask DEF SameTask, HasTask, OnTasks
    <2>6. CASE \/ UpdateWrite(r) \/ ReplaceWrite(r) \/ CancelOrder(r) \/ WaveStatus(r)
               \/ WaveReserve(r) \/ AllocateCommit(r) \/ CompleteWrite(r)
               \/ ReleaseReservations(r)
        BY <2>6 DEF UpdateWrite, ReplaceWrite, CancelOrder, WaveStatus, WaveReserve,
           AllocateCommit, CompleteWrite, ReleaseReservations
    <2> QED BY <2>1, <2>2, <2>3, <2>4, <2>5, <2>6 DEF Writes
<1> QED BY <1>1, <1>2, <1>3 DEF Untouched

(* Two requests on an order that nobody raced for are one.                 *)
LEMMA OwnOrder ==
    ASSUME Alone, NEW r \in Req, NEW s \in Req, req[r] # Idle, req[s] # Idle,
           req[r].order = req[s].order, req[s].order \notin raced
    PROVE  r = s
<1>1. req[r].order \in Decides(req[r]) /\ req[s].order \in Decides(req[s])
    BY DEF Decides
<1> QED BY <1>1 DEF Alone

LEMMA Moving ==
    ASSUME TypeOK, NEW r \in Req, Writes(r)
    PROVE  req[r] # Idle /\ req'[r] # req[r]
<1>1. req[r] # Idle
    BY ReqAt DEF Writes, UpdateWrite, ReplaceWrite, CancelTasks, CancelOrder,
       WaveStatus, WaveReserve, AllocateCommit, CreateCommit, CompleteWrite,
       CompleteCommit, UpdateTaskWrite, CancelTask, ReleaseReservations
<1>2. CASE Finish(r)
    BY <1>1, <1>2, Finishes
<1>3. CASE ReplaceWrite(r)
    BY <1>1, <1>3, ReplaceRecords
<1>4. ASSUME CancelTasks(r) \/ CancelOrder(r) PROVE req'[r] # req[r]
    <2>1. \A q : q.at = "cancel" => q.at \notin {"cancelTasks", "cancelOrder"}
        OBVIOUS
    <2> QED BY <1>4, <2>1, CancelRecord
<1>5. ASSUME WaveStatus(r) PROVE req'[r] # req[r]
    <2>1. PICK pick : Continue(r, [at |-> "reserve", order |-> req[r].order, pick |-> pick,
                                   gone |-> FALSE])
        BY <1>5 DEF WaveStatus
    <2>2. PICK q : q = [at |-> "reserve", order |-> req[r].order, pick |-> pick, gone |-> FALSE]
        OBVIOUS
    <2>3. q.at = "reserve" /\ req'[r] = q
        BY <2>1, <2>2, Continues
    <2> QED BY <1>5, <2>3 DEF WaveStatus
<1>6. ASSUME CompleteWrite(r) PROVE req'[r] # req[r]
    <2>1. PICK q : /\ q = [at |-> "ship", order |-> req[r].order, task |-> req[r].task,
                            qty |-> req[r].qty, serials |-> req[r].serials,
                            next |-> req[r].next,
                            all |-> AllShipped(task[req[r].task].line, task[req[r].task].type,
                                               req[r].qty)]
                   /\ req'[r] = q
        BY <1>6, ShipRecord
    <2>2. q.at = "ship"
        BY <2>1
    <2> QED BY <1>6, <2>1, <2>2 DEF CompleteWrite
<1>7. ASSUME CancelTask(r) PROVE req'[r] # req[r]
    <2>1. PICK q : /\ q = [at |-> "release", order |-> req[r].order, task |-> req[r].task]
                   /\ req'[r] = q
        BY <1>7, ReleaseRecord
    <2>2. q.at = "release"
        BY <2>1
    <2> QED BY <1>7, <2>1, <2>2 DEF CancelTask
<1> QED BY <1>1, <1>2, <1>3, <1>4, <1>5, <1>6, <1>7 DEF Writes, UpdateWrite,
       WaveReserve, AllocateCommit, CreateCommit, CompleteCommit, UpdateTaskWrite,
       ReleaseReservations

LEMMA AllShippedSame ==
    ASSUME TypeOK, NEW l \in Line, NEW y, NEW n, \A m \in Line : m[1] = l[1] => line'[m] = line[m]
    PROVE  AllShipped(l, y, n)' <=> AllShipped(l, y, n)
<1>1. l[1] \in Order
    BY LineFields
<1>2. \A m \in {l[1]} \X Product : m \in Line /\ m[1] = l[1]
    BY <1>1 DEF Line
<1>3. Lines(l[1])' = Lines(l[1])
    BY <1>2 DEF Lines, Exists
<1>4. \A m \in Lines(l[1]) : m \in {l[1]} \X Product
    BY DEF Lines
<1>5. \A m \in Lines(l[1]) : line'[m] = line[m]
    BY <1>2, <1>4
<1> QED BY <1>3, <1>5 DEF AllShipped, Shipped

LEMMA OrderSame ==
    ASSUME TypeOK, Sound, NEW s \in Req, OrderHolds(s), req'[s] = req[s],
           req[s] # Idle => Untouched(req[s].order), raced \subseteq raced'
    PROVE  OrderHolds(s)'
<1> SUFFICES ASSUME req[s] # Idle, req[s].order \notin raced'
             PROVE  OrderHolds(s)'
    BY DEF OrderHolds
<1>1. Untouched(req[s].order) /\ req[s].order \notin raced
    OBVIOUS
<1>2. status'[req[s].order] = status[req[s].order]
    BY <1>1 DEF Untouched
<1>3. ASSUME req[s].at \in {"complete", "ship"}
      PROVE  /\ task'[req[s].task] = task[req[s].task]
             /\ AllShipped(task[req[s].task].line, task[req[s].task].type, req[s].qty)'
                    <=> AllShipped(task[req[s].task].line, task[req[s].task].type, req[s].qty)
    <2>1. /\ req[s].task \in Task /\ task[req[s].task] # NoTask
          /\ task[req[s].task].line[1] = req[s].order
        BY <1>3, SoundAt, ReqAt DEF HasTask, OnTasks
    <2>2. task'[req[s].task] = task[req[s].task]
        BY <1>1, <2>1 DEF Untouched
    <2>3. PICK l, y, n : l = task[req[s].task].line /\ y = task[req[s].task].type /\ n = req[s].qty
        OBVIOUS
    <2>4. l = task'[req'[s].task].line /\ y = task'[req'[s].task].type /\ n = req'[s].qty
        BY <2>2, <2>3
    <2>5. l \in Line /\ l[1] = req[s].order
        BY <2>1, <2>3, TaskFields
    <2>6. AllShipped(l, y, n)' <=> AllShipped(l, y, n)
        BY <1>1, <2>5, AllShippedSame DEF Untouched
    <2> QED BY <2>2, <2>3, <2>4, <2>6 DEF AllShipped
<1>4. req[s].at = "ship" =>
          (req'[s].all <=> AllShipped(task[req[s].task].line, task[req[s].task].type, req[s].qty)')
    BY <1>1, <1>3 DEF OrderHolds
<1> QED BY <1>1, <1>2, <1>3, <1>4 DEF OrderHolds, AllowedTransition

LEMMA OrderResumed ==
    ASSUME TypeOK, TypeOK', Sound, Alone, NEW s \in Req, OrderHolds(s), Resumed(s),
           raced \subseteq raced'
    PROVE  OrderHolds(s)'
<1> SUFFICES ASSUME req[s].order \notin raced'
             PROVE  OrderHolds(s)'
    BY DEF OrderHolds, Resumed
<1>0. req[s] # Idle /\ req[s].order \notin raced /\ req'[s].order = req[s].order
    BY DEF Resumed
<1>1. CASE /\ CancelTasks(s) \/ CancelOrder(s)
           /\ req[s].at = "cancel" /\ req'[s].at \in {"cancelTasks", "cancelOrder"}
    <2>1. status'[req[s].order] # "SHIPPED"
        <3>1. status[req[s].order] # "SHIPPED" /\ req[s].order \in Order
            BY <1>0, <1>1, CancelRecord DEF OrderHolds
        <3> QED BY <1>1, <3>1 DEF CancelTasks, CancelOrder, TypeOK
    <2> QED BY <1>0, <1>1, <2>1 DEF OrderHolds
<1>2. CASE req'[s].at \in {"reserve", "release"}
    BY <1>2 DEF OrderHolds
<1>3. CASE /\ CompleteWrite(s) /\ req[s].at = "complete" /\ req'[s].at = "ship"
           /\ req'[s].task = req[s].task /\ req'[s].qty = req[s].qty
           /\ req'[s].all = AllShipped(task[req[s].task].line, task[req[s].task].type, req[s].qty)
    <2>1. status' = status /\ task' = task /\ line' = line
        BY <1>3 DEF CompleteWrite
    <2>2. task[req[s].task].status \in {"OPEN", "IN_PROGRESS"}
        BY <1>0, <1>3 DEF OrderHolds
    <2>3. PICK l, y, n : l = task[req[s].task].line /\ y = task[req[s].task].type /\ n = req[s].qty
        OBVIOUS
    <2>4. l = task'[req'[s].task].line /\ y = task'[req'[s].task].type /\ n = req'[s].qty
        BY <1>3, <2>1, <2>3
    <2>5. AllShipped(l, y, n)' <=> AllShipped(l, y, n)
        BY <2>1 DEF AllShipped, Lines, Exists, Shipped
    <2>6. req'[s].all = AllShipped(l, y, n)
        BY <1>3, <2>3
    <2>7. AllShipped(task[req[s].task].line, task[req[s].task].type, req[s].qty)'
              = AllShipped(l, y, n)'
        BY <2>4 DEF AllShipped
    <2>8. req'[s].all <=> AllShipped(task[req[s].task].line, task[req[s].task].type, req[s].qty)'
        BY <2>5, <2>6, <2>7
    <2> QED BY <1>0, <1>3, <2>1, <2>2, <2>8 DEF OrderHolds
<1>4. CASE \E r \in Req \ {s} : ReplaceWrite(r) /\ Losing(s, req[r].order)
    <2>1. PICK r \in Req \ {s} : ReplaceWrite(r) /\ Losing(s, req[r].order)
        BY <1>4
    <2>2. req[r] # Idle /\ req[r].order = req[s].order
        BY <2>1, ReqAt DEF ReplaceWrite, Losing
    <2> QED BY <1>0, <2>2, OwnOrder
<1> QED BY <1>1, <1>2, <1>3, <1>4 DEF Resumed

LEMMA OrdersStep ==
    ASSUME TypeOK, TypeOK', Sound, Alone, OrdersHold, [Next]_vars
    PROVE  OrdersHold'
<1>0. Founded /\ raced \subseteq raced'
    BY RacedStays DEF Sound
<1> SUFFICES ASSUME NEW s \in Req
             PROVE  OrderHolds(s)'
    BY DEF OrdersHold
<1>1. OrderHolds(s) /\ HasOrder(s)
    BY SoundAt DEF OrdersHold
<1>2. ASSUME req'[s] = Idle PROVE OrderHolds(s)'
    BY <1>2 DEF OrderHolds
<1>3. ASSUME NEW r \in Req, Writes(r)
      PROVE  OrderHolds(s)'
    <2>1. ASSUME req'[s] = req[s], req[s] # Idle, req[s].order \notin raced
          PROVE  OrderHolds(s)'
        <3>1. req[r] # Idle /\ r # s
            BY <1>3, <2>1, Moving
        <3>2. req[s].order # req[r].order
            BY <2>1, <3>1, OwnOrder
        <3>3. Untouched(req[s].order)
            BY <1>3, <2>1, <3>2, ReqAt, Away
        <3> QED BY <1>0, <1>1, <2>1, <3>3, OrderSame
    <2>2. ASSUME Resumed(s) PROVE OrderHolds(s)'
        BY <1>0, <1>1, <2>2, OrderResumed
    <2>3. ReqMoves(s)
        BY <1>3, WritesMove
    <2>4. req'[s] = req[s] /\ ~(req[s] # Idle /\ req[s].order \notin raced) => OrderHolds(s)'
        BY <1>0 DEF OrderHolds
    <2> QED BY <1>2, <2>1, <2>2, <2>3, <2>4 DEF ReqMoves
<1>4. ASSUME NEW r \in Req, NEW q, Start(r, q), Checked(r, q)
      PROVE  OrderHolds(s)'
    <2>1. /\ req'[r] = q /\ \A v \in Req \ {r} : req'[v] = req[v]
          /\ status' = status /\ line' = line /\ task' = task
        BY <1>4, Starts
    <2>2. CASE s = r
        BY <1>4, <2>1, <2>2 DEF OrderHolds, Checked
    <2>3. CASE s # r
        <3>1. Untouched(req[s].order)
            BY <2>1 DEF Untouched
        <3> QED BY <1>0, <1>1, <2>1, <2>3, <3>1, OrderSame
    <2> QED BY <2>2, <2>3
<1>5. ASSUME NEW p \in Order, CreateSalesOrder(p)
      PROVE  OrderHolds(s)'
    <2>1. ASSUME req[s] # Idle PROVE Untouched(req[s].order)
        <3>1. req[s].order \in Order /\ req[s].order # p
            BY <1>1, <1>5, <2>1, ReqAt DEF CreateSalesOrder, HasOrder
        <3>2. \A l \in Line : l[1] # p => line'[l] = line[l]
            BY <1>5, HasItemsMeans DEF CreateSalesOrder
        <3>3. status'[req[s].order] = status[req[s].order]
            BY <1>5, <3>1 DEF CreateSalesOrder, TypeOK
        <3> QED BY <1>5, <3>1, <3>2, <3>3 DEF CreateSalesOrder, Untouched
    <2>2. req'[s] = req[s]
        BY <1>5 DEF CreateSalesOrder
    <2> QED BY <1>0, <1>1, <2>1, <2>2, OrderSame
<1>6. ASSUME req'[s] = req[s], status' = status, line' = line, task' = task
      PROVE  OrderHolds(s)'
    <2>1. Untouched(req[s].order)
        BY <1>6 DEF Untouched
    <2> QED BY <1>0, <1>1, <1>6, <2>1, OrderSame
<1>7. ASSUME NEW r \in Req, Fail(r) PROVE OrderHolds(s)'
    BY <1>2, <1>6, <1>7, Finishes DEF Fail
<1>8. ASSUME UNCHANGED vars PROVE OrderHolds(s)'
    BY <1>6, <1>8 DEF vars
<1> QED BY <1>0, <1>3, <1>4, <1>5, <1>7, <1>8, OrderReads, TaskReads DEF Next

LEMMA AlwaysOrders == Spec => []OrdersHold
<1>1. TypeOK /\ TypeOK' /\ Sound /\ Alone /\ OrdersHold /\ [Next]_vars => OrdersHold'
    BY OrdersStep
<1>2. Init => OrdersHold
    BY DEF Init, OrdersHold, OrderHolds
<1> QED BY <1>1, <1>2, AlwaysAlone, AlwaysSound, PTL DEF Spec

-----------------------------------------------------------------------------
LEMMA LinesOf ==
    ASSUME TypeOK, NEW o \in Order
    PROVE  /\ \A l \in Lines(o) : l \in Line /\ l[1] = o /\ line[l].ordered > 0
           /\ \A l \in Line : l[1] = o /\ line[l].ordered > 0 => l \in Lines(o)
<1>1. \A p \in Product : <<o, p>> \in Line /\ <<o, p>>[1] = o
    BY DEF Line
<1>2. \A l \in {o} \X Product : l \in Line /\ l[1] = o
    BY <1>1
<1>3. \A l \in Line : l[1] = o => l \in {o} \X Product
    BY DEF Line
<1> QED BY <1>2, <1>3 DEF Lines, Exists

AllGone(o) == Lines(o) # {} /\ \A l \in Lines(o) : line[l].worked["LOADING"] >= line[l].ordered

LEMMA GoneSame ==
    ASSUME TypeOK, TypeOK', NEW o \in Order, \A l \in Line : l[1] = o => line'[l] = line[l]
    PROVE  AllGone(o)' <=> AllGone(o)
<1>1. Lines(o)' = Lines(o)
    <2>1. \A p \in Product : <<o, p>> \in Line /\ <<o, p>>[1] = o
        BY DEF Line
    <2>2. \A l \in {o} \X Product : line'[l] = line[l]
        BY <2>1
    <2> QED BY <2>2 DEF Lines, Exists
<1> QED BY <1>1, LinesOf DEF AllGone

(* New items have not been worked.                                         *)
LEMMA NewLeft ==
    ASSUME TypeOK, TypeOK', NEW o \in Order, HasItems(o), "LOADING" \in Type
    PROVE  ~AllGone(o)'
<1>1. PICK l \in Line : l[1] = o /\ line'[l].ordered > 0 /\ line'[l].worked = Zero
    BY HasItemsMeans
<1>2. line'[l].ordered \in Nat /\ line'[l].worked["LOADING"] = 0
    <2>1. line'[l].ordered \in Ordered \cup {0}
        BY DEF TypeOK
    <2>2. Ordered \cup {0} \subseteq Nat
        BY OutboundAssumption
    <2> QED BY <1>1, <2>1, <2>2 DEF Zero
<1>3. l \in {o} \X Product
    BY <1>1 DEF Line
<1>4. l \in Lines(o)'
    BY <1>1, <1>3 DEF Lines, Exists
<1> QED BY <1>1, <1>2, <1>4 DEF AllGone

LEMMA CompletesShip ==
    ASSUME TypeOK, TypeOK', Sound, NEW r \in Req, OrderHolds(r), CompleteCommit(r),
           NEW o \in Order, o = req[r].order, o \notin raced, "LOADING" \in Type, AllGone(o)'
    PROVE  status'[o] = "SHIPPED"
<1>1. /\ req[r].at = "ship" /\ req[r].task \in Task /\ SameTask(req[r].task)
      /\ req[r] \in CompleteReq /\ req[r].order = task[req[r].task].line[1]
    BY SoundAt, CompletesTask DEF HasTask, OnTasks, CompleteCommit
<1>2. PICK l \in Line, y \in Type, n \in Nat :
          /\ l = task[req[r].task].line
          /\ y = task[req[r].task].type /\ n = req[r].qty /\ o = l[1]
    <2>1. req[r].qty \in Nat
        BY <1>1 DEF CompleteReq
    <2> QED BY <1>1, <2>1, TaskFields DEF SameTask
<1>3. ASSUME NEW m \in Line, m[1] = o
      PROVE  /\ line'[m].ordered = line[m].ordered
             /\ line'[m].worked["LOADING"]
                    = line[m].worked["LOADING"] + (IF m = l /\ y = "LOADING" THEN n ELSE 0)
    <2>1. line[m].worked["LOADING"] \in Nat
        BY LineFields
    <2>2. \/ line'[m] = line[m] /\ m # l
          \/ /\ m = l /\ line'[m].ordered = line[m].ordered
             /\ \A x \in Type : line'[m].worked[x] = line[m].worked[x] + (IF x = y THEN n ELSE 0)
        <3>1. ~ReplaceWrite(r)
            BY <1>1 DEF ReplaceWrite
        <3>2. Writes(r)
            BY DEF Writes
        <3>3. line' = [line EXCEPT ![l].worked[y] = @ + n]
            BY <1>2 DEF CompleteCommit, Counted
        <3>4. m # l => line'[m] = line[m]
            BY <3>3 DEF TypeOK
        <3>5. m = l => line'[m].worked[y] = line[m].worked[y] + n
                      /\ line'[m].ordered = line[m].ordered
                 /\ \A x \in Type \ {y} : line'[m].worked[x] = line[m].worked[x]
            <4>1. line[m] \in [ordered : Ordered \cup {0}, worked : [Type -> Nat]]
                BY DEF TypeOK
            <4>2. line[m].worked \in [Type -> Nat]
                BY <4>1
            <4>3. PICK k : k = line[m].worked[y] + n
                OBVIOUS
            <4>4. m = l => line' = [line EXCEPT ![m].worked[y] = k]
                BY <3>3, <4>3
            <4>5. m = l => line'[m] = [line[m] EXCEPT !.worked[y] = k]
                BY <4>4 DEF TypeOK
            <4>6. m = l => /\ line'[m].ordered = line[m].ordered
                           /\ line'[m].worked = [line[m].worked EXCEPT ![y] = k]
                BY <4>1, <4>5
            <4> QED BY <4>2, <4>3, <4>6
        <3>6. \A x \in Type : line[m].worked[x] \in Nat
            BY LineFields
        <3> QED BY <3>4, <3>5, <3>6
    <2> QED BY <2>1, <2>2
<1>4. \A m \in Lines(o) : m \in Lines(o)'
    BY <1>3, LinesOf DEF Lines, Exists
<1>5. AllShipped(l, y, n)
    <2> SUFFICES ASSUME NEW m \in Lines(o)
                 PROVE  line[m].worked["LOADING"] + (IF m = l /\ y = "LOADING" THEN n ELSE 0)
                            >= line[m].ordered
        BY <1>2 DEF AllShipped, Shipped
    <2>1. \A k \in Lines(o)' : line'[k].worked["LOADING"] >= line'[k].ordered
        BY <1>2 DEF AllGone
    <2>2. line'[m].worked["LOADING"] >= line'[m].ordered
        BY <1>4, <2>1
    <2> QED BY <1>3, <2>2, LinesOf
<1>6. req[r] # Idle
    BY <1>1, ReqAt
<1>7. req[r].all
    BY <1>1, <1>2, <1>5, <1>6 DEF OrderHolds
<1>8. status' = [status EXCEPT ![o] = "SHIPPED"]
    BY <1>1, <1>2, <1>7, Zenon DEF CompleteCommit
<1> QED BY <1>8 DEF TypeOK

LEMMA ShippedStep ==
    ASSUME TypeOK, TypeOK', Sound, OrdersHold, [Next]_vars, "LOADING" \in Type,
           NEW o \in Order, o \notin raced',
           AllGone(o) => status[o] = "SHIPPED", AllGone(o)'
    PROVE  status'[o] = "SHIPPED"
<1>0. Founded /\ o \notin raced
    BY RacedStays DEF Sound
<1>1. ASSUME NEW r \in Req, Writes(r)
      PROVE  status'[o] = "SHIPPED"
    <2>0. req[r] # Idle /\ OrderHolds(r)
        BY <1>1, Moving DEF OrdersHold
    <2>1. CASE o # req[r].order
        <3>1. Untouched(o)
            BY <1>1, <2>1, Away
        <3>2. status[o] = "SHIPPED"
            BY <3>1, GoneSame DEF Untouched
        <3> QED BY <3>1, <3>2 DEF Untouched
    <2>2. CASE o = req[r].order /\ ReplaceWrite(r)
        BY <2>2, NewLeft DEF ReplaceWrite
    <2>3. CASE o = req[r].order /\ CompleteCommit(r)
        BY <1>0, <2>0, <2>3, CompletesShip
    <2>4. CASE o = req[r].order /\ ~ReplaceWrite(r) /\ ~CompleteCommit(r)
        <3>1. \A l \in Line : line'[l] = line[l]
            BY <1>1, <2>4, LineWrites
        <3>2. status[o] = "SHIPPED"
            BY <3>1, GoneSame
        <3>3. StatusMoves(r, o)
            BY <1>1, StatusWrites
        <3>4. req[r].at = "update" => status'[o] = status[o] \/ req[r].to = "SHIPPED"
            BY <1>0, <2>0, <2>4, <3>2 DEF OrderHolds, AllowedTransition
        <3>5. req[r].at \notin {"cancel", "cancelOrder", "wave", "create", "allocate"}
            BY <1>0, <2>0, <2>4, <3>2 DEF OrderHolds
        <3> QED BY <2>4, <3>2, <3>3, <3>4, <3>5 DEF StatusMoves
    <2> QED BY <2>1, <2>2, <2>3, <2>4
<1>2. ASSUME line' = line, status' = status PROVE status'[o] = "SHIPPED"
    BY <1>2, GoneSame
<1>3. ASSUME NEW r \in Req, NEW q, Start(r, q) PROVE status'[o] = "SHIPPED"
    BY <1>2, <1>3, Starts
<1>4. ASSUME NEW r \in Req, Fail(r) PROVE status'[o] = "SHIPPED"
    BY <1>2, <1>4 DEF Fail
<1>5. ASSUME NEW p \in Order, CreateSalesOrder(p) PROVE status'[o] = "SHIPPED"
    <2>1. CASE p = o
        BY <1>5, <2>1, NewLeft DEF CreateSalesOrder
    <2>2. CASE p # o
        <3>1. \A l \in Line : l[1] = o => line'[l] = line[l]
            BY <1>5, <2>2, HasItemsMeans DEF CreateSalesOrder
        <3>2. status[o] = "SHIPPED"
            BY <3>1, GoneSame
        <3> QED BY <1>5, <2>2, <3>2 DEF CreateSalesOrder, TypeOK
    <2> QED BY <2>1, <2>2
<1>6. ASSUME UNCHANGED vars PROVE status'[o] = "SHIPPED"
    BY <1>2, <1>6 DEF vars
<1> QED BY <1>0, <1>1, <1>3, <1>4, <1>5, <1>6, OrderReads, TaskReads DEF Next

(* When every line of an order has been loaded in full, the order is       *)
(* shipped (completeTask), whatever tasks, waves, allocations and item     *)
(* replacements it went through, unless requests on it overlapped.         *)
THEOREM ShippedWhenAll == Spec => []ShippedWhenAllShippedUnlessRaced
<1>1. ASSUME TypeOK, TypeOK', Sound, OrdersHold, [Next]_vars, ShippedWhenAllShippedUnlessRaced
      PROVE  ShippedWhenAllShippedUnlessRaced'
    <2> SUFFICES ASSUME NEW o \in Order, o \notin raced', "LOADING" \in Type, AllGone(o)'
                 PROVE  status'[o] = "SHIPPED"
        BY DEF ShippedWhenAllShippedUnlessRaced, AllGone
    <2>1. o \notin raced
        BY <1>1, RacedStays DEF Sound
    <2>2. AllGone(o) => status[o] = "SHIPPED"
        BY <1>1, <2>1 DEF ShippedWhenAllShippedUnlessRaced, AllGone
    <2> QED BY <1>1, <2>2, ShippedStep
<1>2. Init => ShippedWhenAllShippedUnlessRaced
    BY DEF Init, ShippedWhenAllShippedUnlessRaced, Lines, Exists, Line
<1> QED BY <1>1, <1>2, AlwaysOrders, AlwaysSound, PTL DEF Spec

LEMMA FinalStep ==
    ASSUME TypeOK, TypeOK', Sound, OrdersHold, [Next]_vars,
           NEW o \in Order, o \notin raced', status[o] = "SHIPPED", Closed(o)
    PROVE  status'[o] = "SHIPPED"
<1>0. Founded /\ o \notin raced
    BY RacedStays DEF Sound
<1>1. ASSUME NEW r \in Req, Writes(r)
      PROVE  status'[o] = "SHIPPED"
    <2>0. req[r] # Idle /\ OrderHolds(r) /\ StatusMoves(r, o)
        BY <1>1, Moving, StatusWrites DEF OrdersHold
    <2> SUFFICES ASSUME o = req[r].order
                 PROVE  status'[o] = "SHIPPED"
        BY <2>0 DEF StatusMoves
    <2>1. req[r].at = "update" => status'[o] = status[o] \/ req[r].to = "SHIPPED"
        BY <1>0, <2>0 DEF OrderHolds, AllowedTransition, StatusMoves
    <2>2. req[r].at \notin {"cancel", "cancelOrder", "wave", "create", "allocate"}
        BY <1>0, <2>0 DEF OrderHolds
    <2>3. req[r].at # "ship"
        <3> SUFFICES ASSUME req[r].at = "ship" PROVE FALSE
            OBVIOUS
        <3>1. req[r].task \in Task /\ task[req[r].task] # NoTask /\ o = task[req[r].task].line[1]
            BY SoundAt, ReqAt DEF HasTask, OnTasks
        <3>2. task[req[r].task].status \in {"OPEN", "IN_PROGRESS"}
            BY <1>0, <2>0 DEF OrderHolds
        <3> QED BY <3>1, <3>2 DEF Closed, TasksOf
    <2> QED BY <2>0, <2>1, <2>2, <2>3 DEF StatusMoves
<1>2. ASSUME NEW r \in Req, NEW q, Start(r, q) PROVE status' = status
    BY <1>2, Starts
<1>3. ASSUME NEW r \in Req, Fail(r) PROVE status' = status
    BY <1>3 DEF Fail
<1>4. ASSUME NEW p \in Order, CreateSalesOrder(p) PROVE status'[o] = status[o]
    BY <1>4 DEF CreateSalesOrder, TypeOK
<1>5. ASSUME UNCHANGED vars PROVE status' = status
    BY <1>5 DEF vars
<1> QED BY <1>0, <1>1, <1>2, <1>3, <1>4, <1>5, OrderReads, TaskReads DEF Next

(* A shipped order with no task open stays shipped, unless requests on it  *)
(* overlapped: no wave, allocation, new task or update that was checked    *)
(* alone takes it back (isOrderEligible, assertAllowedStatusTransition).   *)
THEOREM ShippedIsFinal == Spec => ShippedIsFinalUnlessRaced
<1>1. TypeOK /\ TypeOK' /\ Sound /\ OrdersHold /\ [Next]_vars =>
          [\A o \in Order \ raced' :
               status[o] = "SHIPPED" /\ Closed(o) => status'[o] = "SHIPPED"]_vars
    BY FinalStep
<1> QED BY <1>1, AlwaysOrders, AlwaysSound, PTL DEF Spec, ShippedIsFinalUnlessRaced

-----------------------------------------------------------------------------
(* What an allocation is about to leave on a line is within its order.     *)
After(l, change) == [b \in Bin |-> alloc[l][b] + change[l][b]]

PlansWithin(r) ==
    Allocates(r) => \A l \in Line \ raced :
        l[1] = req[r].order => Total(After(l, req[r].change)) <= line[l].ordered

Within == AllocatedWithinOrderUnlessRaced /\ \A r \in Req : PlansWithin(r)

LEMMA AllocRequest ==
    ASSUME TypeOK, NEW r \in Req, Allocates(r)
    PROVE  /\ req[r] # Idle /\ req[r] \in AllocateReq /\ req[r].order \in Order
           /\ \A l \in Line, b \in Bin : req[r].change[l][b] \in Int
<1>1. req[r] # Idle /\ req[r] \in AllocateReq
    BY ReqAt, Kinds DEF Allocates
<1> QED BY <1>1 DEF AllocateReq

(* Allocations and replacements of an order meet on all its lines.         *)
LEMMA OwnLine ==
    ASSUME TypeOK, Alone, NEW r \in Req, NEW s \in Req, NEW l \in Line, l \notin raced,
           req[r].at \in {"allocate", "replace"}, req[s].at \in {"allocate", "replace"},
           l[1] = req[r].order, l[1] = req[s].order
    PROVE  r = s
<1>1. l \in {l[1]} \X Product
    BY DEF Line
<1>2. req[r] # Idle /\ req[s] # Idle
    BY KindAt
<1>3. l \in Decides(req[r]) /\ l \in Decides(req[s])
    BY <1>1, <1>2 DEF Decides
<1> QED BY <1>3 DEF Alone

LEMMA PlanTotal ==
    ASSUME TypeOK, NEW l \in Line, NEW need \in Nat, NEW f \in Plans(l, need)
    PROVE  /\ f \in [Bin -> Nat] /\ Total(f) \in Nat /\ Total(f) <= need
<1>1. f \in [Bin -> 0..need]
    BY DEF Plans
<1>2. f \in [Bin -> Nat]
    BY <1>1
<1>3. PICK has : has = [b \in Bin |-> onHand[<<b, l[2]>>]]
    OBVIOUS
<1>4. has \in [Bin -> Nat]
    <2>1. l[2] \in Product
        BY LineFields
    <2>2. \A b \in Bin : onHand[<<b, l[2]>>] \in OnHand
        BY <2>1 DEF TypeOK
    <2> QED BY <1>3, <2>2, OutboundAssumption
<1>5. Total(f) = Least(need, Total(has))
    BY <1>3 DEF Plans
<1>6. Total(has) \in Nat /\ Total(f) \in Nat
    BY <1>2, <1>4, TotalNat
<1> QED BY <1>2, <1>5, <1>6 DEF Least

LEMMA TotalPlus ==
    ASSUME NEW f \in [Bin -> Nat], NEW g \in [Bin -> Nat], NEW h,
           h = [b \in Bin |-> f[b] + g[b]]
    PROVE  Total(h) = Total(f) + Total(g)
<1>1. /\ DOMAIN f = Bin /\ DOMAIN g = Bin /\ DOMAIN h = Bin /\ IsFiniteSet(Bin)
      /\ \A b \in Bin : f[b] \in Int /\ g[b] \in Int /\ h[b] = f[b] + g[b]
    BY OutboundAssumption
<1> QED BY <1>1, SumPlus DEF Total, SumFunction

(* The plan of an allocation, over what the line has already.              *)
LEMMA PlanWithin ==
    ASSUME TypeOK, NEW r \in Req, NEW q, q.at = "allocate", Checked(r, q), NEW l \in Line,
           l[1] = q.order, Total(alloc[l]) <= line[l].ordered
    PROVE  Total(After(l, q.change)) <= line[l].ordered
<1>0. q \in Request
    BY DEF Checked
<1>1. q \in AllocateReq /\ q.order \in Order /\ q.again \in BOOLEAN
    <2>1. q \in AllocateReq
        BY <1>0, Kinds
    <2> QED BY <2>1 DEF AllocateReq
<1>2. PICK plan : /\ \A m \in Lines(q.order) : plan[m] \in Plans(m, Need(m, q.again))
                  /\ \A m \in Line, b \in Bin :
                        q.change[m][b] = IF m \in Lines(q.order)
                                         THEN Change(m, b, plan[m][b], q.again) ELSE 0
    BY DEF Checked
<1>3. alloc[l] \in [Bin -> Nat] /\ Total(alloc[l]) \in Nat /\ line[l].ordered \in Nat
    BY AllocTyped, LineFields
<1>4. ASSUME l \notin Lines(q.order)
      PROVE  Total(After(l, q.change)) <= line[l].ordered
    <2>1. \A b \in Bin : alloc[l][b] + q.change[l][b] = alloc[l][b]
        BY <1>2, <1>3, <1>4
    <2>2. After(l, q.change) = alloc[l]
        BY <1>3, <2>1 DEF After
    <2> QED BY <2>2
<1>5. ASSUME l \in Lines(q.order)
      PROVE  Total(After(l, q.change)) <= line[l].ordered
    <2>1. PICK need : need = Need(l, q.again)
        OBVIOUS
    <2>2. need \in Nat
        BY <1>1, <2>1, NeedNat
    <2>3. PICK f : f = plan[l]
        OBVIOUS
    <2>4. f \in [Bin -> Nat] /\ Total(f) \in Nat /\ Total(f) <= need
        BY <1>2, <1>5, <2>1, <2>2, <2>3, PlanTotal
    <2>5. \A b \in Bin : q.change[l][b] = f[b] - (IF q.again THEN alloc[l][b] ELSE 0)
        BY <1>2, <1>5, <2>3 DEF Change
    <2>6. CASE q.again
        <3>1. \A b \in Bin : alloc[l][b] + q.change[l][b] = f[b]
            BY <1>3, <2>4, <2>5, <2>6
        <3>2. After(l, q.change) = f
            BY <2>4, <3>1 DEF After
        <3>3. need <= line[l].ordered
            BY <1>3, <2>1, <2>6 DEF Need, Already
        <3> QED BY <1>3, <2>2, <2>4, <3>2, <3>3
    <2>7. CASE ~q.again
        <3>1. \A b \in Bin : alloc[l][b] + q.change[l][b] = alloc[l][b] + f[b]
            BY <1>3, <2>4, <2>5, <2>7
        <3>2. After(l, q.change) = [b \in Bin |-> alloc[l][b] + f[b]]
            BY <3>1 DEF After
        <3>3. Total(After(l, q.change)) = Total(alloc[l]) + Total(f)
            BY <1>3, <2>4, <3>2, TotalPlus
        <3>4. Total(alloc[l]) + need <= line[l].ordered
            BY <1>3, <2>1, <2>7 DEF Need, Already
        <3> QED BY <1>3, <2>2, <2>4, <3>3, <3>4
    <2> QED BY <1>1, <2>6, <2>7
<1> QED BY <1>4, <1>5

LEMMA NothingAllocated ==
    ASSUME NEW f \in [Bin -> Nat], \A b \in Bin : f[b] = 0
    PROVE  Total(f) = 0
<1>1. DOMAIN f = Bin /\ IsFiniteSet(Bin)
    BY OutboundAssumption
<1> QED BY <1>1, SumOfZeros DEF Total, SumFunction

(* A write leaves what is allocated within the order.                      *)
LEMMA AllocatedKept ==
    ASSUME TypeOK, TypeOK', Sound, Within, NEW r \in Req, Writes(r), NEW l \in Line,
           l \notin raced
    PROVE  Total(alloc[l])' <= line'[l].ordered
<1>0. Total(alloc[l]) <= line[l].ordered /\ PlansWithin(r) /\ HasAlloc(r)
    BY SoundAt DEF Within, AllocatedWithinOrderUnlessRaced
<1>1. Total(alloc[l])' = Total(alloc'[l])
    BY DEF Total
<1>2. CASE AllocateCommit(r) /\ Allocates(r) /\ req[r] \in AllocateReq
           /\ \A m \in Line, b \in Bin : alloc'[m][b] = alloc[m][b] + req[r].change[m][b]
    <2>1. line' = line /\ alloc'[l] \in [Bin -> Nat]
        BY <1>2 DEF AllocateCommit, TypeOK
    <2>2. alloc'[l] = After(l, req[r].change)
        BY <1>2, <2>1 DEF After
    <2>3. CASE l[1] = req[r].order
        BY <1>0, <1>1, <1>2, <2>1, <2>2, <2>3 DEF PlansWithin
    <2>4. CASE l[1] # req[r].order
        <3>1. \A b \in Bin : req[r].change[l][b] = 0 /\ alloc[l][b] \in Nat
            BY <1>0, <1>2, <2>4, AllocTyped DEF HasAlloc
        <3>2. \A b \in Bin : alloc'[l][b] = alloc[l][b]
            BY <1>2, <3>1
        <3>3. alloc[l] \in [Bin -> Nat]
            BY AllocTyped
        <3>4. alloc'[l] = alloc[l]
            BY <2>1, <3>2, <3>3
        <3> QED BY <1>0, <1>1, <2>1, <3>4
    <2> QED BY <2>3, <2>4
<1>3. CASE alloc' = alloc
    <2>1. CASE line'[l].ordered = line[l].ordered
        BY <1>0, <1>1, <1>3, <2>1
    <2>2. CASE ReplaceWrite(r) /\ l[1] = req[r].order
        <3>1. l[1] \in Order /\ line'[l].ordered \in Nat
            <4>1. line'[l].ordered \in Ordered \cup {0} /\ Ordered \cup {0} \subseteq Nat
                BY OutboundAssumption DEF TypeOK
            <4> QED BY <4>1, LineFields
        <3>2. CASE l \in Lines(l[1])
            <4>1. \A b \in Bin : alloc[l][b] = 0
                BY <2>2, <3>2 DEF ReplaceWrite
            <4>2. Total(alloc[l]) = 0
                BY <4>1, AllocTyped, NothingAllocated
            <4> QED BY <1>1, <1>3, <3>1, <4>2
        <3>3. CASE l \notin Lines(l[1])
            <4>1. line[l].ordered = 0
                BY <3>1, <3>3, LinesOf, LineFields
            <4> QED BY <1>0, <1>1, <1>3, <3>1, <4>1, AllocTyped
        <3> QED BY <3>2, <3>3
    <2> QED BY <2>1, <2>2, LineWrites
<1> QED BY <1>2, <1>3, AllocWrites

(* A write leaves what another allocation is about to write within it too. *)
LEMMA PlansKept ==
    ASSUME TypeOK, TypeOK', Sound, Alone, Within, NEW r \in Req, Writes(r), NEW s \in Req,
           raced \subseteq raced'
    PROVE  PlansWithin(s)'
<1> SUFFICES ASSUME Allocates(s)', NEW l \in Line, l \notin raced', l[1] = req'[s].order
             PROVE  Total(After(l, req[s].change))' <= line'[l].ordered
    BY DEF PlansWithin
<1>1. /\ Allocates(s) /\ req'[s].change = req[s].change /\ req'[s].order = req[s].order
      /\ l \notin raced /\ l[1] = req[s].order
    <2>1. req'[s].at = "allocate" /\ req'[s] # Idle
        BY KindAt DEF Allocates
    <2> QED BY <2>1, WritesMove DEF ReqMoves, Resumed, Allocates
<1>2. r = s => FALSE
    <2>1. ASSUME AllocateCommit(s) PROVE req'[s] = Idle
        BY <2>1, Finishes DEF AllocateCommit
    <2>2. req'[s] # Idle
        BY KindAt DEF Allocates
    <2>3. Writes(s) => AllocateCommit(s)
        BY <1>1 DEF Allocates, Writes, UpdateWrite, ReplaceWrite, CancelTasks, CancelOrder,
           WaveStatus, WaveReserve, CreateCommit, CompleteWrite,
           CompleteCommit, UpdateTaskWrite, CancelTask, ReleaseReservations
    <2> QED BY <2>1, <2>2, <2>3
<1>3. alloc'[l] = alloc[l]
    <2>1. CASE alloc' = alloc
        BY <2>1
    <2>2. CASE Allocates(r) /\ \A m \in Line, b \in Bin :
                   alloc'[m][b] = alloc[m][b] + req[r].change[m][b]
        <3>1. l[1] # req[r].order
            BY <1>1, <1>2, <2>2, OwnLine DEF Allocates
        <3>2. \A b \in Bin : req[r].change[l][b] = 0 /\ alloc[l][b] \in Nat
            BY <2>2, <3>1, SoundAt, AllocTyped DEF HasAlloc
        <3>3. \A b \in Bin : alloc'[l][b] = alloc[l][b]
            BY <2>2, <3>2
        <3>4. alloc[l] \in [Bin -> Nat] /\ alloc'[l] \in [Bin -> Nat]
            BY DEF TypeOK
        <3> QED BY <3>3, <3>4
    <2> QED BY <2>1, <2>2, AllocWrites
<1>4. line'[l].ordered = line[l].ordered
    <2>1. ~(ReplaceWrite(r) /\ l[1] = req[r].order)
        BY <1>1, <1>2, OwnLine DEF ReplaceWrite, Allocates
    <2> QED BY <2>1, LineWrites
<1>5. PICK c : c = req[s].change
    OBVIOUS
<1>6. Total(After(l, req[s].change))' = Total(After(l, c))
    BY <1>1, <1>3, <1>5 DEF After, Total
<1>7. Total(After(l, c)) <= line[l].ordered
    BY <1>1, <1>5 DEF Within, PlansWithin
<1> QED BY <1>4, <1>6, <1>7

LEMMA WithinStep ==
    ASSUME TypeOK, TypeOK', Sound, Alone, Within, [Next]_vars
    PROVE  Within'
<1>0. Founded /\ raced \subseteq raced'
    BY RacedStays DEF Sound
<1>1. ASSUME NEW r \in Req, Writes(r)
      PROVE  Within'
    <2>1. \A l \in Line : l \notin raced => Total(alloc[l])' <= line'[l].ordered
        BY <1>1, AllocatedKept
    <2>2. AllocatedWithinOrderUnlessRaced'
        BY <1>0, <2>1 DEF AllocatedWithinOrderUnlessRaced
    <2>3. ASSUME NEW s \in Req PROVE PlansWithin(s)'
        BY <1>0, <1>1, <2>3, PlansKept
    <2> QED BY <2>2, <2>3 DEF Within
<1>2. ASSUME alloc' = alloc, line' = line
      PROVE  AllocatedWithinOrderUnlessRaced'
    BY <1>0, <1>2 DEF Within, AllocatedWithinOrderUnlessRaced, Total
<1>3. ASSUME NEW s \in Req, req'[s] = req[s], alloc' = alloc,
             Allocates(s) =>
                \A l \in Line : l[1] = req[s].order => line'[l].ordered = line[l].ordered
      PROVE  PlansWithin(s)'
    <2> SUFFICES ASSUME Allocates(s), NEW l \in Line, l \notin raced', l[1] = req[s].order
                 PROVE  Total(After(l, req[s].change))' <= line'[l].ordered
        BY <1>3 DEF PlansWithin, Allocates
    <2>1. PICK c : c = req[s].change
        OBVIOUS
    <2>2. Total(After(l, req[s].change))' = Total(After(l, c))
        BY <1>3, <2>1 DEF After, Total
    <2>3. Total(After(l, c)) <= line[l].ordered
        BY <1>0, <2>1 DEF Within, PlansWithin
    <2> QED BY <1>3, <2>2, <2>3
<1>4. ASSUME NEW r \in Req, NEW q, Start(r, q), Checked(r, q)
      PROVE  Within'
    <2>1. /\ req'[r] = q /\ alloc' = alloc /\ line' = line
          /\ \A s \in Req \ {r} : req'[s] = req[s]
        BY <1>4, Starts
    <2>2. ASSUME q.at = "allocate"
          PROVE  PlansWithin(r)'
        <3> SUFFICES ASSUME NEW l \in Line, l \notin raced', l[1] = q.order
                     PROVE  Total(After(l, req[r].change))' <= line'[l].ordered
            BY <2>1 DEF PlansWithin
        <3>1. Total(alloc[l]) <= line[l].ordered
            BY <1>0 DEF Within, AllocatedWithinOrderUnlessRaced
        <3>2. Total(After(l, q.change)) <= line[l].ordered
            BY <1>4, <2>2, <3>1, PlanWithin
        <3>3. Total(After(l, req[r].change))' = Total(After(l, q.change))
            BY <2>1 DEF After, Total
        <3> QED BY <2>1, <3>2, <3>3
    <2>3. q.at # "allocate" => PlansWithin(r)'
        BY <2>1 DEF PlansWithin, Allocates
    <2>4. \A s \in Req \ {r} : PlansWithin(s)'
        BY <1>3, <2>1
    <2> QED BY <1>2, <2>1, <2>2, <2>3, <2>4 DEF Within
<1>5. ASSUME NEW r \in Req, Fail(r)
      PROVE  Within'
    <2>1. req'[r] = Idle /\ \A s \in Req \ {r} : req'[s] = req[s]
        BY <1>5, Finishes DEF Fail
    <2>2. alloc' = alloc /\ line' = line
        BY <1>5 DEF Fail
    <2>3. PlansWithin(r)'
        BY <2>1, KindAt DEF PlansWithin, Allocates
    <2>4. \A s \in Req \ {r} : PlansWithin(s)'
        BY <1>3, <2>1, <2>2
    <2> QED BY <1>2, <2>2, <2>3, <2>4 DEF Within
<1>6. ASSUME NEW p \in Order, CreateSalesOrder(p)
      PROVE  Within'
    <2>1. /\ alloc' = alloc /\ req' = req /\ raced' = raced /\ status[p] = "ABSENT"
          /\ \A l \in Line : l[1] # p => line'[l] = line[l]
        BY <1>6, HasItemsMeans DEF CreateSalesOrder
    <2>2. ASSUME NEW s \in Req PROVE PlansWithin(s)'
        <3>1. Allocates(s) => req[s].order # p
            BY <2>1, SoundAt, AllocRequest DEF HasOrder
        <3> QED BY <1>3, <2>1, <3>1
    <2>3. ASSUME NEW l \in Line, l \notin raced'
          PROVE  Total(alloc[l])' <= line'[l].ordered
        <3>1. Total(alloc[l])' = Total(alloc[l]) /\ Total(alloc[l]) \in Nat
            BY <2>1, AllocTyped DEF Total
        <3>2. Total(alloc[l]) <= line[l].ordered
            BY <2>1, <2>3 DEF Within, AllocatedWithinOrderUnlessRaced
        <3>3. CASE l[1] # p
            BY <2>1, <3>1, <3>2, <3>3
        <3>4. CASE l[1] = p
            <4>1. line[l].ordered = 0
                BY <1>0, <2>1, <3>4 DEF Founded
            <4>2. line'[l].ordered \in Ordered \cup {0} /\ Ordered \cup {0} \subseteq Nat
                BY OutboundAssumption DEF TypeOK
            <4>3. line'[l].ordered \in Nat
                BY <4>2
            <4> QED BY <3>1, <3>2, <4>1, <4>3
        <3> QED BY <3>3, <3>4
    <2> QED BY <2>2, <2>3 DEF Within, AllocatedWithinOrderUnlessRaced
<1>7. ASSUME UNCHANGED vars PROVE Within'
    BY <1>2, <1>3, <1>7 DEF vars, Within
<1> QED BY <1>0, <1>1, <1>4, <1>5, <1>6, <1>7, OrderReads, TaskReads DEF Next

(* What is allocated of a line over all bins is never more than it asks    *)
(* for (allocateSalesOrderInternal), unless allocations or a replacement of*)
(* its order overlapped.                                                   *)
THEOREM AllocatedWithin == Spec => []AllocatedWithinOrderUnlessRaced
<1>1. TypeOK /\ TypeOK' /\ Sound /\ Alone /\ Within /\ [Next]_vars => Within'
    BY WithinStep
<1>2. Init => Within
    <2> SUFFICES ASSUME Init PROVE Within
        OBVIOUS
    <2>1. ASSUME NEW l \in Line PROVE Total(alloc[l]) <= line[l].ordered
        <3>1. alloc[l] \in [Bin -> Nat] /\ \A b \in Bin : alloc[l][b] = 0
            BY DEF Init
        <3>2. line[l].ordered = 0
            BY DEF Init
        <3> QED BY <3>1, <3>2, NothingAllocated
    <2>2. \A r \in Req : PlansWithin(r)
        BY KindAt DEF Init, PlansWithin, Allocates
    <2> QED BY <2>1, <2>2 DEF Within, AllocatedWithinOrderUnlessRaced
<1>3. Within => AllocatedWithinOrderUnlessRaced
    BY DEF Within
<1> QED BY <1>1, <1>2, <1>3, AlwaysAlone, AlwaysSound, PTL DEF Spec

-----------------------------------------------------------------------------
(* The serials a request is about to put on a task or to reserve, and what *)
(* it has found of each: on no other task, and reserved for no other line. *)
Takes(t, k) == Live(t) /\ task[t].line[2] = k[1] /\ k[2] \in task[t].serials

Wants(r, k) ==
    \/ /\ req[r].at = "create"
       /\ k[1] = req[r].row.line[2] /\ k[2] \in req[r].row.serials
    \/ /\ req[r].at \in {"complete", "ship"}
       /\ k[1] = task[req[r].task].line[2]
       /\ k[2] \in IF req[r].serials = {} THEN task[req[r].task].serials ELSE req[r].serials
    \/ /\ req[r].at = "updateTask" /\ req[r].serials # Keep
       /\ k[1] = task[req[r].task].line[2] /\ k[2] \in req[r].serials
    \/ req[r].at \in {"reserve", "allocate"} /\ k \in req[r].pick

Granted(r, k) ==
    /\ \A t \in Task : Takes(t, k) => /\ req[r].at \in {"complete", "ship", "updateTask"}
                                      /\ t = req[r].task
    /\ req[r].at = "create" => (Active(k) = NoRow \/ ReservedFor(k, req[r].row.line))
    /\ req[r].at \in {"complete", "ship"} =>
          (Active(k) = NoRow \/ ReservedFor(k, task[req[r].task].line))
    /\ req[r].at = "updateTask" => Active(k) = NoRow

Grants == \A r \in Req : \A k \in Key : k \notin raced /\ Wants(r, k) => Granted(r, k)

LEMMA OnTaskMeans ==
    ASSUME NEW k, NEW except
    PROVE  OnTask(k, except) <=> \E t \in Task : t \notin except /\ Takes(t, k)
BY DEF OnTask, Takes

LEMMA KeptMeans ==
    SerialsAreKeptUnlessRaced <=>
        \A k \in Key : k \notin raced => \A t \in Task : Takes(t, k) =>
            /\ \A u \in Task : Takes(u, k) => u = t
            /\ Active(k) = NoRow \/ ReservedFor(k, task[t].line)
<1>1. \A k \in Key, t \in Task :
          ~OnTask(k, {t}) <=> \A u \in Task : Takes(u, k) => u = t
    BY OnTaskMeans
<1> QED BY <1>1 DEF SerialsAreKeptUnlessRaced, Takes

LEMMA WantsDecides ==
    ASSUME NEW r \in Req, NEW k \in Key, Wants(r, k)
    PROVE  k \in Decides(req[r])
<1>1. k = <<k[1], k[2]>> /\ k[1] \in Product /\ k[2] \in Serial
    BY DEF Key
<1>2. req[r] # Idle
    BY KindAt DEF Wants
<1>3. CASE req[r].at = "create"
    BY <1>1, <1>2, <1>3 DEF Wants, Decides
<1>4. CASE req[r].at \in {"complete", "ship", "updateTask"}
    <2>1. k[1] = task[req[r].task].line[2]
        BY <1>4 DEF Wants
    <2>2. k \in SerialsOf(req[r].task)
        BY <1>1, <2>1 DEF SerialsOf
    <2> QED BY <1>2, <1>4, <2>2 DEF Decides
<1>5. CASE req[r].at \in {"reserve", "allocate"}
    BY <1>2, <1>5 DEF Decides
<1> QED BY <1>3, <1>4, <1>5 DEF Wants

LEMMA AloneAt ==
    ASSUME Alone, NEW r \in Req, NEW s \in Req, NEW k, k \in Decides(req[r]), k \in Decides(req[s]),
           k \notin raced
    PROVE  r = s
BY DEF Alone

LEMMA PicksFree ==
    ASSUME NEW o, NEW freed, NEW pick \in Picks(o, freed), NEW k \in pick
    PROVE  k \in Key /\ \A t \in Task : ~Takes(t, k)
<1>1. k \in Key /\ ~Taken(k, freed)
    BY DEF Picks
<1> QED BY <1>1, OnTaskMeans DEF Taken

(* What a write does to the tasks a serial is on.                          *)
LEMMA TakesWrites ==
    ASSUME TypeOK, TypeOK', Sound, NEW r \in Req, Writes(r), NEW t \in Task, NEW k \in Key,
           k \notin raced', Takes(t, k)'
    PROVE  \/ Takes(t, k) /\ task'[t].line = task[t].line
           \/ /\ Wants(r, k) /\ t = req[r].task
              /\ req[r].at \in {"create", "ship", "updateTask"}
              /\ req[r].at = "create" => task'[t].line = req[r].row.line
              /\ req[r].at # "create" => task'[t].line = task[t].line
<1>0. HasTask(r) /\ HasRow(r)
    BY SoundAt
<1>1. CASE CancelTasks(r)
    BY <1>1, CancelsTasks DEF Takes, Live, SameTask, LiveStatus
<1>2. CASE CreateCommit(r)
    BY <1>0, <1>2, CreatesTask DEF Takes, Live, Wants
<1>3. CASE CompleteCommit(r)
    <2>1. CASE t # req[r].task
        BY <1>0, <1>3, <2>1, CompletesTask DEF Takes, Live
    <2>2. CASE t = req[r].task
        <3>1. /\ req[r].at = "ship" /\ task'[t].line = task[t].line
              /\ task'[t].serials = IF req[r].serials = {} THEN task[t].serials
                                    ELSE req[r].serials
            BY <1>0, <1>3, <2>2, CompletesTask DEF SameTask
        <3> QED BY <2>2, <3>1 DEF Takes, Wants
    <2> QED BY <2>1, <2>2
<1>4. CASE UpdateTaskWrite(r)
    <2>1. CASE t # req[r].task
        BY <1>0, <1>4, <2>1, UpdatesTask DEF Takes, Live
    <2>2. CASE t = req[r].task
        <3>1. /\ req[r].at = "updateTask" /\ SameTask(t) /\ task'[t].line = task[t].line
              /\ task'[t].serials = IF req[r].serials = Keep THEN task[t].serials
                                    ELSE req[r].serials
              /\ task'[t].status = IF req[r].to = Keep THEN task[t].status ELSE req[r].to
            BY <1>0, <1>4, <2>2, UpdatesTask DEF SameTask
        <3>2. CASE req[r].serials # Keep
            BY <2>2, <3>1, <3>2 DEF Takes, Wants
        <3>3. CASE req[r].serials = Keep /\ Live(t)
            BY <3>1, <3>3 DEF Takes
        <3>4. CASE req[r].serials = Keep /\ ~Live(t)
            <4>1. task[t].status = "CANCELLED"
                BY <3>1, <3>4, TaskFields DEF Live, SameTask
            <4>2. task'[t].status \in LiveStatus
                BY DEF Takes, Live
            <4>3. req[r].to \in LiveStatus
                BY <3>1, <3>4, <4>2 DEF Live
            <4>4. raced' = raced \cup SerialsOf(t)
                BY <1>4, <2>2, <4>1, <4>3 DEF UpdateTaskWrite
            <4>5. k \in SerialsOf(t)
                BY <3>1 DEF Takes, SerialsOf, Key
            <4> QED BY <4>4, <4>5
        <3> QED BY <3>2, <3>3, <3>4
    <2> QED BY <2>1, <2>2
<1>5. CASE CancelTask(r)
    <2>1. CASE t # req[r].task
        BY <1>0, <1>5, <2>1, CancelsTask DEF Takes, Live
    <2>2. CASE t = req[r].task
        BY <1>0, <1>5, <2>2, CancelsTask DEF Takes, Live, LiveStatus
    <2> QED BY <2>1, <2>2
<1>6. CASE \/ UpdateWrite(r) \/ ReplaceWrite(r) \/ CancelOrder(r) \/ WaveStatus(r)
           \/ WaveReserve(r) \/ AllocateCommit(r) \/ CompleteWrite(r) \/ ReleaseReservations(r)
    BY <1>6 DEF UpdateWrite, ReplaceWrite, CancelOrder, WaveStatus, WaveReserve,
       AllocateCommit, CompleteWrite, ReleaseReservations, Takes, Live
<1> QED BY <1>1, <1>2, <1>3, <1>4, <1>5, <1>6 DEF Writes

(* A write puts a serial on one task at most, and only one its line has.   *)
LEMMA KeptWrites ==
    ASSUME TypeOK, TypeOK', Sound, Grants, SerialsAreKeptUnlessRaced, NEW r \in Req, Writes(r),
           raced \subseteq raced'
    PROVE  SerialsAreKeptUnlessRaced'
<1> SUFFICES ASSUME NEW k \in Key, k \notin raced', NEW t \in Task, Takes(t, k)'
             PROVE  /\ \A u \in Task : Takes(u, k)' => u = t
                    /\ Active(k)' = NoRow \/ ReservedFor(k, task[t].line)'
    BY DEF SerialsAreKeptUnlessRaced, OnTask, Takes
<1>0. k \notin raced
    OBVIOUS
<1>1. Wants(r, k) => Granted(r, k)
    BY <1>0 DEF Grants
<1>2. ASSUME NEW u \in Task, Takes(u, k)'
      PROVE  \/ Takes(u, k) /\ task'[u].line = task[u].line
             \/ /\ Wants(r, k) /\ u = req[r].task
                /\ req[r].at \in {"create", "ship", "updateTask"}
                /\ req[r].at = "create" => task'[u].line = req[r].row.line
                /\ req[r].at # "create" => task'[u].line = task[u].line
    BY <1>2, TakesWrites
<1>3. ASSUME NEW u \in Task, Takes(u, k)
      PROVE  /\ \A v \in Task : Takes(v, k) => v = u
             /\ Active(k) = NoRow \/ ReservedFor(k, task[u].line)
    BY <1>0, <1>3, KeptMeans
<1>4. ASSUME NEW u \in Task, Takes(u, k)'
      PROVE  u = t
    <2>1. CASE Takes(t, k) /\ Takes(u, k)
        BY <1>3, <2>1
    <2>2. CASE Wants(r, k) /\ Takes(t, k) /\ u = req[r].task
        BY <1>1, <2>2 DEF Granted
    <2>3. CASE Wants(r, k) /\ Takes(u, k) /\ t = req[r].task
        BY <1>1, <2>3 DEF Granted
    <2>4. CASE t = req[r].task /\ u = req[r].task
        BY <2>4
    <2> QED BY <1>2, <1>4, <2>1, <2>2, <2>3, <2>4
<1>5. Active(k)' = NoRow \/ ReservedFor(k, task[t].line)'
    <2>1. ResvMoves(r, k)
        BY ResvWrites
    <2> SUFFICES ASSUME resv'[k]["ACTIVE"] # NoRow
                 PROVE  resv'[k]["ACTIVE"].line = task'[t].line
        BY DEF Active, ReservedFor
    <2>2. \/ Active(k) # NoRow /\ resv'[k]["ACTIVE"].line = Active(k).line
          \/ (WaveReserve(r) \/ AllocateCommit(r)) /\ k \in req[r].pick
          \/ AllocateCommit(r) /\ ~Taken(k, req[r].freed)
        BY <2>1 DEF ResvMoves
    <2>3. CASE Active(k) # NoRow /\ resv'[k]["ACTIVE"].line = Active(k).line
        BY <1>1, <1>2, <1>3, <2>3 DEF Granted, ReservedFor
    <2>4. CASE (WaveReserve(r) \/ AllocateCommit(r)) /\ k \in req[r].pick
        <3>1. req[r].at \in {"reserve", "allocate"}
            BY <2>4 DEF WaveReserve, AllocateCommit
        <3>2. Wants(r, k)
            BY <2>4, <3>1 DEF Wants
        <3> QED BY <1>1, <1>2, <3>1, <3>2 DEF Granted
    <2>5. CASE AllocateCommit(r) /\ ~Taken(k, req[r].freed)
        <3>1. req[r].at = "allocate" /\ \A u \in Task : ~Takes(u, k)
            BY <2>5, OnTaskMeans DEF AllocateCommit, Taken
        <3> QED BY <1>2, <3>1
    <2> QED BY <2>2, <2>3, <2>4, <2>5
<1> QED BY <1>4, <1>5

(* What a write of one request leaves to another: on the serials the other *)
(* decides on, tasks lose and reservations end.                            *)
LEMMA OthersSerials ==
    ASSUME TypeOK, TypeOK', Sound, NEW r \in Req, Writes(r), NEW k \in Key, k \notin raced',
           k \notin Decides(req[r])
    PROVE  /\ \A t \in Task : Takes(t, k)' => Takes(t, k)
           /\ \/ resv'[k]["ACTIVE"] = NoRow
              \/ Active(k) # NoRow /\ resv'[k]["ACTIVE"].line = Active(k).line
           /\ \A t \in Task : task[t] # NoTask /\ task[t].line[2] = k[1] =>
                  task'[t].line = task[t].line /\ task'[t].serials = task[t].serials
<1>1. ~Wants(r, k)
    BY WantsDecides
<1>2. \A t \in Task : Takes(t, k)' => Takes(t, k)
    BY <1>1, TakesWrites
<1>3. \/ resv'[k]["ACTIVE"] = NoRow
      \/ Active(k) # NoRow /\ resv'[k]["ACTIVE"].line = Active(k).line
    <2>1. ResvMoves(r, k)
        BY ResvWrites
    <2>2. WaveReserve(r) \/ AllocateCommit(r) => k \in Decides(req[r])
        BY ReqAt DEF WaveReserve, AllocateCommit, Decides
    <2> QED BY <2>1, <2>2 DEF ResvMoves
<1>4. ASSUME NEW t \in Task, task[t] # NoTask, task[t].line[2] = k[1]
      PROVE  task'[t].line = task[t].line /\ task'[t].serials = task[t].serials
    <2>0. HasTask(r) /\ HasRow(r) /\ SameTask(t)
        BY <1>4, DoneStays, SoundAt
    <2>1. k \in SerialsOf(t)
        BY <1>4 DEF SerialsOf, Key
    <2>2. ASSUME req[r].at \in OnTasks PROVE t # req[r].task
        <3>1. req[r] # Idle
            BY <2>2, ReqAt DEF OnTasks
        <3> QED BY <2>1, <2>2, <3>1 DEF Decides, OnTasks
    <2>3. CASE CancelTasks(r)
        BY <2>3, CancelsTasks DEF SameTask
    <2>4. CASE CreateCommit(r)
        BY <1>4, <2>0, <2>4, CreatesTask DEF HasRow
    <2>5. CASE CompleteCommit(r)
        BY <2>0, <2>2, <2>5, CompletesTask DEF OnTasks
    <2>6. CASE UpdateTaskWrite(r)
        BY <2>0, <2>2, <2>6, UpdatesTask DEF OnTasks
    <2>7. CASE CancelTask(r)
        BY <2>0, <2>2, <2>7, CancelsTask DEF OnTasks
    <2>8. CASE \/ UpdateWrite(r) \/ ReplaceWrite(r) \/ CancelOrder(r) \/ WaveStatus(r)
               \/ WaveReserve(r) \/ AllocateCommit(r) \/ CompleteWrite(r)
               \/ ReleaseReservations(r)
        BY <2>8 DEF UpdateWrite, ReplaceWrite, CancelOrder, WaveStatus, WaveReserve,
           AllocateCommit, CompleteWrite, ReleaseReservations
    <2> QED BY <2>3, <2>4, <2>5, <2>6, <2>7, <2>8 DEF Writes
<1> QED BY <1>2, <1>3, <1>4

(* A request that goes on with tasks and reservations as they were.        *)
LEMMA GrantedOn ==
    ASSUME task' = task, resv' = resv, NEW s \in Req, NEW k, Granted(s, k),
           req'[s].at \in {"create", "reserve", "allocate", "complete", "ship", "updateTask"},
           \/ req'[s].at = req[s].at
           \/ req[s].at = "complete" /\ req'[s].at = "ship",
           req[s].at \in {"complete", "ship", "updateTask"} => req'[s].task = req[s].task,
           req[s].at = "create" => req'[s].row = req[s].row
    PROVE  Granted(s, k)'
<1>1. \A t \in Task : Takes(t, k)' <=> Takes(t, k)
    BY DEF Takes, Live
<1>2. Active(k)' = Active(k)
    BY DEF Active
<1> QED BY <1>1, <1>2 DEF Granted, ReservedFor

LEMMA GrantsResumed ==
    ASSUME TypeOK, Grants, NEW s \in Req, Resumed(s), raced \subseteq raced',
           NEW k \in Key, k \notin raced', Wants(s, k)'
    PROVE  Granted(s, k)'
<1>0. k \notin raced
    OBVIOUS
<1>1. CASE req'[s].at \in {"cancelTasks", "cancelOrder", "release"}
    BY <1>1 DEF Wants
<1>2. CASE /\ WaveStatus(s) /\ req[s].at = "wave" /\ req'[s].at = "reserve"
           /\ req'[s].pick \in Picks(req[s].order, {})
    <2>1. task' = task /\ k \in req'[s].pick
        BY <1>2 DEF WaveStatus, Wants
    <2>2. \A t \in Task : ~Takes(t, k)
        BY <1>2, <2>1, PicksFree
    <2>3. \A t \in Task : ~Takes(t, k)'
        BY <2>1, <2>2 DEF Takes, Live
    <2> QED BY <1>2, <2>3 DEF Granted
<1>3. CASE /\ CompleteWrite(s) /\ req[s].at = "complete" /\ req'[s].at = "ship"
           /\ req'[s].task = req[s].task /\ req'[s].serials = req[s].serials
    <2>1. task' = task /\ resv' = resv
        BY <1>3 DEF CompleteWrite
    <2>2. Wants(s, k)
        BY <1>3, <2>1 DEF Wants
    <2>3. Granted(s, k)
        BY <1>0, <2>2 DEF Grants
    <2> QED BY <1>3, <2>1, <2>3, GrantedOn
<1>4. CASE /\ \E r \in Req \ {s} : ReplaceWrite(r) /\ Losing(s, req[r].order)
           /\ req'[s].at = req[s].at /\ req[s].at \in {"reserve", "create", "allocate"}
           /\ req[s].at = "reserve" => req'[s].pick = req[s].pick
           /\ req[s].at = "create" => req'[s].row = req[s].row
           /\ req[s].at = "allocate" => req'[s].pick = req[s].pick
    <2>1. task' = task /\ resv' = resv
        BY <1>4 DEF ReplaceWrite
    <2>2. Wants(s, k)
        BY <1>4 DEF Wants
    <2>3. Granted(s, k)
        BY <1>0, <2>2 DEF Grants
    <2> QED BY <1>4, <2>1, <2>3, GrantedOn
<1> QED BY <1>1, <1>2, <1>3, <1>4 DEF Resumed

(* The same request, while another one writes.                             *)
LEMMA GrantsWait ==
    ASSUME TypeOK, TypeOK', Sound, Alone, Grants, NEW r \in Req, Writes(r), NEW s \in Req, r # s,
           req'[s] = req[s], raced \subseteq raced',
           NEW k \in Key, k \notin raced', Wants(s, k)'
    PROVE  Granted(s, k)'
<1>0. k \notin raced
    OBVIOUS
<1>1. ASSUME req[s].at \in {"complete", "ship", "updateTask"}
      PROVE  /\ req[s].task \in Task /\ task[req[s].task] # NoTask
             /\ task'[req[s].task].line = task[req[s].task].line
    <2>1. req[s].task \in Task /\ task[req[s].task] # NoTask
        BY <1>1, SoundAt, ReqAt DEF HasTask, OnTasks
    <2> QED BY <2>1, DoneStays DEF SameTask
<1>2. k \in Decides(req[s])
    <2>1. k = <<k[1], k[2]>> /\ k[1] \in Product /\ k[2] \in Serial
        BY DEF Key
    <2>2. req[s] # Idle
        BY KindAt DEF Wants
    <2>3. CASE req[s].at = "create"
        BY <2>1, <2>2, <2>3 DEF Wants, Decides
    <2>4. CASE req[s].at \in {"complete", "ship", "updateTask"}
        <3>1. k[1] = task[req[s].task].line[2]
            BY <1>1, <2>4 DEF Wants
        <3>2. k \in SerialsOf(req[s].task)
            BY <2>1, <3>1 DEF SerialsOf
        <3> QED BY <2>2, <2>4, <3>2 DEF Decides
    <2>5. CASE req[s].at \in {"reserve", "allocate"}
        BY <2>2, <2>5 DEF Decides
    <2> QED BY <2>3, <2>4, <2>5 DEF Wants
<1>3. k \notin Decides(req[r])
    BY <1>0, <1>2, AloneAt
<1>4. /\ \A t \in Task : Takes(t, k)' => Takes(t, k)
      /\ \/ resv'[k]["ACTIVE"] = NoRow
         \/ Active(k) # NoRow /\ resv'[k]["ACTIVE"].line = Active(k).line
      /\ \A t \in Task : task[t] # NoTask /\ task[t].line[2] = k[1] =>
             task'[t].line = task[t].line /\ task'[t].serials = task[t].serials
    BY <1>3, OthersSerials
<1>5. Wants(s, k)
    BY <1>1, <1>4 DEF Wants
<1>6. Granted(s, k)
    BY <1>0, <1>5 DEF Grants
<1> QED BY <1>1, <1>4, <1>6 DEF Granted, Active, ReservedFor

(* A request that starts has found what it wants free.                     *)
LEMMA GrantsStart ==
    ASSUME TypeOK, NEW r \in Req, NEW q, Start(r, q), Checked(r, q), NEW k \in Key, Wants(r, k)'
    PROVE  Granted(r, k)'
<1>0. req'[r] = q /\ task' = task /\ resv' = resv
    BY Starts
<1>1. (\A t \in Task : Takes(t, k)' <=> Takes(t, k)) /\ Active(k)' = Active(k)
      /\ k = <<k[1], k[2]>>
    BY <1>0 DEF Takes, Live, Active, Key
<1>2. CASE q.at = "create" /\ k[1] = q.row.line[2] /\ k[2] \in q.row.serials
    <2>1. /\ ~OnTask(k, {})
          /\ Active(k) # NoRow => Active(k).line = q.row.line
        BY <1>1, <1>2 DEF Checked, Reservable
    <2>2. \A t \in Task : ~Takes(t, k)
        BY <2>1, OnTaskMeans
    <2> QED BY <1>0, <1>1, <1>2, <2>1, <2>2 DEF Granted, ReservedFor
<1>3. CASE /\ q.at = "complete" /\ k[1] = task[q.task].line[2]
           /\ k[2] \in IF q.serials = {} THEN task[q.task].serials ELSE q.serials
    <2>1. k[2] \in q.serials
        BY <1>3 DEF Checked
    <2>2. /\ ~OnTask(k, {q.task})
          /\ Active(k) # NoRow => Active(k).line = task[q.task].line
        BY <1>1, <1>3, <2>1 DEF Checked, Reservable
    <2>3. \A t \in Task : Takes(t, k) => t = q.task
        BY <2>2, OnTaskMeans
    <2> QED BY <1>0, <1>1, <1>3, <2>2, <2>3 DEF Granted, ReservedFor
<1>4. CASE /\ q.at = "updateTask" /\ q.serials # Keep /\ k[1] = task[q.task].line[2]
           /\ k[2] \in q.serials
    <2>1. ~OnTask(k, {q.task}) /\ Active(k) = NoRow
        BY <1>1, <1>4 DEF Checked, Reservable
    <2>2. \A t \in Task : Takes(t, k) => t = q.task
        BY <2>1, OnTaskMeans
    <2> QED BY <1>0, <1>1, <1>4, <2>1, <2>2 DEF Granted
<1>5. CASE q.at = "allocate" /\ k \in q.pick
    <2>1. \A t \in Task : ~Takes(t, k)
        BY <1>5, PicksFree DEF Checked
    <2> QED BY <1>0, <1>1, <1>5, <2>1 DEF Granted
<1> QED BY <1>0, <1>2, <1>3, <1>4, <1>5 DEF Wants, Checked

LEMMA GrantsStep ==
    ASSUME TypeOK, TypeOK', Sound, Alone, Grants, [Next]_vars
    PROVE  Grants'
<1>0. Founded /\ raced \subseteq raced'
    BY RacedStays DEF Sound
<1> SUFFICES ASSUME NEW s \in Req, NEW k \in Key, k \notin raced', Wants(s, k)'
             PROVE  Granted(s, k)'
    BY DEF Grants
<1>1. req'[s] # Idle
    BY KindAt DEF Wants
<1>2. ASSUME NEW r \in Req, Writes(r)
      PROVE  Granted(s, k)'
    <2>1. CASE Resumed(s)
        BY <1>0, <2>1, GrantsResumed
    <2>2. CASE req'[s] = req[s]
        <3>1. r # s
            BY <1>2, <2>2, Moving
        <3> QED BY <1>0, <1>2, <2>2, <3>1, GrantsWait
    <2> QED BY <1>1, <1>2, <2>1, <2>2, WritesMove DEF ReqMoves
<1>3. ASSUME task' = task, resv' = resv, req'[s] = req[s]
      PROVE  Granted(s, k)'
    <2>1. Wants(s, k)
        BY <1>3 DEF Wants
    <2>2. Granted(s, k)
        BY <1>0, <2>1 DEF Grants
    <2>3. req[s].at \in {"create", "reserve", "allocate", "complete", "ship", "updateTask"}
        BY <2>1 DEF Wants
    <2> QED BY <1>3, <2>2, <2>3, GrantedOn
<1>4. ASSUME NEW r \in Req, NEW q, Start(r, q), Checked(r, q)
      PROVE  Granted(s, k)'
    <2>1. CASE s = r
        BY <1>4, <2>1, GrantsStart
    <2>2. CASE s # r
        BY <1>3, <1>4, <2>2, Starts
    <2> QED BY <2>1, <2>2
<1>5. ASSUME NEW r \in Req, Fail(r) PROVE Granted(s, k)'
    BY <1>1, <1>3, <1>5, Finishes DEF Fail
<1>6. ASSUME NEW o \in Order, CreateSalesOrder(o) PROVE Granted(s, k)'
    BY <1>3, <1>6 DEF CreateSalesOrder
<1>7. ASSUME UNCHANGED vars PROVE Granted(s, k)'
    BY <1>3, <1>7 DEF vars
<1> QED BY <1>0, <1>2, <1>4, <1>5, <1>6, <1>7, OrderReads, TaskReads DEF Next

LEMMA KeptStep ==
    ASSUME TypeOK, TypeOK', Sound, Grants, SerialsAreKeptUnlessRaced, [Next]_vars
    PROVE  SerialsAreKeptUnlessRaced'
<1>0. Founded /\ raced \subseteq raced'
    BY RacedStays DEF Sound
<1>1. ASSUME NEW r \in Req, Writes(r) PROVE SerialsAreKeptUnlessRaced'
    BY <1>0, <1>1, KeptWrites
<1>2. ASSUME task' = task, resv' = resv PROVE SerialsAreKeptUnlessRaced'
    BY <1>0, <1>2 DEF SerialsAreKeptUnlessRaced, Live, OnTask, Active, ReservedFor
<1>3. ASSUME NEW r \in Req, NEW q, Start(r, q) PROVE SerialsAreKeptUnlessRaced'
    BY <1>2, <1>3, Starts
<1>4. ASSUME NEW r \in Req, Fail(r) PROVE SerialsAreKeptUnlessRaced'
    BY <1>2, <1>4 DEF Fail
<1>5. ASSUME NEW o \in Order, CreateSalesOrder(o) PROVE SerialsAreKeptUnlessRaced'
    BY <1>2, <1>5 DEF CreateSalesOrder
<1>6. ASSUME UNCHANGED vars PROVE SerialsAreKeptUnlessRaced'
    BY <1>2, <1>6 DEF vars
<1> QED BY <1>0, <1>1, <1>3, <1>4, <1>5, <1>6, OrderReads, TaskReads DEF Next

(* A serial is on one live task at most, and reserved for no line but that *)
(* task's (assertReservableProductSerials), through tasks, completions,    *)
(* waves, allocations, updates and releases, unless a check of it was      *)
(* overtaken or a cancelled task with it was reopened.                     *)
THEOREM SerialsAreKept == Spec => []SerialsAreKeptUnlessRaced
<1>1. TypeOK /\ TypeOK' /\ Sound /\ Alone /\ Grants /\ [Next]_vars => Grants'
    BY GrantsStep
<1>2. /\ TypeOK /\ TypeOK' /\ Sound /\ Grants /\ SerialsAreKeptUnlessRaced /\ [Next]_vars
      => SerialsAreKeptUnlessRaced'
    BY KeptStep
<1>3. Init => Grants
    BY KindAt DEF Init, Grants, Wants
<1>4. Init => SerialsAreKeptUnlessRaced
    <2>1. NoTask.status \notin LiveStatus
        BY DEF NoTask, LiveStatus
    <2> QED BY <2>1 DEF Init, SerialsAreKeptUnlessRaced, Live
<1> QED BY <1>1, <1>2, <1>3, <1>4, AlwaysAlone, AlwaysSound, PTL DEF Spec
=============================================================================
