# WMS backend in TLA+

Specifications of the warehouse management backend under `src/` (NestJS,
Prisma, PostgreSQL): what its handlers do to the shared rows when requests
overlap, fail, are repeated or are cut off by a crash; what stays true, and what
does not.

The repository has no tests; its promises are in validation messages, DTO
descriptions, comments and the schema. Paths below are relative to `src/src/`.

## 1. The system

A tenant's data is a PostgreSQL schema; every handler is an HTTP request served
by a stateless process through a Prisma client. All coordination between
requests is in the database (provisioning adds a queue in the memory of the
process), so these assumptions run through every module:

* `$transaction(fn)` and single statements run at PostgreSQL's default, READ
  COMMITTED. A read returns rows committed at that moment and locks nothing; an
  increment is atomic; a write by id replaces what is there, and holds the row
  until its transaction ends; a statement outside a transaction commits alone.
* `$transaction([...])` on a tenant is *not* a transaction:
  `prisma/tenant-prisma.extension.ts` sends each call of the array to the
  tenant's own client, so the calls commit one by one, in any order, and one that
  fails takes nothing back. An interactive `$transaction(fn)` is atomic: the
  override hands `fn` a transaction of the tenant's client.
* A request may end at any point: failed check, unique conflict, transaction
  timeout, lost connection, crash. What it committed stays.
* There are no CHECK constraints: a number may go wrong without an error.

| Component | State | Operations that change it | Hard part | Module |
|---|---|---|---|---|
| inbound (`modules/inbound`) | ASNs, lines, receipts, stock balances, dwell bills | create/update/cancel ASN, replace lines, receive, release from customs | read-check-write of status, line quantity, serials and clearance; completion judged on a re-read | Receiving, CustomsRelease |
| import-consignment | consignments, ASN bindings, manifest reviews | create, update, updateManifestReview | gate data read by a release while it changes; generated numbers; rebinding by delete and insert | CustomsRelease |
| process-flow | transfers, transformations, draft bills | create and complete of both, postDraftProcessFlowBilling | unlocked stock check, double completion, opposite row lock order, partial failure | StockMoves |
| customs availability (`common/inventory`) | none (sums held receipts) | - | stale when used | StockMoves |
| outbound | sales orders, lines, waves, tasks, allocations, serial reservations | create/update/cancel, replace lines, wave, allocate, reallocate, create/complete/update/cancel task | absolute `qtyDone` against incremented line quantities, status written back as read, uniqueness of serials by status | Outbound |
| provisioning, sign-up, platform tenants | in-memory queue, tenant status, job rows, schema | createAndEnqueue, retry, drain, pipeline, message handler, suspend, reactivate | a crash loses the queue, retry over half a migration, redelivery, suspension while it runs | Provisioning |
| tenant context, auth | none | resolution of a request's tenant, guards, user scope | which schema a request is served from | TenantContext, Records |
| master-data | customers, companies, warehouses, areas, zones, bins, units, products, suppliers, conversions, balances | CRUD, assignments, upsertInventoryBalance | checks against rows that move; several statements without a transaction | Places, Catalogue, StockMoves, CustomsRelease |
| access-management, platform users | users, roles, menus, platform accounts | CRUD, assignments | array transactions, scope widened by those who hold it | AccessControl |
| billing | contracts, rates, transactions | CRUD, soft delete, summaries | two spellings of a month, a summary in two reads | Billing |
| kpi, messaging, storage, upload, redis, health | none of their own | - | I/O | - |

Interactions: inbound, process-flow, outbound and master-data share
`inventory_balances`; inbound and import-consignment share the clearance of
receipts and the warehouse flags; process-flow and outbound subtract the held
quantity of receipts; platform and provisioning write the same tenant row, which
the tenant context reads for every request; everything refers to master data.

What makes each component correct:

* inbound: stock is what was received; a line does not record more than it
  expects; a completed ASN is final; a receipt keeps its line; a serial is booked once.
* customs: a release passes an open gate; dwell is billed once and only for what
  was cleared; an ASN is bound to a reviewed consignment.
* process-flow: stock is moved, not made; held stock stays; a draft is completed
  and billed once; every completion ends.
* outbound: lines, tasks, allocations, bills and the order's status agree; a serial
  on a live task is nobody else's; a shipped order stays shipped.
* provisioning: who is served has been seeded; who waits is worked on or is shown
  a failure; who is suspended stays so.
* rows: references of one owner or one warehouse stay so; a scope cannot widen
  itself; a summary counts everything.

## 2. Modules

    AsnLifecycle     what inbound promises, one request per step
    Receiving        the inbound handlers; implements AsnLifecycle
    CustomsRelease   clearance, import consignments and the release gate
    StockMoves       transfers, transformations, receipts, settings, clearance
    Outbound         sales orders, tasks, allocations, serial reservations
    TenantContext    which tenant a request is served for (operators only)
    Provisioning     EXTENDS TenantContext: sign-up, queue, pipeline, messages
    Records          rows that refer to each other; requests as scripts
    Places, Catalogue, AccessControl, Billing
                     EXTEND Records: one action per handler
    MasterData       composes the four over one database
    Sums             lemmas about sums over finite sets
    ReceivingProofs, ReceivingRefinement, CustomsReleaseProofs,
    StockMovesProofs, OutboundProofs, ProvisioningProofs,
    MasterDataProofs                                             theorems
    MC...            symmetry, and sets a .cfg cannot write

Common form: `Req` is a set of request slots. A handler is cut into a *read*
(its checks, with what it read stored in `req[r]`), where needed actions inside
its transaction, and a *commit*. `Abort`/`Fail` drops a request at any point.
What only the handler itself could see between two statements is one step.
`raced` is a history variable: it collects what two requests in flight were using
together; no action reads it, the bound `MaxRaced` of Outbound aside. Properties named
`...UnlessRaced` are what the code guarantees where requests on the same thing do not overlap; the
excluded cases are real (section 5). Checks whose outcome no property
distinguishes (master data exists and is active, user scope, outside the Records
family) are aborts.

### Receiving (`modules/inbound/inbound.service.ts`)

| Code | Model |
|---|---|
| `inbound_asns.status` | `status`, `"ABSENT"` before the row exists |
| `inbound_asn_items` | `items[a][p]`: expected, received, and `gen`, the identity of the row: `updateAsnItems` replaces rows, so an id read before names nothing afterwards |
| `inbound_receipts`, `inventory_balances` | `receipts`, `balance` |
| `createAsn` | `CreateAsn` (one nested create) |
| `updateAsn`, `softDeleteAsn` | `UpdateRead`/`UpdateWrite`, `CancelRead`/`CancelWrite`: the status is written by id on a check made before |
| `updateAsnItems` | `ItemsCheck` outside the transaction, `ItemsDelete` (the statement's snapshot), `ItemsCommit` |
| `receiveItem` | `ReceiveRead` (reads and checks), `ReceiveWrite` (balance, absolute received quantity, re-read of the lines), `ReceiveCommit` |

Quantities are in the base unit. A line is named by its product (the unique
index is on ASN, product and supplier). Expected quantities may be zero or
negative: the DTO has no minimum. Dwell, customs hold and bill of a receipt are
in CustomsRelease. A serial number is looked up in three places (:500-518):
receipts, outputs of transformations and outbound tasks. The first are `receipts`,
the other two the set `outside`, to which `UseOutside` adds at any time.

`AsnLifecycle` has one step per whole request: `Create`, `Replace`, `Book`,
`SetStatus`. `Receiving!ImplementsLifecycle` maps `left` to expected minus
received; an ASN on which requests overlapped maps to the state `"RACED"`, about
which the abstract specification promises nothing. So it states exactly how far
the handlers are serialisable: per ASN, whatever runs on the others.

### CustomsRelease (`modules/import-consignment`, `releaseInboundReceiptCustoms`)

One warehouse and one customer, numbers of one day. `hub` and `gate` are the two
warehouse flags, `link` the binding of an ASN (unique), `review` the manifest
review of a consignment, `no` the *n* of its number `IC-<today>-n`. A caller may name
any number: one of that form (`PickedNo`), one that only begins like it (`OtherForm`,
which the generator counts and never makes) or another (0). `named` is a history
variable: the consignments whose number a caller gave. `ReleaseRead`, `ReleaseFlags`, `ReleaseLink`,
`ReleaseReview` are the separate queries of the release and of
`assertCustomsReleaseAllowedForReceipt`, `ReleaseCommit` its transaction. A
create or update checks first (`CreateCheck`, `UpdateCheck`) and writes in a
transaction that a unique index may refuse. `stale` is a history variable: the
requests under which the gate's data changed. Whether a release yields a bill
(dwell above zero) is a free choice. Documents and the AWB fields are read back
by no handler and are left out.

### StockMoves (`modules/process-flow`, `common/inventory`, `upsertInventoryBalance`)

A transfer or transformation is a *script* of takes and puts, in the order the
code runs them: a transfer line by line (take, put), a transformation all inputs
and then the output. A completion is one transaction. A take is up to four
statements, as in the code: `ReadBalance`, `ReadHub` (the hub flag of the bin's
warehouse), `Check` (the held receipts, summed only at a hub, and the comparison) and
`Take`, which re-checks nothing and decrements. `Put` increments,
`CompleteCommit` publishes the changes with status and draft bill. A transaction
sees its own writes (`own`) and holds the rows it wrote (`rows`); `Writes` waits
for a row another holds; `Victim` is PostgreSQL's deadlock detection. `Land`,
`Clear`, `SetBalance` and `SetHub` are the steps of the other components on the same
rows; the first two are modelled in detail in Receiving and CustomsRelease.
`SetHub` is `updateWarehouse`, which switches the flag whatever is held: while it is
off, the code counts no hold. `lifted` is a history variable, the cells from which a
move took by such a check; `adjusted` is what settings added.
Unit conversion is left out, so is the choice of bins, whose checks are `Fail`.

### Outbound (`modules/outbound/outbound.service.ts`)

One customer in one warehouse.

| Code | Model |
|---|---|
| `sales_orders.status`, `sales_order_items` | `status`, `line` (ordered, and worked per type of task) |
| `outbound_tasks` with serials in a JSON column | `task` |
| `outbound_allocations` | `alloc[line][bin]` |
| `outbound_serial_reservations`, unique by status | `resv[key][status]`: one row per status a serial can be in |
| `updateSalesOrder`, `updateSalesOrderItems` | `UpdateRead`/`UpdateWrite`, `ReplaceRead`/`ReplaceWrite` |
| `softDeleteSalesOrder` | `CancelRead`, then `CancelTasks` and `CancelOrder` in either order (`Then`): for a tenant the array is no transaction, and a failure leaves one without the other |
| `createWave` | `WaveRead`, `WaveStatus`, `WaveReserve` |
| `allocateSalesOrderInternal`, allocate and reallocate | `AllocateRead`, `AllocateCommit` |
| `createTask`, `completeTask` | `CreateRead`/`CreateCommit`; `CompleteRead`, `CompleteWrite`, `CompleteCommit` |
| `updateTask`, `softDeleteTask` | `UpdateTaskRead`/`UpdateTaskWrite`; `CancelTaskRead`, `CancelTask`, `ReleaseReservations` |

`AllocateCommit` writes the order's status also when its lines were replaced meanwhile;
it is refused only if it would insert an allocation of a line that is gone (foreign key). With
`OnHand = {1}` there is always one to insert; the theorems cover every `OnHand`.

`onHand` is what a bin holds beyond the customs hold and does not change: the
service never decrements a balance. The wave's planning time and the event log
are data no handler reads back.

### TenantContext and Provisioning

`Resolve(request, status)` is `resolveForRequest` with the middleware and the
tenant check of the token: token, header, body, host and default in this order,
then the tenant's status. `Served(t)` is what it answers to the tenant's own
token, and is what the properties of Provisioning are stated with.

Provisioning is the tenant's way from sign-up to being served. `SignUp`,
`CreateTenant`, `Subscribe`, `EnqueueTenant` are the statements of
`createAndEnqueue`; `run[Worker]` is the drain loop, `run[h]` a handler of the
message `wms.tenant.provision`; `CreateJob` to `SetTrial` are the awaits of
`runProvisionPipeline`. `Migrate` and `SeedTenant` are one step each: Flyway and
the seed are child processes the server waits for. `schema` is `"partial"` after
a migration that stopped half way; a later run finds the history table and does
not migrate again (`HistoryExists`). `job[t]` is the latest job row and `by` the
run that owns it: a run whose row a later one replaced can fail without a trace.
So can one whose first two statements fail (`BeginFails`: they stand before the `try`),
and one whose FAILED update fails in the `catch` (`Unsaid`): the drain loop only logs.
`Down` loses queue, runs and requests; `Shutdown` is `onModuleDestroy`, during
which the loop still drains. Nothing in `src/` publishes the message, so `Publish` is the
environment; it is never acknowledged, so `Down` brings it back. Platform users
suspend, reactivate (in two statements) and retry at any time. `MigrateAll` is
`flyway-migrate-all-tenants.cjs` on one tenant, which makes a schema that is missing.

### Records, Places, Catalogue, AccessControl, Billing, MasterData

`Records` has the tables (`db.rows`, `db.links` and the links switched on), the
foreign keys with what a delete clears or takes along, and the requests: a
handler is a *script* of checks and statements, run one at a time (`Check`,
`Write`, and `WriteOne` for a statement of an array transaction). The other four
modules give one script per handler, in the order of the code, with
the scope checks of `JwtStrategy` and `assertUserAllowed...` where the handler
makes them. Abstractions of this family, each named where it is made:

* `Present`/`Fresh`: requests name rows that are there and codes not yet taken.
  Others are refused by the first read or by a unique index and change nothing.
* A check of rows that no request of the behaviour changes comes out the same at
  any time and is made in `Begin` (`Settled`). `Fail` is taken only after something was
  written or when a statement is refused: a request that ends before it wrote is
  as good as none.
* Updates of warehouses and transactions give one field at a time
  (`WarehouseDto`, `TransactionDto`). The mark of a soft delete is a reference type, which a
  caller may name himself when he creates or updates a transaction. Explicit nulls, names,
  contacts and amounts are left out; a summary counts lines.
* `raced` (of a request) says that another one committed while it was in flight.

## 3. What TLC checks

Two request slots unless said otherwise: each promise relates what one request
checked to what one other wrote. Bounds of depth are the number of
receipts, tasks' quantities, retries and so on, each named `Max...`.

| Run | Bounds | Question |
|---|---|---|
| ReceivingOne | 1 ASN, 2 products, 1 bin, 1 serial that others may use too, expected {0,2}, received {0,1,2}, 2 receipts, lines written twice | what any interleaving on one ASN keeps, what holds where nothing overlapped, refinement of AsnLifecycle. Two products: completion depends on a line another receive changes. Expected 2: partial and full receipts; 0: complete without a receipt |
| CustomsRelease | 1 receipt of 1 ASN, 2 consignments, 2 review statuses (one opens the gate, one shuts it), callers may name number 2 | gate, billing, bindings and numbers while flags, reviews and bindings change |
| StockMoves | 1 transfer, 1 transformation, up to 2 lines or inputs, 2 bins of one warehouse that becomes a hub and stops being one, 1 receipt, operators set 0 | stock accounting, hold, double completion, with balances and the hub flag written in flight. Two lines: a later statement sees an earlier one of its transaction |
| StockEnds | 2 transfers of one line over 2 bins, both directions, operators set 1 | liveness, with fairness, without symmetry |
| OutboundTasks | 1 order of 2 lines, 2 tasks completed in parts of a quantity of 2, 1 bin | what tasks, lines, allocations, bills and the order agree on |
| OutboundSerials | 2 orders that want one serial, 2 tasks, one request at a time | the life of a serial over waves, allocations, tasks, cancellations, new plans, one request after the other. Overlaps on *other* orders and serials are covered by the theorem only |
| Provisioning | 1 tenant, 2 requests, the loop and one message handler, 1 retry, 1 message, 1 end of the process | who is served and who waits; liveness, with fairness. Two runs and two requests make every overlap on one tenant; tenants share only the loop |
| MasterData | 13 groups of one or two tables (`Pairs`), 1 or 2 rows each, 3 requests, 2 at a time | what requests over tables that refer to each other keep. Each check relates a row to one it refers to: the groups are these pairs, the other tables are as seeded |
| ReceivingOver, OutboundFinal, ProvisioningSuspended, MasterDataConversions | small | violated (section 5) |

Several ASNs are not in a run: that an overlap on one disturbs no other, and that
serials are looked up on all, is proved for any number of them (`ReceivingProofs`).

`MaxRaced` in Outbound: once something is raced, requests follow one another,
which keeps the aftermath of an overlap and leaves out overlaps upon overlaps.
In MasterData a behaviour ends after its requests, so deadlock is not
checked there; nor is it in its violation run.

Properties worth a word:

* `BalanceIsLanded`, `StockIsAccounted`: unconditional. Balance writes are
  atomic increments in the transaction that inserts the receipt or the bill,
  so no overlap loses stock, even where other promises break. `StockIsAccounted`
  accounts for every cell by receipts, settings and *billed* moves; a double
  completion therefore shows as a double bill, not as an unexplained balance.
* `RowWithinExpected`: unconditional too, and subtle: lost updates of
  `qtyReceivedBase` only ever make the line claim less.
* `FullyReceivedIsCompleted`, `CompletedIsFinalUnlessRaced`: status and lines agree.
* `GateHoldsUnlessStale`: whoever has passed the gate is still entitled, unless
  its data changed underneath.
* `LinkedIsReviewed`: the branch 'Manifest review tidak ditemukan' is dead code.
* `OnlyNamedIsAhead`: a generated number is the count of the day's plus one. When it is
  taken, a caller had named it, or another number ahead of the count; neither the generator's own
  numbers nor numbers of another form that it counts ever get in its way. A create
  that names no number can still be refused for one made meanwhile by another.
* `HoldIsKeptUnlessRaced`: held stock stays, but for what moves took while the hub flag was
  off; those keep the balance from falling below zero. Switching the flag does
  nothing else, whatever is in flight.
* `CompletionsEnd`: needs `Victim`; without it two opposite transfers wait for
  each other for ever.
* `LineIsWorkedUnlessRaced`, `ShippedWhenAllShippedUnlessRaced`: completions write the task's
  quantity as computed, increment the line's, and judge the order on a re-read;
  the three agree over any parts, in any order, while no two on one task overlap.
* `BilledWithinDoneUnlessRaced` is an inequality: a task is billed when its last
  part completes, and then for that part only. That the rest is never billed is what the
  code does; nothing in the repository says otherwise.
* `WaitingIsWorkedOnUnlessLost`, `ProvisioningEnds`: a poller sees an end, unless the
  tenant is `lost`: its sign-up failed after the tenant row was written, the process
  ended, or a run failed without writing FAILED (one of its first two statements, or the
  update of the job in the `catch`). Nothing takes up lost tenants at start; a retry does.
  The properties are that nothing else leaves a tenant waiting for nobody.
* `ServedIsSeededUnlessRevived`: reactivating a tenant that was never provisioned makes
  it TRIAL, hence served, with no schema. That is the exclusion.
* `ReachNeverGrowsUnlessRaced`: assigning customers writes several statements without a
  transaction, and none of the states in between shows more than the user had.
* `SummaryIsWholeUnlessRaced`: whichever way a month is written.

Fairness: in StockMoves, strong fairness of a completion's next step. A running
server executes the statement it is at, so the step is taken when enabled; a
wait for a row is granted in queue order, so a completion whose row becomes free
again and again is not overtaken for ever. In Provisioning, weak fairness of
each run's and each request's next step (a statement in flight is answered, with
success or an error) and of the end of a process that is shutting down. Nothing
is assumed of requests to come, of operators, of messages, of restarts or of
failures. No liveness is claimed of HTTP requests that wait for nothing.

Each property is also confronted with a plausible bug (`mutants` in
`PROJECT.json`): a dropped status check, an off-by-one quantity, a completion
judged before the write, and so on. The mutated forms are defined next to the
definition they replace.

## 4. What is proved

For every value of the constants, from the `...Assumption` of each module alone. Those
assumptions say that the bins, the jobs, the tasks and the consignments are finitely
many (rows of a table, which can be summed and counted) and that quantities are
positive, as the DTOs demand.

### Sums

Totals are `SumFunction` and `SumFunctionOnSet` of the community modules, folds
that choose the elements in some order. `Sums` proves what every argument about
them needs, for any function and any finite set: the sum is an integer (`SumInt`), does
not depend on the order (`SumRemove`, `SumAdd`), follows a change of one value
(`SumChange`), adds up (`SumPlus`) and ignores what is zero (`SumSupport`). The
recursive table behind a fold is shown to exist (`TableExists`), and induction is over the
subsets of a finite set, ordered by inclusion: `SubsetInduction` takes the *set* of
subsets for which the claim holds, not an operator, and follows from the
library's `WFMin` and `FS_StrictSubsetOrderingWellFounded`.

### ReceivingProofs

* `TypeCorrect == Spec => []TypeOK`. Not idle: `balance` and received
  quantities are naturals only because a receipt's quantity is checked positive.
* `LineNeverOverfilled == Spec => []RowWithinExpected`. `receiveItem` writes an
  absolute quantity computed from a row read earlier. That is harmless to
  the bound only if the row it hits expects what the row that was checked
  expected. The inductive invariant adds `GenIdentifiesRow`: no generation exceeds
  the last inserted one, a stale row's generation is not in the future, equal
  generation means equal expectation, and what a request holds passed the check.
* `StockIsReceipts == Spec => []BalanceIsLanded`: the sum over the receipts and the balance
  change in the same step, by the same quantity; no invariant on requests is needed,
  which is why no overlap matters. `LinesAreReceipts == Spec => []RowIsLanded` needs that a
  request on an ASN that is not raced writes over the quantity it read.
* `ReceiptsKeepLines` (`NoOrphanUnlessRaced`), `ReceivedCompletes`
  (`FullyReceivedIsCompleted`), `SerialsBookedOnce` (`SerialsUniqueUnlessRaced`) and
  `CompletedFinal` (`CompletedIsFinalUnlessRaced`). They share one argument, *isolation*
  (`Isolation`): two requests in flight use one thing only if it is raced
  (`AloneUnlessRaced`), and a request on an ASN that is not raced finds at its
  write what it read (`ChecksHoldUnlessRaced`), as every step of another request
  leaves that ASN alone (`OthersUntouched`, `Isolated`). For serials,
  `SerialsHoldUnlessRaced` says the same of what was looked up on other ASNs.

### ReceivingRefinement

`LifecycleImplemented == Spec => ImplementsLifecycle`: under the mapping of section 2,
Init maps to the initial state of `AsnLifecycle`, every write of a handler on an ASN
that is not raced to one of its steps (`CreateMaps`, `ReplaceMaps`, `BookMaps`,
`StatusMaps`), and reads and failures to a stutter or to the ASN becoming `"RACED"`
(`ReadMaps`). The steps of the map use the isolation of ReceivingProofs.

### CustomsReleaseProofs

Every invariant of the module:

* `TypeCorrect`, with `Booking` (a release in flight goes by a booked receipt),
  on which the typing of the link read rests.
* `OnceBilled`: a release alone on its receipt finds it
  held until it commits (`StillHeldUnlessRaced`), and what is held is not billed yet.
* `ReviewFound` (`LinkedIsReviewed`): updates in flight name consignments that
  exist, no status ever becomes absent again.
* `GateHolds` (`GateHoldsUnlessStale`): a release that is not stale goes by the
  link its ASN still has (`LinkedUnlessStale`), and its gate data is what it was
  (`GateStays`).
* `GeneratedNotAhead` (`OnlyNamedIsAhead`), for any `PickedNo`: `NumbersCounted`, a
  number that no caller gave, written or about to be, is not ahead of the count. The
  count only grows (`NextNoCreated`), so the number generated next is taken only if it was named.

### StockMovesProofs

Every property of the module but liveness, for scripts of any length:

* `Shape`: a completion in flight is somewhere in its job's script, and what it has changed
  (`own`) is the sum of the script's changes up to there (`Partial`); what was
  billed is a multiple of the job's quantity, the number of times it ran.
* `StockAccounted` (`StockIsAccounted`): a commit adds the whole script's net
  (`MovedByCommit`), a receipt and a setting their quantity; rollbacks add nothing.
* `CompletedOnce` (`CompletedOnceUnlessRaced`): `Once`, a job that is not raced and has a
  completion in flight is still a draft, from `Alone` (two requests in flight use the
  same job or cell only if it is raced).
* `HoldIsKept` (`HoldIsKeptUnlessRaced`): the balance a completion leaves
  behind if it commits now covers the `Floor` of the cell, which is the hold, or zero once
  a move took from it with the hub flag off (`Safe`; `CheckedStock` is the step from the check to
  it). A completion that only puts somewhere never lowers the stock there (`PutsOnly`).
* `TransferConserves` (`TransfersConserve`, an action property): a transfer's script is
  pairs of a take and a put of one product and quantity (`Paired`), so that after
  an even number of statements the changes over all bins cancel out (`Balanced`).

### OutboundProofs

Every invariant of the module and its action property:

* `TypeCorrect`, with `Sound`: what a request in flight names exists, a task about to be
  created does not, no planned change of an allocation goes below zero (two reallocations of an
  order exclude each other by their row locks, `Dropping`).
* `Alone`, as above, over orders, lines, tasks and serials; `WritesMove`, `StatusWrites`,
  `ResvWrites`, `AllocWrites`, `LineWrites`, `Away` say once what any write does to
  each of the variables, and the invariants below only cite them.
* `BilledOnce`, `LineWorked`: `Counts`, a completion that is alone on its task will write
  what the task has done and its part; for the line, `Worked`, the sum over the tasks.
* `ShippedWhenAll`, `ShippedIsFinal`: `OrdersHold`, what was checked of an order (its
  status, the transition, the task's status, and whether all lines have left) is
  still so at the write if the order is not raced.
* `AllocatedWithin`: `Within`, what the allocations of a line will be once the one in
  flight commits is within the order too.
* `SerialsAreKept`: `Grants`, the serials that a request is about to put on a task
  or to reserve are on no other task and reserved for no other line.

### ProvisioningProofs

Every invariant of the module, for any number of tenants, requests, handlers,
retries, crashes and messages:

* `TypeCorrect`, with `Quiet` (nothing is in flight while the process is down). Its
  part on the queue is the one with content: no tenant is queued while the loop rests.
* `ProvisionedSeeded`: a run past the seed has a seeded tenant (`SeededInv`), also when
  runs for one tenant overlap.
* `ServedSeeded`: `LiveInv`, with what a reactivation in flight is about to write.
* `WaitingWorkedOn`: that *some* run has the tenant is not inductive, as a run
  whose job row was replaced fails without a trace. `WaitInv`: a run is about to begin
  for the tenant (`Started`), its latest job FAILED (`Failed`), or the run
  that owns the latest job row is under way (`Owned`).

### MasterDataProofs

Every invariant and action property that the run MasterData checks, for any rows, any
number of requests in flight and in all, and any set of tables that change.
`RecordsAssumption` adds that ids of different tables differ (each table has its own
UUIDs) and that `None` and `Refused` are no ids.

* A handler is a script, so there is no step per handler to reason about. The
  argument has two halves that meet in `Script`, what a list of steps has to be:
  every handler of the four modules has a proper script (`PlaceKeeps`, `CatalogueKeeps`,
  `AccessKeeps`, `BillingKeeps`, over `GuardedScript`, `GentleScript`, `TamedScript`,
  `SupplyScript`, `NestScript` and `SummaryScript`), a proper script may begin
  (`BeginKeeps`), and a step of whatever is in flight keeps the invariant (`StepKeeps`).
* The inductive invariant `IInv` has a part per reason why a write of a request in flight
  is still justified: *either the check that justifies it is still ahead in the script, or what
  it found is still so*. `Houses` says this of the parent of a zone or bin, `Suits` of the
  suppliers of a product, `Reaches` of the customers assigned to a warehouse, `Spares`
  of a platform account, `Tallied` of the sums of a summary. They are needed
  because the checks are statements of their own: none of the properties alone
  survives a write of a request whose check lies in the past.
* `KeptRow` is what makes a finding last: a row that is there keeps its customer
  if it is a product or supplier, its place if no update moves it (a deleted area or
  zone may only clear it), and what is deleted stays so. `RanIs` proves it of each statement, `AllKeeps`
  of transactions.
* `TypeCorrect`, `PlacesAgree`, `SuppliersOwned`, `SummariesAreWhole` follow. The two
  action properties `ReachNeverGrows` and `PlatformKeepsAnAccount` need what the statement
  itself brings (`ReachAfter`, `AccountStep`) besides.

`PlatformKeepsAnAccountUnlessRaced` excludes the case that no account was active before:
after two accounts have deactivated each other, every write to another table leaves
them so. The run changes platform accounts alone; the theorem is about any tables.

### Only model-checked

Liveness (`CompletionsEnd`, `ProvisioningEnds`), which needs ENABLED: out of the prover's
reach. The violations of section 5. What a transaction of more than three statements does:
no handler has one, and longer ones would need induction over data.

## 5. Where the code departs from what it says

| Run | Promise | What happens |
|---|---|---|
| ReceivingOver | 'Received quantity exceeds ASN expected quantity' (inbound.service.ts:373) | two receives read the same line, both pass, the second write overwrites the first: more is received than expected |
| OutboundFinal | `SHIPPED: [], CANCELLED: []` (outbound.service.ts:46-47), 'Invalid sales order status transition' (:1060) | an update cancels an order and leaves its tasks open; completing one writes the order's status. No overlap is needed |
| ProvisioningSuspended | 'Suspend tenant (blocks tenant API login)' (platform-tenants.controller.ts:52) | a pipeline under way ends by setting TRIAL, whatever the status has become: a suspended tenant is served again |
| MasterDataConversions | 'fromUomId and toUomId cannot be the same' (master-data.service.ts:1102) | an update compares the two only when both are given (:1136): one unit at a time, they become the same |

The exclusions in the other properties stand for what the same read-check-write
shape does elsewhere; dropping any of them makes TLC report a trace of two overlapping
requests (or of the case named):

* receipts whose lines were replaced after they were counted; a COMPLETED ASN
  reopened or cancelled by a write on an earlier read; a serial received twice;
* dwell billed twice by two releases; CLEARED written after the gate shut;
* a create refused for a generated number (count plus one) that a caller had named, or that
  an overlapping create has just taken;
* a draft completed twice; held stock taken by two moves that check the same free stock, or by
  one while the warehouse is not flagged as a hub;
* two completions of a task that both count; two allocations that both insert; an
  order whose last two lines are shipped at once and that nobody marks SHIPPED; a
  SHIPPED order written back to an earlier status by a wave;
* a tenant lost by a crash or by a failure nobody records; a tenant served unseeded after a
  reactivation;
* zones and bins left behind when the place above them is moved; a summary whose
  parts and total disagree; two platform accounts that deactivate each other.

Modelled, but no promise is made that a property could state: the same stock
allocated to two orders (no allocation looks at another order's); a retry
that skips a half-done migration; a cycle of menus made by two updates, each
of which only refuses the menu itself as parent.

## 6. Not modelled

* kpi: reads only. Storage, upload, redis, health and the messaging adapters: I/O;
  the events they publish are consumed by nothing in the repository.
* Passwords, signatures, impersonation tokens, plans, settings, feature flags and
  audit rows: single rows that nothing else depends on.
* process-flow's recipes, genealogy and output serials; unit conversion
  of quantities (every quantity is in the base unit); attached documents.
* Allocations against the stock of *other* orders: the code does not compare them.
* Migrations and seeds, beyond their success or failure in Provisioning.
* The quantities of one balance over inbound, process-flow and outbound in one module:
  StockMoves has the steps of the first two and of the operator; outbound does
  not write balances.
