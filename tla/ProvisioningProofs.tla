------------------------ MODULE ProvisioningProofs ------------------------
(* Theorems about Provisioning, for every value of its constants.          *)
EXTENDS Provisioning, SequenceTheorems, TLAPS

RunAt == {"begin", "schema", "create", "migrate", "history", "seed", "done", "trial"}
RunType == [at : RunAt, tenant : Tenant]
JobType == [by : Runner \cup {None}, step : Step, state : {"RUNNING", "FAILED", "SUCCESS"}]
ReqType == [at : {"create", "subscribe", "enqueue", "reactivate"}, tenant : Tenant,
            to : TenantStatus]

Runs(x) == run[x] # Idle
Queued(t) == \E i \in DOMAIN queue : queue[i] = t

(* A run at a step has a tenant; an idle one is at no step.                *)
LEMMA RunFields ==
    ASSUME TypeOK, NEW x \in Runner
    PROVE  /\ Runs(x) => run[x] \in RunType /\ run[x].at \in RunAt /\ run[x].tenant \in Tenant
           /\ Runs(x) <=> run[x].at # "idle"
<1>1. run[x] = Idle \/ run[x] \in RunType
    BY DEF TypeOK, RunType, RunAt
<1>2. CASE run[x] = Idle
    BY <1>2 DEF Idle, Runs
<1>3. CASE run[x] \in RunType
    BY <1>3 DEF RunType, RunAt, Runs, Idle
<1> QED BY <1>1, <1>2, <1>3

LEMMA ReqFields ==
    ASSUME TypeOK, NEW r \in Req
    PROVE  /\ req[r] # Idle => req[r] \in ReqType /\ req[r].tenant \in Tenant
                               /\ req[r].to \in TenantStatus
           /\ req[r] # Idle <=> req[r].at # "idle"
           /\ req[r].at \in {"idle", "create", "subscribe", "enqueue", "reactivate"}
<1>1. req[r] = Idle \/ req[r] \in ReqType
    BY DEF TypeOK, ReqType
<1>2. CASE req[r] = Idle
    BY <1>2 DEF Idle
<1>3. CASE req[r] \in ReqType
    BY <1>3 DEF ReqType, Idle
<1> QED BY <1>1, <1>2, <1>3

LEMMA JobFields ==
    ASSUME TypeOK, NEW t \in Tenant, job[t] # NoJob
    PROVE  /\ job[t] \in JobType
           /\ job[t].by \in Runner \cup {None}
           /\ job[t].step \in Step
           /\ job[t].state \in {"RUNNING", "FAILED", "SUCCESS"}
<1>1. job[t] \in JobType
    BY DEF TypeOK, JobType
<1> QED BY <1>1 DEF JobType

-----------------------------------------------------------------------------
(* What the helpers of the model do to runs, queue and job rows.           *)
LEMMA BeginIsRun ==
    ASSUME NEW t \in Tenant
    PROVE  Begin(t) \in RunType /\ Begin(t).at = "begin" /\ Begin(t).tenant = t /\ Begin(t) # Idle
BY DEF Begin, RunType, RunAt, Idle

LEMMA GotoMoves ==
    ASSUME TypeOK, NEW x \in Runner, Runs(x), NEW to \in RunAt, Goto(x, to)
    PROVE  /\ run' \in [Runner -> {Idle} \cup RunType]
           /\ run'[x].at = to /\ run'[x].tenant = run[x].tenant /\ run'[x] # Idle
           /\ \A y \in Runner \ {x} : run'[y] = run[y]
           /\ queue' = queue
<1>1. run[x] \in RunType
    BY RunFields
<1>2. run \in [Runner -> {Idle} \cup RunType]
    BY DEF TypeOK, RunType, RunAt
<1>3. run' = [run EXCEPT ![x].at = to] /\ queue' = queue
    BY DEF Goto
<1>4. [run[x] EXCEPT !.at = to] \in RunType
    BY <1>1 DEF RunType
<1>5. run'[x] = [run[x] EXCEPT !.at = to]
    BY <1>2, <1>3
<1>6. run'[x].at = to /\ run'[x].tenant = run[x].tenant
    BY <1>1, <1>5 DEF RunType
<1>7. run'[x] # Idle
    BY <1>6 DEF Idle, RunAt
<1>8. \A y \in Runner \ {x} : run'[y] = run[y]
    BY <1>2, <1>3
<1>9. run' \in [Runner -> {Idle} \cup RunType]
    BY <1>2, <1>3, <1>4
<1> QED BY <1>3, <1>6, <1>7, <1>8, <1>9

LEMMA EndRunMoves ==
    ASSUME TypeOK, NEW x \in Runner, NEW failed, EndRun(x, failed)
    PROVE  /\ run' \in [Runner -> {Idle} \cup RunType]
           /\ queue' \in Seq(Tenant)
           /\ \A y \in Runner \ {x} : run'[y] = run[y]
           /\ \/ run'[x] = Idle /\ queue' = queue /\ (x = Worker => queue = <<>>)
              \/ /\ x = Worker /\ queue # <<>>
                 /\ Head(queue) \in Tenant
                 /\ run'[x] = Begin(Head(queue))
                 /\ queue' = Tail(queue)
<1>1. run \in [Runner -> {Idle} \cup RunType] /\ queue \in Seq(Tenant)
    BY DEF TypeOK, RunType, RunAt
<1>2. CASE NextJob(x, failed)
  <2>1. x = Worker /\ queue # <<>>
      BY <1>2 DEF NextJob
  <2>2. Head(queue) \in Tenant /\ Tail(queue) \in Seq(Tenant)
      BY <1>1, <2>1, HeadTailProperties
  <2>3. Begin(Head(queue)) \in RunType
      BY <2>2, BeginIsRun
  <2> QED BY <1>1, <1>2, <2>1, <2>2, <2>3 DEF EndRun
<1>3. CASE ~NextJob(x, failed)
    BY <1>1, <1>3 DEF EndRun, NextJob
<1> QED BY <1>2, <1>3

LEMMA EnqueueMoves ==
    ASSUME TypeOK, NEW t \in Tenant, Enqueue(t)
    PROVE  /\ run' \in [Runner -> {Idle} \cup RunType]
           /\ queue' \in Seq(Tenant)
           /\ \A y \in Runner \ {Worker} : run'[y] = run[y]
           /\ \/ run[Worker] = Idle /\ run'[Worker] = Begin(t) /\ queue' = queue
              \/ /\ run' = run /\ queue' = Append(queue, t)
                 /\ run[Worker] # Idle \/ process # "up"
<1>1. run \in [Runner -> {Idle} \cup RunType] /\ queue \in Seq(Tenant)
    BY DEF TypeOK, RunType, RunAt
<1>2. Worker \in Runner
    BY DEF Runner
<1>3. Begin(t) \in RunType
    BY BeginIsRun
<1>4. Append(queue, t) \in Seq(Tenant)
    BY <1>1, AppendProperties
<1> QED BY <1>1, <1>2, <1>3, <1>4 DEF Enqueue

LEMMA QueueGrows ==
    ASSUME NEW s \in Seq(Tenant), NEW t \in Tenant, NEW u \in Tenant
    PROVE  (\E i \in DOMAIN Append(s, t) : Append(s, t)[i] = u) <=>
               (u = t \/ \E i \in DOMAIN s : s[i] = u)
<1>1. Append(s, t) \in Seq(Tenant) /\ Len(Append(s, t)) = Len(s) + 1 /\ Len(s) \in Nat
    BY AppendProperties, LenProperties
<1>2. DOMAIN Append(s, t) = 1 .. (Len(s) + 1) /\ DOMAIN s = 1 .. Len(s)
    BY <1>1, LenProperties
<1>3. \A i \in 1 .. Len(s) : Append(s, t)[i] = s[i]
    BY AppendProperties
<1>4. Append(s, t)[Len(s) + 1] = t
    BY AppendProperties
<1>5. Len(s) + 1 \in DOMAIN Append(s, t) /\ DOMAIN s \subseteq DOMAIN Append(s, t)
    BY <1>1, <1>2
<1>6. \A i \in DOMAIN Append(s, t) : i \in DOMAIN s \/ i = Len(s) + 1
    BY <1>1, <1>2
<1> QED BY <1>2, <1>3, <1>4, <1>5, <1>6

LEMMA QueueShrinks ==
    ASSUME NEW s \in Seq(Tenant), s # <<>>, NEW u \in Tenant
    PROVE  (\E i \in DOMAIN s : s[i] = u) <=>
               (u = Head(s) \/ \E i \in DOMAIN Tail(s) : Tail(s)[i] = u)
<1>1. Tail(s) \in Seq(Tenant) /\ Len(Tail(s)) = Len(s) - 1 /\ Len(s) \in Nat
    BY HeadTailProperties, LenProperties
<1>2. DOMAIN s = 1 .. Len(s) /\ DOMAIN Tail(s) = 1 .. (Len(s) - 1)
    BY <1>1, LenProperties
<1>3. Len(s) # 0
    BY EmptySeq, LenProperties
<1>4. \A i \in 1 .. (Len(s) - 1) : Tail(s)[i] = s[i + 1]
    BY <1>1, HeadTailProperties
<1>5. Head(s) = s[1]
    BY <1>3
<1>6. ASSUME NEW i \in DOMAIN s, i # 1
      PROVE  i - 1 \in DOMAIN Tail(s) /\ Tail(s)[i - 1] = s[i]
    BY <1>1, <1>2, <1>4, <1>6
<1>7. ASSUME NEW i \in DOMAIN Tail(s)
      PROVE  i + 1 \in DOMAIN s /\ Tail(s)[i] = s[i + 1]
    BY <1>1, <1>2, <1>4
<1>8. 1 \in DOMAIN s
    BY <1>1, <1>2, <1>3
<1> QED BY <1>5, <1>6, <1>7, <1>8

LEMMA JobRowMoves ==
    ASSUME TypeOK, NEW x \in Runner, Runs(x), NEW step,
           NEW state \in {"RUNNING", "FAILED", "SUCCESS"},
           job[run[x].tenant] # NoJob => step \in Step, JobRow(x, step, state)
    PROVE  /\ job' \in [Tenant -> JobType \cup {NoJob}]
           /\ \A u \in Tenant \ {run[x].tenant} : job'[u] = job[u]
           /\ LET t == run[x].tenant
              IN  IF job[t] # NoJob /\ job[t].by = x
                  THEN job'[t] # NoJob /\ job'[t].by = x /\ job'[t].state = state
                  ELSE job'[t] = job[t]
<1> DEFINE t == run[x].tenant
<1>1. t \in Tenant
    BY RunFields
<1>2. job \in [Tenant -> JobType \cup {NoJob}]
    BY DEF TypeOK, JobType
<1>3. CASE job[t] # NoJob /\ job[t].by = x
  <2>1. job[t] \in JobType /\ step \in Step
      BY <1>1, <1>3, JobFields
  <2>2. job' = [job EXCEPT ![t].step = step, ![t].state = state]
      BY <1>3 DEF JobRow
  <2>3. job'[t] = [job[t] EXCEPT !.step = step, !.state = state]
      BY <1>1, <1>2, <2>2
  <2>4. job'[t] \in JobType /\ job'[t].by = x /\ job'[t].state = state
      BY <1>3, <2>1, <2>3 DEF JobType
  <2>5. job'[t] # NoJob
      BY <2>4 DEF NoJob
  <2>6. \A u \in Tenant \ {t} : job'[u] = job[u]
      BY <1>2, <2>2
  <2>7. DOMAIN job' = Tenant /\ job' = [u \in Tenant |-> job'[u]]
      BY <1>2, <2>2
  <2>8. job' \in [Tenant -> JobType \cup {NoJob}]
      BY <1>2, <2>4, <2>6, <2>7
  <2> QED BY <1>3, <2>4, <2>5, <2>6, <2>8
<1>4. CASE ~(job[t] # NoJob /\ job[t].by = x)
    BY <1>2, <1>4 DEF JobRow
<1> QED BY <1>3, <1>4

-----------------------------------------------------------------------------
(* Nothing is in flight while the process is down: with TypeOK, an         *)
(* inductive invariant.                                                    *)
Quiet == process = "down" => \A r \in Req : req[r] = Idle

LEMMA InitQuiet == Init => TypeOK /\ Quiet
<1> SUFFICES ASSUME Init PROVE TypeOK /\ Quiet
    OBVIOUS
<1>1. queue \in Seq(Tenant) /\ queue = <<>>
    BY DEF Init
<1>2. job \in [Tenant -> [by : Runner \cup {None}, step : Step,
                          state : {"RUNNING", "FAILED", "SUCCESS"}] \cup {NoJob}]
    BY DEF Init
<1>3. used \in [{"retries", "crashes", "messages"} -> Nat]
    BY DEF Init
<1>4. messages \in [{"waiting", "unacked"} -> SUBSET Tenant]
    BY DEF Init
<1> QED BY <1>1, <1>2, <1>3, <1>4 DEF Init, TypeOK, TenantStatus, Quiet

(* A value of its type for each variable a step changes.                   *)
LEMMA TypeSplit ==
    TypeOK <=>
        /\ status \in [Tenant -> TenantStatus]
        /\ provisioned \subseteq Tenant
        /\ job \in [Tenant -> JobType \cup {NoJob}]
        /\ schema \in [Tenant -> {"none", "empty", "partial", "migrated"}]
        /\ seeded \subseteq Tenant
        /\ queue \in Seq(Tenant)
        /\ queue # <<>> => run[Worker] # Idle \/ process = "draining"
        /\ run \in [Runner -> {Idle} \cup RunType]
        /\ req \in [Req -> {Idle} \cup ReqType]
        /\ process \in {"up", "draining", "down"}
        /\ messages \in [{"waiting", "unacked"} -> SUBSET Tenant]
        /\ used \in [{"retries", "crashes", "messages"} -> Nat]
        /\ lost \subseteq Tenant /\ revived \subseteq Tenant
BY DEF TypeOK, JobType, RunType, ReqType, RunAt

LEMMA UseKeepsType ==
    ASSUME TypeOK, NEW what \in {"retries", "crashes", "messages"}, NEW bound, Use(what, bound)
    PROVE  used' \in [{"retries", "crashes", "messages"} -> Nat]
BY TypeSplit DEF Use

(* A step of a pipeline: what is not named here, it leaves alone.          *)
LEMMA RunStepType ==
    ASSUME TypeOK, Quiet, NEW x \in Runner, RunStep(x)
    PROVE  TypeOK' /\ Quiet'
<1> DEFINE t == run[x].tenant
<1>1. Runs(x) /\ t \in Tenant
  <2>1. run[x].at # "idle"
      BY DEF RunStep, CreateJob, LookForSchema, CreateSchema, MarkMigrate, Migrate, MigrateFails,
             SeedTenant, MarkDone, SetTrial, RunFails, BeginFails, At
  <2> QED BY <2>1, RunFields
<1>2. UNCHANGED Others
    BY DEF RunStep, CreateJob, LookForSchema, CreateSchema, MarkMigrate, Migrate, MigrateFails,
           SeedTenant, MarkDone, SetTrial, RunFails, BeginFails
<1>3. req' = req /\ process' = process /\ messages' = messages /\ used' = used
        /\ revived' = revived /\ lost' \subseteq Tenant
  <2>1. lost' = lost \/ lost' = lost \cup {t}
      BY DEF RunStep, CreateJob, LookForSchema, CreateSchema, MarkMigrate, Migrate, MigrateFails,
             SeedTenant, MarkDone, SetTrial, RunFails, BeginFails, Report, Unsaid
  <2> QED BY <1>1, <1>2, <2>1, TypeSplit DEF Others
<1>4. /\ run' \in [Runner -> {Idle} \cup RunType]
      /\ queue' \in Seq(Tenant)
      /\ queue' # <<>> => run'[Worker] # Idle \/ process' = "draining"
  <2>0. Worker \in Runner
      BY DEF Runner
  <2>1. ASSUME NEW to \in RunAt, Goto(x, to) PROVE <1>4
    <3>1. /\ run' \in [Runner -> {Idle} \cup RunType]
          /\ run'[x] # Idle /\ (\A y \in Runner \ {x} : run'[y] = run[y]) /\ queue' = queue
        BY <1>1, <2>1, GotoMoves
    <3> QED BY <1>3, <2>0, <3>1, TypeSplit
  <2>2. ASSUME NEW failed, EndRun(x, failed) PROVE <1>4
    <3>1. /\ run' \in [Runner -> {Idle} \cup RunType] /\ queue' \in Seq(Tenant)
          /\ \A y \in Runner \ {x} : run'[y] = run[y]
          /\ \/ run'[x] = Idle /\ queue' = queue /\ (x = Worker => queue = <<>>)
             \/ x = Worker /\ Head(queue) \in Tenant /\ run'[x] = Begin(Head(queue))
        BY <2>2, EndRunMoves
    <3>2. CASE run'[x] = Idle /\ queue' = queue /\ (x = Worker => queue = <<>>)
        BY <1>3, <2>0, <3>1, <3>2, TypeSplit
    <3>3. CASE x = Worker /\ Head(queue) \in Tenant /\ run'[x] = Begin(Head(queue))
        BY <3>1, <3>3, BeginIsRun
    <3> QED BY <3>1, <3>2, <3>3
  <2>3. (\E to \in RunAt : Goto(x, to)) \/ (\E failed \in BOOLEAN : EndRun(x, failed))
    <3>1. CASE LookForSchema(x)
        BY <3>1 DEF LookForSchema, RunAt
    <3> QED BY <3>1 DEF RunStep, CreateJob, CreateSchema, MarkMigrate, Migrate, MigrateFails,
                        SeedTenant, MarkDone, SetTrial, RunFails, BeginFails, RunAt
  <2> QED BY <2>1, <2>2, <2>3
<1>5. job' \in [Tenant -> JobType \cup {NoJob}]
  <2>1. CASE CreateJob(x)
      BY <1>1, <2>1, TypeSplit DEF CreateJob, JobType, Step
  <2>2. CASE MarkMigrate(x)
      BY <1>1, <2>2, JobRowMoves DEF MarkMigrate, Step
  <2>3. CASE MigrateFails(x)
      BY <1>1, <2>3, JobRowMoves, TypeSplit DEF MigrateFails, Report, Unsaid, Step
  <2>4. CASE SeedTenant(x)
      BY <1>1, <2>4, JobRowMoves DEF SeedTenant, Step
  <2>5. CASE MarkDone(x)
      BY <1>1, <2>5, JobRowMoves DEF MarkDone, Step
  <2>6. CASE RunFails(x)
    <3>1. job[t] # NoJob => job[t].step \in Step
        BY <1>1, JobFields
    <3> QED BY <1>1, <2>6, <3>1, JobRowMoves, TypeSplit DEF RunFails, Report, Unsaid
  <2>7. CASE UNCHANGED job
      BY <2>7, TypeSplit
  <2> QED BY <2>1, <2>2, <2>3, <2>4, <2>5, <2>6, <2>7
          DEF RunStep, LookForSchema, CreateSchema, Migrate, SetTrial, BeginFails, Unsaid, db
<1>6. schema' \in [Tenant -> {"none", "empty", "partial", "migrated"}]
    BY <1>1, TypeSplit DEF RunStep, CreateJob, LookForSchema, CreateSchema, MarkMigrate, Migrate,
           MigrateFails, SeedTenant, MarkDone, SetTrial, RunFails, BeginFails, db
<1>7. seeded' \subseteq Tenant /\ provisioned' \subseteq Tenant
    BY <1>1, TypeSplit DEF RunStep, CreateJob, LookForSchema, CreateSchema, MarkMigrate, Migrate,
           MigrateFails, SeedTenant, MarkDone, SetTrial, RunFails, BeginFails, db, Seed
<1>8. status' \in [Tenant -> TenantStatus]
    BY <1>1, TypeSplit DEF RunStep, CreateJob, LookForSchema, CreateSchema, MarkMigrate, Migrate,
           MigrateFails, SeedTenant, MarkDone, SetTrial, RunFails, BeginFails, db, TenantStatus
<1>9. TypeOK'
    BY <1>3, <1>4, <1>5, <1>6, <1>7, <1>8, TypeSplit
       DEF TypeOK, JobType, RunType, ReqType, RunAt
<1>10. Quiet'
    BY <1>3 DEF Quiet
<1> QED BY <1>9, <1>10

(* The request that a step of its own is about.                            *)
LEMMA RequestAt ==
    ASSUME TypeOK, NEW r \in Req, RequestStep(r)
    PROVE  req[r] # Idle /\ req[r].tenant \in Tenant /\ req[r].to \in TenantStatus
<1>1. req[r].at # "idle"
    BY DEF RequestStep, CreateTenant, Subscribe, EnqueueTenant, Reactivated, RequestFails
<1> QED BY <1>1, ReqFields

(* The steps that change requests and statuses, and no run, job or queue.  *)
LEMMA RequestStepType ==
    ASSUME TypeOK, Quiet, NEW r \in Req, RequestStep(r)
    PROVE  TypeOK' /\ Quiet'
<1> DEFINE t == req[r].tenant
<1>0. /\ req[r] # Idle /\ t \in Tenant /\ req[r].to \in TenantStatus /\ process # "down"
      /\ req[r] \in ReqType
    BY RequestAt, ReqFields DEF Quiet
<1>1. CASE CreateTenant(r)
  <2>1. req' \in [Req -> {Idle} \cup ReqType]
      BY <1>0, <1>1, TypeSplit DEF CreateTenant, ReqType
  <2>2. status' \in [Tenant -> TenantStatus]
      BY <1>0, <1>1, TypeSplit DEF CreateTenant, TenantStatus
  <2> QED BY <1>0, <1>1, <2>1, <2>2, TypeSplit
          DEF CreateTenant, history, TypeOK, JobType, RunType, ReqType, RunAt, Quiet
<1>2. CASE Subscribe(r)
  <2>1. req' \in [Req -> {Idle} \cup ReqType]
      BY <1>0, <1>2, TypeSplit DEF Subscribe, ReqType
  <2> QED BY <1>0, <1>2, <2>1, TypeSplit
          DEF Subscribe, db, history, TypeOK, JobType, RunType, ReqType, RunAt, Quiet
<1>3. CASE EnqueueTenant(r)
  <2>1. req' \in [Req -> {Idle} \cup ReqType]
      BY <1>3, TypeSplit DEF EnqueueTenant
  <2>2. /\ run' \in [Runner -> {Idle} \cup RunType] /\ queue' \in Seq(Tenant)
        /\ \/ run[Worker] = Idle /\ run'[Worker] = Begin(t) /\ queue' = queue
           \/ run' = run /\ (run[Worker] # Idle \/ process # "up")
      BY <1>0, <1>3, EnqueueMoves DEF EnqueueTenant
  <2>3. queue' # <<>> => run'[Worker] # Idle \/ process = "draining"
      BY <1>0, <2>2, BeginIsRun, TypeSplit
  <2> QED BY <1>0, <1>3, <2>1, <2>2, <2>3, TypeSplit
          DEF EnqueueTenant, db, history, TypeOK, JobType, RunType, ReqType, RunAt, Quiet
<1>4. CASE Reactivated(r)
  <2>1. req' \in [Req -> {Idle} \cup ReqType]
      BY <1>4, TypeSplit DEF Reactivated
  <2>2. status' \in [Tenant -> TenantStatus]
      BY <1>0, <1>4, TypeSplit DEF Reactivated
  <2> QED BY <1>0, <1>4, <2>1, <2>2, TypeSplit
          DEF Reactivated, TypeOK, JobType, RunType, ReqType, RunAt, Quiet
<1>5. CASE RequestFails(r)
  <2>1. req' \in [Req -> {Idle} \cup ReqType]
      BY <1>5, TypeSplit DEF RequestFails
  <2> QED BY <1>0, <1>5, <2>1, TypeSplit
          DEF RequestFails, db, TypeOK, JobType, RunType, ReqType, RunAt, Quiet
<1> QED BY <1>1, <1>2, <1>3, <1>4, <1>5 DEF RequestStep

LEMMA StartType ==
    ASSUME TypeOK, Quiet, NEW r \in Req, NEW t \in Tenant,
           SignUp(r, t) \/ Retry(r, t) \/ Reactivate(r, t)
    PROVE  TypeOK' /\ Quiet'
<1>1. CASE SignUp(r, t)
  <2>1. req' \in [Req -> {Idle} \cup ReqType]
      BY <1>1, TypeSplit DEF SignUp, ReqType, TenantStatus
  <2> QED BY <1>1, <2>1, TypeSplit
          DEF SignUp, Alive, db, history, TypeOK, JobType, RunType, ReqType, RunAt, Quiet
<1>2. CASE Retry(r, t)
  <2>1. req' \in [Req -> {Idle} \cup ReqType]
      BY <1>2, TypeSplit DEF Retry, ReqType, TenantStatus
  <2>2. used' \in [{"retries", "crashes", "messages"} -> Nat]
      BY <1>2, UseKeepsType DEF Retry
  <2>3. status' \in [Tenant -> TenantStatus]
      BY <1>2, TypeSplit DEF Retry, TenantStatus
  <2> QED BY <1>2, <2>1, <2>2, <2>3, TypeSplit
          DEF Retry, Alive, TypeOK, JobType, RunType, ReqType, RunAt, Quiet
<1>3. CASE Reactivate(r, t)
  <2>1. req' \in [Req -> {Idle} \cup ReqType]
      BY <1>3, TypeSplit DEF Reactivate, ReqType, TenantStatus
  <2> QED BY <1>3, <2>1, TypeSplit
          DEF Reactivate, Alive, db, history, TypeOK, JobType, RunType, ReqType, RunAt, Quiet
<1> QED BY <1>1, <1>2, <1>3

LEMMA TenantType ==
    ASSUME TypeOK, Quiet, NEW t \in Tenant, Suspend(t) \/ Publish(t) \/ MigrateAll(t)
    PROVE  TypeOK' /\ Quiet'
<1>1. CASE Suspend(t)
  <2>1. status' \in [Tenant -> TenantStatus]
      BY <1>1, TypeSplit DEF Suspend, TenantStatus
  <2> QED BY <1>1, <2>1, TypeSplit
          DEF Suspend, history, TypeOK, JobType, RunType, ReqType, RunAt, Quiet
<1>2. CASE Publish(t)
  <2>1. messages' \in [{"waiting", "unacked"} -> SUBSET Tenant]
      BY <1>2, TypeSplit DEF Publish
  <2>2. used' \in [{"retries", "crashes", "messages"} -> Nat]
      BY <1>2, UseKeepsType DEF Publish
  <2> QED BY <1>2, <2>1, <2>2, TypeSplit
          DEF Publish, db, history, TypeOK, JobType, RunType, ReqType, RunAt, Quiet
<1>3. CASE MigrateAll(t)
    BY <1>3, TypeSplit DEF MigrateAll, history, TypeOK, JobType, RunType, ReqType, RunAt, Quiet
<1> QED BY <1>1, <1>2, <1>3

LEMMA DeliverType ==
    ASSUME TypeOK, Quiet, NEW x \in Runner, NEW t \in Tenant, Deliver(x, t)
    PROVE  TypeOK' /\ Quiet'
<1>1. x # Worker /\ Worker \in Runner
    BY ProvisioningAssumption DEF Deliver, Runner
<1>2. run' \in [Runner -> {Idle} \cup RunType] /\ run'[Worker] = run[Worker]
    BY <1>1, TypeSplit, BeginIsRun DEF Deliver
<1>3. messages' \in [{"waiting", "unacked"} -> SUBSET Tenant]
    BY TypeSplit DEF Deliver
<1> QED BY <1>2, <1>3, TypeSplit
        DEF Deliver, db, history, TypeOK, JobType, RunType, ReqType, RunAt, Quiet

LEMMA DownType ==
    ASSUME TypeOK, Quiet, Down
    PROVE  TypeOK' /\ Quiet'
<1>1. job' \in [Tenant -> JobType \cup {NoJob}]
  <2>1. ASSUME NEW t \in Tenant, job[t] # NoJob
        PROVE  [job[t] EXCEPT !.by = None] \in JobType
      BY <2>1, JobFields DEF JobType
  <2> QED BY <2>1, TypeSplit DEF Down
<1>2. schema' \in [Tenant -> {"none", "empty", "partial", "migrated"}]
    BY TypeSplit DEF Down
<1>3. messages' \in [{"waiting", "unacked"} -> SUBSET Tenant]
    BY TypeSplit DEF Down
<1>4. used' \in [{"retries", "crashes", "messages"} -> Nat]
    BY UseKeepsType DEF Down
<1>5. queue' = <<>> /\ queue' \in Seq(Tenant)
    BY DEF Down
<1>6. lost' \subseteq Tenant
    BY TypeSplit DEF Down
<1>7. run' \in [Runner -> {Idle} \cup RunType] /\ req' \in [Req -> {Idle} \cup ReqType]
        /\ \A r \in Req : req'[r] = Idle
    BY DEF Down
<1> QED BY <1>1, <1>2, <1>3, <1>4, <1>5, <1>6, <1>7, TypeSplit
        DEF Down, TypeOK, JobType, RunType, ReqType, RunAt, Quiet

LEMMA TypeStep == TypeOK /\ Quiet /\ [Next]_vars => TypeOK' /\ Quiet'
<1> SUFFICES ASSUME TypeOK, Quiet, [Next]_vars PROVE TypeOK' /\ Quiet'
    OBVIOUS
<1>1. ASSUME NEW r \in Req,
             \/ \E t \in Tenant : SignUp(r, t) \/ Retry(r, t) \/ Reactivate(r, t)
             \/ RequestStep(r)
      PROVE  TypeOK' /\ Quiet'
    BY <1>1, StartType, RequestStepType
<1>2. ASSUME NEW t \in Tenant, Suspend(t) \/ Publish(t) \/ MigrateAll(t)
      PROVE  TypeOK' /\ Quiet'
    BY <1>2, TenantType
<1>3. ASSUME NEW x \in Runner, RunStep(x) \/ \E t \in Tenant : Deliver(x, t)
      PROVE  TypeOK' /\ Quiet'
    BY <1>3, RunStepType, DeliverType
<1>4. CASE Shutdown
    BY <1>4 DEF Shutdown, db, history, TypeOK, Quiet
<1>5. CASE Down
    BY <1>5, DownType
<1>6. CASE Restart
    BY <1>6 DEF Restart, db, history, TypeOK, Quiet
<1>7. CASE UNCHANGED vars
    BY <1>7 DEF vars, TypeOK, Quiet
<1> QED BY <1>1, <1>2, <1>3, <1>4, <1>5, <1>6, <1>7 DEF Next

(* The variables have their types, and the queue is only left filled while *)
(* the drain loop is at work or the process is shutting down: no tenant is *)
(* queued with nobody to take it.                                          *)
THEOREM TypeCorrect == Spec => []TypeOK
<1>1. Init => TypeOK /\ Quiet
    BY InitQuiet
<1>2. TypeOK /\ Quiet /\ [Next]_vars => TypeOK' /\ Quiet'
    BY TypeStep
<1> QED BY <1>1, <1>2, PTL DEF Spec

-----------------------------------------------------------------------------
(* ProvisionedIsSeeded is not inductive: it says nothing of the runs that  *)
(* are about to report success.                                            *)
SeededInv ==
    /\ \A x \in Runner : run[x].at \in {"done", "trial"} => run[x].tenant \in seeded
    /\ ProvisionedIsSeeded

LEMMA SeededStep ==
    ASSUME TypeOK, SeededInv, [Next]_vars
    PROVE  SeededInv'
<1>1. CASE UNCHANGED <<provisioned, job, seeded, run>>
    BY <1>1 DEF SeededInv, ProvisionedIsSeeded
<1>2. ASSUME NEW r \in Req, EnqueueTenant(r)
      PROVE  SeededInv'
  <2>1. req[r].tenant \in Tenant
      BY <1>2, ReqFields DEF EnqueueTenant
  <2>2. \A y \in Runner : run'[y] = run[y] \/ run'[y].at = "begin"
      BY <1>2, <2>1, EnqueueMoves, BeginIsRun DEF EnqueueTenant
  <2>3. UNCHANGED <<provisioned, job, seeded>>
      BY <1>2 DEF EnqueueTenant, db
  <2> QED BY <2>2, <2>3 DEF SeededInv, ProvisionedIsSeeded
<1>3. ASSUME NEW x \in Runner, NEW t \in Tenant, Deliver(x, t)
      PROVE  SeededInv'
  <2>1. \A y \in Runner : run'[y] = run[y] \/ run'[y].at = "begin"
      BY <1>3, BeginIsRun, TypeSplit DEF Deliver
  <2>2. UNCHANGED <<provisioned, job, seeded>>
      BY <1>3 DEF Deliver, db
  <2> QED BY <2>1, <2>2 DEF SeededInv, ProvisionedIsSeeded
<1>4. CASE Down
  <2>1. \A y \in Runner : run'[y].at = "idle"
      BY <1>4 DEF Down, Idle
  <2>2. provisioned' = provisioned /\ seeded' = seeded
      BY <1>4 DEF Down
  <2>3. ASSUME NEW t \in Tenant, job'[t] # NoJob
        PROVE  job[t] # NoJob /\ job'[t].state = job[t].state
    <3>1. job[t] # NoJob
        BY <1>4, <2>3 DEF Down
    <3>2. job'[t] = [job[t] EXCEPT !.by = None] /\ job[t] \in JobType
        BY <1>4, <3>1, JobFields DEF Down
    <3> QED BY <3>1, <3>2 DEF JobType
  <2> QED BY <2>1, <2>2, <2>3 DEF SeededInv, ProvisionedIsSeeded
<1>5. ASSUME NEW x \in Runner, RunStep(x)
      PROVE  SeededInv'
  <2> DEFINE t == run[x].tenant
  <2>0. Runs(x) /\ t \in Tenant
    <3>1. run[x].at # "idle"
        BY <1>5 DEF RunStep, CreateJob, LookForSchema, CreateSchema, MarkMigrate, Migrate,
               MigrateFails, SeedTenant, MarkDone, SetTrial, RunFails, BeginFails, At
    <3> QED BY <3>1, RunFields
  <2>1. ASSUME NEW to \in RunAt, Goto(x, to)
        PROVE  /\ \A y \in Runner \ {x} : run'[y] = run[y]
               /\ run'[x].at = to /\ run'[x].tenant = t
      BY <2>0, <2>1, GotoMoves
  <2>2. ASSUME NEW failed, EndRun(x, failed)
        PROVE  /\ \A y \in Runner \ {x} : run'[y] = run[y]
               /\ run'[x].at \in {"idle", "begin"}
      BY <2>2, EndRunMoves, BeginIsRun DEF Idle
  <2>3. ASSUME NEW step, NEW state \in {"RUNNING", "FAILED", "SUCCESS"},
               job[t] # NoJob => step \in Step, JobRow(x, step, state),
               state = "SUCCESS" => t \in seeded
        PROVE  \A u \in Tenant : job'[u] # NoJob /\ job'[u].state = "SUCCESS" => u \in seeded
      BY <2>0, <2>3, JobRowMoves DEF SeededInv, ProvisionedIsSeeded
  <2>4. CASE CreateJob(x)
    <3>1. \A u \in Tenant : job'[u] # NoJob /\ job'[u].state = "SUCCESS" => u \in seeded
        BY <2>0, <2>4, TypeSplit DEF CreateJob, SeededInv, ProvisionedIsSeeded
    <3> QED BY <2>1, <2>4, <3>1 DEF CreateJob, RunAt, SeededInv, ProvisionedIsSeeded
  <2>5. CASE LookForSchema(x) \/ CreateSchema(x) \/ Migrate(x)
    <3>1. UNCHANGED <<provisioned, job, seeded>>
        BY <2>5 DEF LookForSchema, CreateSchema, Migrate, db
    <3>2. \E to \in {"create", "migrate", "seed"} : Goto(x, to)
        BY <2>5 DEF LookForSchema, CreateSchema, Migrate
    <3> QED BY <2>1, <3>1, <3>2 DEF RunAt, SeededInv, ProvisionedIsSeeded
  <2>6. CASE MarkMigrate(x)
    <3>1. \A u \in Tenant : job'[u] # NoJob /\ job'[u].state = "SUCCESS" => u \in seeded
        BY <2>3, <2>6 DEF MarkMigrate, Step
    <3> QED BY <2>1, <2>6, <3>1 DEF MarkMigrate, RunAt, SeededInv, ProvisionedIsSeeded
  <2>7. CASE MigrateFails(x) \/ RunFails(x) \/ BeginFails(x)
    <3>1. job[t] # NoJob => job[t].step \in Step
        BY <2>0, JobFields
    <3>2. Unsaid(x) \/ \E step \in {"MIGRATE", job[t].step} : JobRow(x, step, "FAILED")
        BY <2>7 DEF MigrateFails, RunFails, BeginFails, Report
    <3>3. \A u \in Tenant : job'[u] # NoJob /\ job'[u].state = "SUCCESS" => u \in seeded
        BY <2>3, <3>1, <3>2 DEF Unsaid, Step, SeededInv, ProvisionedIsSeeded
    <3> QED BY <2>2, <2>7, <3>3
            DEF MigrateFails, RunFails, BeginFails, SeededInv, ProvisionedIsSeeded
  <2>8. CASE SeedTenant(x)
    <3>1. \A u \in Tenant : job'[u] # NoJob /\ job'[u].state = "SUCCESS" => u \in seeded
        BY <2>3, <2>8 DEF SeedTenant, Step
    <3>2. seeded' = seeded \cup {t}
        BY <2>8 DEF SeedTenant, Seed
    <3> QED BY <2>1, <2>8, <3>1, <3>2 DEF SeedTenant, RunAt, SeededInv, ProvisionedIsSeeded
  <2>9. CASE MarkDone(x)
    <3>1. t \in seeded
        BY <2>9 DEF MarkDone, At, SeededInv
    <3>2. \A u \in Tenant : job'[u] # NoJob /\ job'[u].state = "SUCCESS" => u \in seeded
        BY <2>3, <2>9, <3>1 DEF MarkDone, Step
    <3> QED BY <2>1, <2>9, <3>1, <3>2 DEF MarkDone, RunAt, SeededInv, ProvisionedIsSeeded
  <2>10. CASE SetTrial(x)
      BY <2>2, <2>10 DEF SetTrial, At, SeededInv, ProvisionedIsSeeded
  <2> QED BY <1>5, <2>4, <2>5, <2>6, <2>7, <2>8, <2>9, <2>10 DEF RunStep
<1>6. \/ \E r \in Req : EnqueueTenant(r)
      \/ \E x \in Runner : RunStep(x) \/ \E t \in Tenant : Deliver(x, t)
      \/ Down
      \/ UNCHANGED <<provisioned, job, seeded, run>>
    BY DEF Next, RequestStep, SignUp, Retry, Reactivate, CreateTenant, Subscribe, Reactivated,
           RequestFails, Suspend, Publish, MigrateAll, Shutdown, Restart, vars, db
<1> QED BY <1>1, <1>2, <1>3, <1>4, <1>5, <1>6

(* A tenant that was ever provisioned has its roles and its admin          *)
(* (runProvisionPipeline sets provisioned_at after the seed), over any     *)
(* number of overlapping runs, failures, crashes and retries.              *)
THEOREM ProvisionedSeeded == Spec => []ProvisionedIsSeeded
<1>1. Init => SeededInv
  <2> SUFFICES ASSUME Init PROVE SeededInv
      OBVIOUS
  <2>1. \A x \in Runner : run[x].at = "idle"
      BY DEF Init, Idle
  <2> QED BY <2>1 DEF Init, SeededInv, ProvisionedIsSeeded
<1>2. TypeOK /\ SeededInv /\ [Next]_vars => SeededInv'
    BY SeededStep
<1>3. SeededInv => ProvisionedIsSeeded
    BY DEF SeededInv
<1> QED BY <1>1, <1>2, <1>3, TypeCorrect, PTL DEF Spec

-----------------------------------------------------------------------------
(* A request is only run in its own tenant's schema while that tenant is   *)
(* on trial, active or past due.                                           *)
LEMMA ServedIsLive ==
    ASSUME NEW t \in Tenant, Served(t)
    PROVE  status[t] \in {"TRIAL", "ACTIVE", "PAST_DUE"}
<1>1. t # None /\ t # Refused /\ t \in MaybeTenant
    BY TenantContextAssumption DEF MaybeTenant
<1>2. ResolveSlug(Ask(t)) = t /\ Ask(t).required = TRUE /\ Ask(t).polls = FALSE
    BY <1>1 DEF Ask, ResolveSlug, First, Claim
<1>3. SUFFICES ASSUME ~Accessible(status[t], FALSE) PROVE FALSE
    BY DEF Accessible
<1>4. Resolve(Ask(t), status) = Refused
    BY <1>1, <1>2, <1>3 DEF Resolve
<1> QED BY <1>1, <1>4 DEF Served

-----------------------------------------------------------------------------
(* Which tenants are live, and what a reactivation in flight will write.   *)
LiveInv ==
    /\ \A t \in Tenant \ revived :
          status[t] \in {"TRIAL", "ACTIVE", "PAST_DUE"} => t \in seeded
    /\ \A r \in Req : req[r].at = "reactivate" =>
          \/ req[r].to = "TRIAL"
          \/ req[r].to = "ACTIVE" /\ req[r].tenant \in provisioned

LEMMA LiveStep ==
    ASSUME TypeOK, SeededInv, LiveInv, [Next]_vars
    PROVE  LiveInv'
<1>0. seeded \subseteq seeded' /\ provisioned \subseteq provisioned'
    BY DEF Next, RequestStep, SignUp, Retry, Reactivate, CreateTenant, Subscribe,
       EnqueueTenant, Reactivated, RequestFails, Suspend, Publish, MigrateAll, RunStep, CreateJob,
       LookForSchema, CreateSchema, MarkMigrate, Migrate, MigrateFails, SeedTenant, MarkDone,
       SetTrial, RunFails, BeginFails, Deliver, Shutdown, Down, Restart, db, vars, Seed
<1>1. revived \subseteq revived'
    BY DEF Next, RequestStep, SignUp, Retry, Reactivate, CreateTenant, Subscribe,
       EnqueueTenant, Reactivated, RequestFails, Suspend, Publish, MigrateAll, RunStep, CreateJob,
       LookForSchema, CreateSchema, MarkMigrate, Migrate, MigrateFails, SeedTenant, MarkDone,
       SetTrial, RunFails, BeginFails, Deliver, Shutdown, Down, Restart, Others, history, vars
<1>2. ASSUME NEW t \in Tenant, t \notin revived', status'[t] \in {"TRIAL", "ACTIVE", "PAST_DUE"}
      PROVE  t \in seeded'
  <2>1. CASE status'[t] = status[t]
      BY <1>0, <1>1, <1>2, <2>1 DEF LiveInv
  <2>2. ASSUME NEW r \in Req, Reactivated(r), status'[t] # status[t]
        PROVE  t \in seeded'
    <3>1. t = req[r].tenant /\ status'[t] = req[r].to
        BY <2>2, TypeSplit DEF Reactivated
    <3>2. req[r].to # "TRIAL"
        BY <1>2, <2>2, <3>1 DEF Reactivated
    <3>3. t \in provisioned
        BY <2>2, <3>1, <3>2 DEF Reactivated, LiveInv
    <3> QED BY <1>0, <3>3 DEF SeededInv, ProvisionedIsSeeded
  <2>3. ASSUME NEW x \in Runner, SetTrial(x), status'[t] # status[t]
        PROVE  t \in seeded'
    <3>1. t = run[x].tenant
        BY <2>3, TypeSplit DEF SetTrial
    <3> QED BY <1>0, <2>3, <3>1 DEF SetTrial, At, SeededInv
  <2>4. ASSUME NEW r \in Req, NEW u \in Tenant,
               CreateTenant(r) \/ Retry(r, u) \/ Suspend(u)
        PROVE  status'[t] = status[t]
      BY <1>2, <2>4, TypeSplit DEF CreateTenant, Retry, Suspend
  <2>5. ASSUME NEW u \in Tenant, Suspend(u)
        PROVE  status'[t] = status[t]
      BY <1>2, <2>5, TypeSplit DEF Suspend
  <2> QED BY <2>1, <2>2, <2>3, <2>4, <2>5
       DEF Next, RequestStep, SignUp, Reactivate, Subscribe, EnqueueTenant, RequestFails,
       Publish, MigrateAll, RunStep, CreateJob, LookForSchema, CreateSchema, MarkMigrate, Migrate,
       MigrateFails, SeedTenant, MarkDone, RunFails, BeginFails, Deliver, Shutdown, Down,
          Restart, db, vars
<1>3. ASSUME NEW s \in Req, req'[s].at = "reactivate"
      PROVE  req'[s].to = "TRIAL" \/ (req'[s].to = "ACTIVE" /\ req'[s].tenant \in provisioned')
  <2>1. CASE req'[s] = req[s]
      BY <1>0, <1>3, <2>1 DEF LiveInv
  <2>2. ASSUME NEW r \in Req, NEW u \in Tenant, SignUp(r, u) \/ Retry(r, u)
        PROVE  req'[s] = req[s]
      BY <1>3, <2>2, TypeSplit DEF SignUp, Retry
  <2>3. ASSUME NEW r \in Req, NEW u \in Tenant, Reactivate(r, u), req'[s] # req[s]
        PROVE  req'[s].to = "TRIAL" \/ (req'[s].to = "ACTIVE" /\ req'[s].tenant \in provisioned')
      BY <1>0, <2>3, TypeSplit DEF Reactivate
  <2>4. ASSUME NEW r \in Req, RequestStep(r)
        PROVE  req'[s] = req[s]
    <3>1. req[r] \in ReqType
        BY <2>4, RequestAt, ReqFields
    <3>2. CASE CreateTenant(r) \/ Subscribe(r)
      <4>1. PICK at \in {"subscribe", "enqueue"} : req' = [req EXCEPT ![r].at = at]
          BY <3>2 DEF CreateTenant, Subscribe
      <4>2. req'[r].at = at
          BY <3>1, <4>1, TypeSplit DEF ReqType
      <4> QED BY <1>3, <4>1, <4>2, TypeSplit
    <3>3. CASE EnqueueTenant(r) \/ Reactivated(r) \/ RequestFails(r)
      <4>1. req' = [req EXCEPT ![r] = Idle]
          BY <3>3 DEF EnqueueTenant, Reactivated, RequestFails
      <4> QED BY <1>3, <4>1, TypeSplit DEF Idle
    <3> QED BY <2>4, <3>2, <3>3 DEF RequestStep
  <2>5. CASE Down
      BY <1>3, <2>5 DEF Down, Idle
  <2>6. CASE UNCHANGED req
      BY <2>1, <2>6
  <2> QED BY <2>1, <2>2, <2>3, <2>4, <2>5, <2>6
       DEF Next, Suspend, Publish, MigrateAll, RunStep, CreateJob, LookForSchema, CreateSchema,
       MarkMigrate, Migrate, MigrateFails, SeedTenant, MarkDone, SetTrial, RunFails,
          BeginFails, Deliver,
       Shutdown, Restart, Others, vars
<1> QED BY <1>2, <1>3 DEF LiveInv

(* A tenant whose requests are let through has its roles and its admin     *)
(* (assertTenantAccessible: 'Tenant is still provisioning'), unless it was *)
(* reactivated before it was provisioned.                                  *)
THEOREM ServedSeeded == Spec => []ServedIsSeededUnlessRevived
<1>1. Init => SeededInv /\ LiveInv
  <2> SUFFICES ASSUME Init PROVE SeededInv /\ LiveInv
      OBVIOUS
  <2>1. (\A x \in Runner : run[x].at = "idle") /\ (\A r \in Req : req[r].at = "idle")
      BY DEF Init, Idle
  <2> QED BY <2>1 DEF Init, SeededInv, ProvisionedIsSeeded, LiveInv
<1>2. TypeOK /\ SeededInv /\ LiveInv /\ [Next]_vars => SeededInv' /\ LiveInv'
    BY SeededStep, LiveStep
<1>3. LiveInv => ServedIsSeededUnlessRevived
    BY ServedIsLive DEF LiveInv, ServedIsSeededUnlessRevived
<1> QED BY <1>1, <1>2, <1>3, TypeCorrect, PTL DEF Spec

-----------------------------------------------------------------------------
(* Why a tenant that waits is worked on: something is about to start a run *)
(* for it, its job says FAILED, or the run that owns its latest job row is *)
(* under way.  That some run has the tenant would not do: a run whose row  *)
(* was replaced by a later one can fail without a trace.                   *)
Started(t) ==
    \/ \E r \in Req : req[r].at \in {"subscribe", "enqueue"} /\ req[r].tenant = t
    \/ Queued(t)
    \/ \E x \in Runner : run[x].at = "begin" /\ run[x].tenant = t
Failed(t) == job[t] # NoJob /\ job[t].state = "FAILED"
Owned(t) ==
    /\ job[t] # NoJob
    /\ \E x \in Runner : /\ job[t].by = x
                         /\ run[x].at \notin {"idle", "begin"} /\ run[x].tenant = t

WaitInv ==
    \A t \in Tenant \ lost :
        status[t] = "PROVISIONING" => Started(t) \/ Failed(t) \/ Owned(t)

(* What keeps a tenant going where neither runs nor job rows change.       *)
LEMMA WaitKept ==
    ASSUME UNCHANGED <<queue, run, job>>, NEW t,
           \A r \in Req : req[r].at \in {"subscribe", "enqueue"} /\ req[r].tenant = t =>
               req'[r].at \in {"subscribe", "enqueue"} /\ req'[r].tenant = t,
           Started(t) \/ Failed(t) \/ Owned(t)
    PROVE  Started(t)' \/ Failed(t)' \/ Owned(t)'
BY DEF Started, Failed, Owned, Queued

LEMMA WaitRun ==
    ASSUME TypeOK, NEW x \in Runner, RunStep(x), NEW t \in Tenant,
           t \notin lost', status'[t] = "PROVISIONING",
           status[t] = "PROVISIONING" => Started(t) \/ Failed(t) \/ Owned(t)
    PROVE  Started(t)' \/ Failed(t)' \/ Owned(t)'
<1> DEFINE u == run[x].tenant
<1>0. Runs(x) /\ u \in Tenant /\ run[x].at # "idle" /\ req' = req
  <2>1. run[x].at # "idle"
      BY DEF RunStep, CreateJob, LookForSchema, CreateSchema, MarkMigrate, Migrate, MigrateFails,
             SeedTenant, MarkDone, SetTrial, RunFails, BeginFails, At
  <2>2. UNCHANGED Others
      BY DEF RunStep, CreateJob, LookForSchema, CreateSchema, MarkMigrate, Migrate, MigrateFails,
             SeedTenant, MarkDone, SetTrial, RunFails, BeginFails
  <2> QED BY <2>1, <2>2, RunFields DEF Others
<1>1. Started(t) \/ Failed(t) \/ Owned(t)
  <2>1. status[t] = "PROVISIONING"
      BY <1>0, TypeSplit DEF RunStep, CreateJob, LookForSchema, CreateSchema, MarkMigrate, Migrate,
         MigrateFails, SeedTenant, MarkDone, SetTrial, RunFails, BeginFails, db
  <2> QED BY <2>1
<1>2. ASSUME NEW to \in RunAt, Goto(x, to)
      PROVE  /\ queue' = queue /\ run'[x].at = to /\ run'[x].tenant = u
             /\ \A y \in Runner \ {x} : run'[y] = run[y]
    BY <1>0, <1>2, GotoMoves
<1>3. ASSUME NEW failed, EndRun(x, failed)
      PROVE  /\ \A y \in Runner \ {x} : run'[y] = run[y]
             /\ Queued(t) => Started(t)'
  <2>1. /\ \A y \in Runner \ {x} : run'[y] = run[y]
        /\ \/ queue' = queue
           \/ /\ queue # <<>> /\ Head(queue) \in Tenant
              /\ run'[x] = Begin(Head(queue)) /\ queue' = Tail(queue)
      BY <1>3, EndRunMoves
  <2>2. CASE queue' = queue
      BY <2>1, <2>2 DEF Started, Queued
  <2>3. CASE /\ queue # <<>> /\ Head(queue) \in Tenant
             /\ run'[x] = Begin(Head(queue)) /\ queue' = Tail(queue)
    <3>0. (\E i \in DOMAIN queue : queue[i] = t) <=>
              (t = Head(queue) \/ \E i \in DOMAIN Tail(queue) : Tail(queue)[i] = t)
        BY <2>3, QueueShrinks, TypeSplit
    <3>1. Queued(t) => t = Head(queue) \/ Queued(t)'
        BY <2>3, <3>0 DEF Queued
    <3>2. run'[x].at = "begin" /\ run'[x].tenant = Head(queue)
        BY <2>3, BeginIsRun
    <3> QED BY <2>1, <3>1, <3>2 DEF Started
  <2> QED BY <2>1, <2>2, <2>3
<1>4. CASE CreateJob(x)
  <2>1. queue' = queue /\ run'[x].at = "schema" /\ run'[x].tenant = u
        /\ \A y \in Runner \ {x} : run'[y] = run[y]
      BY <1>2, <1>4 DEF CreateJob, RunAt
  <2>2. job' = [job EXCEPT ![u] = [by |-> x, step |-> "CREATE_SCHEMA", state |-> "RUNNING"]]
      BY <1>4 DEF CreateJob
  <2>3. CASE t = u
    <3>1. job'[t] = [by |-> x, step |-> "CREATE_SCHEMA", state |-> "RUNNING"]
        BY <2>2, <2>3, TypeSplit
    <3>2. job'[t] # NoJob /\ job'[t].by = x
        BY <3>1 DEF NoJob
    <3> QED BY <2>1, <2>3, <3>2 DEF Owned
  <2>4. CASE t # u
    <3>1. job'[t] = job[t]
        BY <2>2, <2>4, TypeSplit
    <3> QED BY <1>0, <1>1, <2>1, <2>4, <3>1 DEF Started, Failed, Owned, Queued
  <2> QED BY <2>3, <2>4
<1>5. CASE LookForSchema(x) \/ CreateSchema(x) \/ Migrate(x)
  <2>1. PICK to \in {"create", "migrate", "seed"} : Goto(x, to)
      BY <1>5 DEF LookForSchema, CreateSchema, Migrate
  <2>2. queue' = queue /\ run'[x].at = to /\ run'[x].tenant = u
        /\ \A y \in Runner \ {x} : run'[y] = run[y]
      BY <1>2, <2>1 DEF RunAt
  <2>3. job' = job /\ run[x].at # "begin"
      BY <1>5 DEF LookForSchema, CreateSchema, Migrate, At, db
  <2> QED BY <1>0, <1>1, <2>2, <2>3 DEF Started, Failed, Owned, Queued
<1>6. CASE MarkMigrate(x) \/ SeedTenant(x) \/ MarkDone(x)
  <2>1. PICK to \in {"history", "done", "trial"} : Goto(x, to)
      BY <1>6 DEF MarkMigrate, SeedTenant, MarkDone
  <2>2. queue' = queue /\ run'[x].at = to /\ run'[x].tenant = u
        /\ \A y \in Runner \ {x} : run'[y] = run[y]
      BY <1>2, <2>1 DEF RunAt
  <2>3. run[x].at # "begin"
      BY <1>6 DEF MarkMigrate, SeedTenant, MarkDone, At
  <2>4. PICK step \in Step, state \in {"RUNNING", "SUCCESS"} : JobRow(x, step, state)
      BY <1>6 DEF MarkMigrate, SeedTenant, MarkDone, Step
  <2>5. /\ \A v \in Tenant \ {u} : job'[v] = job[v]
        /\ IF job[u] # NoJob /\ job[u].by = x
           THEN job'[u] # NoJob /\ job'[u].by = x
           ELSE job'[u] = job[u]
      BY <1>0, <2>4, JobRowMoves
  <2>6. CASE t = u /\ job[t] # NoJob /\ job[t].by = x
      BY <2>2, <2>5, <2>6 DEF Owned
  <2>7. CASE ~(t = u /\ job[t] # NoJob /\ job[t].by = x)
    <3>1. job'[t] = job[t]
        BY <2>5, <2>7
    <3> QED BY <1>0, <1>1, <2>2, <2>3, <3>1 DEF Started, Failed, Owned, Queued
  <2> QED BY <2>6, <2>7
<1>7. CASE MigrateFails(x) \/ RunFails(x) \/ BeginFails(x)
  <2>1. /\ \A y \in Runner \ {x} : run'[y] = run[y]
        /\ Queued(t) => Started(t)'
      BY <1>3, <1>7 DEF MigrateFails, RunFails, BeginFails
  <2>2. CASE Unsaid(x)
    <3>1. t # u /\ job' = job
        BY <2>2 DEF Unsaid
    <3> QED BY <1>0, <1>1, <2>1, <3>1 DEF Started, Failed, Owned
  <2>3. CASE ~Unsaid(x)
    <3>1. run[x].at # "begin"
        BY <1>7, <2>3 DEF MigrateFails, RunFails, BeginFails, At
    <3>2. PICK step \in {"MIGRATE", job[u].step} :
              JobRow(x, step, "FAILED") /\ (job[u] # NoJob => step \in Step)
      <4>1. job[u] # NoJob => job[u].step \in Step
          BY <1>0, JobFields
      <4> QED BY <1>7, <2>3, <4>1 DEF MigrateFails, RunFails, BeginFails, Report, Step
    <3>3. /\ \A v \in Tenant \ {u} : job'[v] = job[v]
          /\ IF job[u] # NoJob /\ job[u].by = x
             THEN job'[u] # NoJob /\ job'[u].state = "FAILED"
             ELSE job'[u] = job[u]
        BY <1>0, <3>2, JobRowMoves
    <3>4. CASE t = u /\ job[t] # NoJob /\ job[t].by = x
        BY <3>3, <3>4 DEF Failed
    <3>5. CASE ~(t = u /\ job[t] # NoJob /\ job[t].by = x)
      <4>1. job'[t] = job[t]
          BY <3>3, <3>5
      <4>2. CASE Started(t)
          BY <1>0, <2>1, <3>1, <4>2 DEF Started
      <4>3. CASE Failed(t)
          BY <4>1, <4>3 DEF Failed
      <4>4. CASE Owned(t)
          BY <2>1, <3>5, <4>1, <4>4 DEF Owned
      <4> QED BY <1>1, <4>2, <4>3, <4>4
    <3> QED BY <3>4, <3>5
  <2> QED BY <2>2, <2>3
<1>8. CASE SetTrial(x)
  <2>1. t # u
      BY <1>0, <1>8, TypeSplit DEF SetTrial
  <2>2. /\ \A y \in Runner \ {x} : run'[y] = run[y]
        /\ Queued(t) => Started(t)'
      BY <1>3, <1>8 DEF SetTrial
  <2>3. job' = job
      BY <1>8 DEF SetTrial
  <2> QED BY <1>0, <1>1, <2>1, <2>2, <2>3 DEF Started, Failed, Owned
<1> QED BY <1>4, <1>5, <1>6, <1>7, <1>8 DEF RunStep

LEMMA WaitRequest ==
    ASSUME TypeOK, LiveInv, NEW r \in Req, RequestStep(r), NEW t \in Tenant,
           t \notin lost', status'[t] = "PROVISIONING",
           status[t] = "PROVISIONING" => Started(t) \/ Failed(t) \/ Owned(t)
    PROVE  Started(t)' \/ Failed(t)' \/ Owned(t)'
<1> DEFINE u == req[r].tenant
<1>0. req[r] \in ReqType /\ u \in Tenant
    BY RequestAt, ReqFields
<1>1. CASE CreateTenant(r) \/ Subscribe(r)
  <2>1. PICK at \in {"subscribe", "enqueue"} : req' = [req EXCEPT ![r].at = at]
      BY <1>1 DEF CreateTenant, Subscribe
  <2>2. /\ req'[r].at = at /\ req'[r].tenant = u
        /\ \A s \in Req \ {r} : req'[s] = req[s]
      BY <1>0, <2>1, TypeSplit DEF ReqType
  <2>3. CASE t = u
      BY <2>2, <2>3 DEF Started
  <2>4. CASE t # u
    <3>1. status'[t] = status[t] /\ UNCHANGED <<queue, run, job>>
        BY <1>1, <2>4, TypeSplit DEF CreateTenant, Subscribe, db
    <3> QED BY <2>2, <2>4, <3>1, WaitKept
  <2> QED BY <2>3, <2>4
<1>2. CASE EnqueueTenant(r)
  <2>1. /\ \A y \in Runner \ {Worker} : run'[y] = run[y]
        /\ \/ run[Worker] = Idle /\ run'[Worker] = Begin(u) /\ queue' = queue
           \/ run' = run /\ queue' = Append(queue, u)
      BY <1>0, <1>2, EnqueueMoves DEF EnqueueTenant
  <2>2. /\ \A s \in Req \ {r} : req'[s] = req[s]
        /\ job' = job /\ status' = status
      BY <1>2, TypeSplit DEF EnqueueTenant, db
  <2>3. Worker \in Runner
      BY DEF Runner
  <2>4. CASE run[Worker] = Idle /\ run'[Worker] = Begin(u) /\ queue' = queue
    <3>1. run[Worker].at = "idle" /\ run'[Worker].at = "begin" /\ run'[Worker].tenant = u
        BY <1>0, <2>4, BeginIsRun DEF Idle
    <3> QED BY <2>1, <2>2, <2>3, <2>4, <3>1 DEF Started, Failed, Owned, Queued
  <2>5. CASE run' = run /\ queue' = Append(queue, u)
    <3>0. (\E i \in DOMAIN Append(queue, u) : Append(queue, u)[i] = t) <=>
              (t = u \/ \E i \in DOMAIN queue : queue[i] = t)
      <4>1. queue \in Seq(Tenant)
          BY TypeSplit
      <4> HIDE DEF u
      <4> QED BY <1>0, <4>1, QueueGrows
    <3>1. Queued(t)' <=> (t = u \/ Queued(t))
        BY <2>5, <3>0 DEF Queued
    <3> QED BY <2>2, <2>5, <3>1 DEF Started, Failed, Owned
  <2> QED BY <2>1, <2>4, <2>5
<1>3. CASE Reactivated(r) \/ RequestFails(r)
  <2>1. req' = [req EXCEPT ![r] = Idle] /\ UNCHANGED <<queue, run, job>>
      BY <1>3 DEF Reactivated, RequestFails, db
  <2>2. status[t] = "PROVISIONING" /\ req[r].at \in {"create", "subscribe", "reactivate"}
        /\ (req[r].at = "subscribe" => u # t)
    <3>1. CASE Reactivated(r)
      <4>1. t # u
          BY <1>0, <3>1, TypeSplit DEF Reactivated, LiveInv
      <4> QED BY <3>1, <4>1, TypeSplit DEF Reactivated
    <3>2. CASE RequestFails(r)
        BY <3>2 DEF RequestFails, db
    <3> QED BY <1>3, <3>1, <3>2
  <2> QED BY <2>1, <2>2, WaitKept, TypeSplit
<1> QED BY <1>1, <1>2, <1>3 DEF RequestStep

LEMMA WaitStep ==
    ASSUME TypeOK, LiveInv, WaitInv, [Next]_vars
    PROVE  WaitInv'
<1> SUFFICES ASSUME NEW t \in Tenant, t \notin lost', status'[t] = "PROVISIONING"
             PROVE  Started(t)' \/ Failed(t)' \/ Owned(t)'
    BY DEF WaitInv
<1>1. ASSUME NEW r \in Req, Retry(r, t)
      PROVE  Started(t)'
  <2>1. req'[r].at = "enqueue" /\ req'[r].tenant = t
      BY <1>1, TypeSplit DEF Retry
  <2> QED BY <2>1 DEF Started
<1> SUFFICES ASSUME \A r \in Req : ~Retry(r, t)
             PROVE  Started(t)' \/ Failed(t)' \/ Owned(t)'
    BY <1>1
<1>2. t \notin lost
  <2>1. ASSUME NEW x \in Runner, RunStep(x)
        PROVE  lost \subseteq lost'
      BY <2>1 DEF RunStep, CreateJob, LookForSchema, CreateSchema, MarkMigrate, Migrate,
         MigrateFails, SeedTenant, MarkDone, SetTrial, RunFails, BeginFails, Report, Unsaid
  <2>2. CASE \A x \in Runner : ~RunStep(x)
      BY <2>2 DEF Next, RequestStep, SignUp, Retry, Reactivate, CreateTenant, Subscribe,
         EnqueueTenant, Reactivated, RequestFails, Suspend, Publish, MigrateAll, Deliver,
         Shutdown, Down, Restart, history, vars
  <2> QED BY <2>1, <2>2
<1>3. status[t] = "PROVISIONING" => Started(t) \/ Failed(t) \/ Owned(t)
    BY <1>2 DEF WaitInv
<1>4. ASSUME NEW r \in Req, NEW u \in Tenant, SignUp(r, u) \/ Retry(r, u) \/ Reactivate(r, u)
      PROVE  Started(t)' \/ Failed(t)' \/ Owned(t)'
  <2>1. UNCHANGED <<queue, run, job>> /\ status'[t] = status[t]
      BY <1>4, TypeSplit DEF SignUp, Retry, Reactivate, db
  <2>2. req[r].at = "idle" /\ \A s \in Req \ {r} : req'[s] = req[s]
      BY <1>4, TypeSplit DEF SignUp, Retry, Reactivate, Idle
  <2> QED BY <1>3, <2>1, <2>2, WaitKept
<1>5. ASSUME NEW r \in Req, RequestStep(r)
      PROVE  Started(t)' \/ Failed(t)' \/ Owned(t)'
    BY <1>3, <1>5, WaitRequest
<1>6. ASSUME NEW x \in Runner, RunStep(x)
      PROVE  Started(t)' \/ Failed(t)' \/ Owned(t)'
    BY <1>3, <1>6, WaitRun
<1>7. ASSUME NEW x \in Runner, NEW u \in Tenant, Deliver(x, u)
      PROVE  Started(t)' \/ Failed(t)' \/ Owned(t)'
  <2>1. /\ \A y \in Runner \ {x} : run'[y] = run[y]
        /\ run[x].at = "idle"
      BY <1>7, TypeSplit DEF Deliver, Idle
  <2>2. UNCHANGED <<queue, job, req, status>>
      BY <1>7 DEF Deliver, db
  <2> QED BY <1>3, <2>1, <2>2 DEF Started, Failed, Owned, Queued
<1>8. CASE Down
  <2>1. status[t] = "PROVISIONING" /\ ~Working(t)
      BY <1>8 DEF Down
  <2>2. ~Started(t)
      BY <2>1, ReqFields, RunFields DEF Started, Working, Queued, Runs
  <2>3. ~Owned(t)
      BY <2>1, RunFields DEF Owned, Working, Runs
  <2>4. job[t] # NoJob /\ job[t].state = "FAILED" /\ job[t] \in JobType
      BY <1>3, <2>1, <2>2, <2>3, JobFields DEF Failed
  <2>5. job'[t] = [job[t] EXCEPT !.by = None]
      BY <1>8, <2>4 DEF Down
  <2>6. job'[t].state = "FAILED"
      BY <2>4, <2>5 DEF JobType
  <2> QED BY <2>6 DEF Failed, NoJob
<1>9. CASE /\ UNCHANGED <<queue, run, job, req>>
           /\ status[t] = "PROVISIONING"
    BY <1>3, <1>9, WaitKept
<1>10. ASSUME NEW u \in Tenant, Suspend(u)
       PROVE  status[t] = "PROVISIONING" /\ UNCHANGED <<queue, run, job, req>>
    BY <1>10, TypeSplit DEF Suspend
<1>11. \/ \E r \in Req : \/ \E u \in Tenant : SignUp(r, u) \/ Retry(r, u) \/ Reactivate(r, u)
                         \/ RequestStep(r)
       \/ \E x \in Runner : RunStep(x) \/ \E u \in Tenant : Deliver(x, u)
       \/ Down
       \/ \E u \in Tenant : Suspend(u)
       \/ UNCHANGED <<status, queue, run, job, req>>
    BY DEF Next, Publish, MigrateAll, Shutdown, Restart, vars, db
<1> QED BY <1>4, <1>5, <1>6, <1>7, <1>8, <1>9, <1>10, <1>11

(* A tenant still PROVISIONING is worked on or its job says FAILED, so that*)
(* getProvisionStatus shows an end, unless its sign-up failed half way, the*)
(* process ended or a run of it failed unsaid, and it was not retried: no  *)
(* overlap of the queue with messages and retries, each replacing the      *)
(* latest job row, leaves a tenant waiting for nobody.                     *)
THEOREM WaitingWorkedOn == Spec => []WaitingIsWorkedOnUnlessLost
<1>1. Init => SeededInv /\ LiveInv /\ WaitInv
  <2> SUFFICES ASSUME Init PROVE SeededInv /\ LiveInv /\ WaitInv
      OBVIOUS
  <2>1. (\A x \in Runner : run[x].at = "idle") /\ (\A r \in Req : req[r].at = "idle")
      BY DEF Init, Idle
  <2> QED BY <2>1 DEF Init, SeededInv, ProvisionedIsSeeded, LiveInv, WaitInv
<1>2. /\ TypeOK /\ SeededInv /\ LiveInv /\ WaitInv /\ [Next]_vars
      => SeededInv' /\ LiveInv' /\ WaitInv'
    BY SeededStep, LiveStep, WaitStep
<1>3. TypeOK /\ WaitInv => WaitingIsWorkedOnUnlessLost
  <2> SUFFICES ASSUME TypeOK, NEW t \in Tenant, Started(t) \/ Failed(t) \/ Owned(t)
               PROVE  Working(t) \/ (job[t] # NoJob /\ job[t].state = "FAILED")
      BY DEF WaitInv, WaitingIsWorkedOnUnlessLost
  <2>1. CASE Started(t)
      BY <2>1, ReqFields, RunFields DEF Started, Working, Queued, Runs
  <2>2. CASE Owned(t)
      BY <2>2, RunFields DEF Owned, Working, Runs
  <2> QED BY <2>1, <2>2 DEF Failed
<1> QED BY <1>1, <1>2, <1>3, TypeCorrect, PTL DEF Spec
=============================================================================
