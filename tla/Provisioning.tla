---------------------------- MODULE Provisioning ----------------------------
(***************************************************************************)
(* How a tenant comes to be served: sign-up, the queue in the server's     *)
(* memory, the pipeline that builds the schema, messages that ask for it   *)
(* again, crashes and restarts, and what the platform's users do meanwhile.*)
(* Sources: src/src/modules/provisioning/, platform-tenants.service.ts,    *)
(* tenant-signup.service.ts and src/scripts/lib/provision-pipeline.cjs.    *)
(*                                                                         *)
(* One server process.  A pipeline takes a step at every await; Flyway and *)
(* the seed run as child processes it waits for, so nothing else happens   *)
(* in the server meanwhile.                                                *)
(***************************************************************************)
EXTENDS TenantContext, Sequences

CONSTANTS
    Req,        \* requests of sign-up and of platform users
    Worker,     \* the drain loop of the queue
    Handler,    \* message handlers that may run at a time
    MaxRetries, \* bound: retries by platform users
    MaxCrashes, \* bound: ends of the process
    MaxMessages \* bound: messages published

ASSUME ProvisioningAssumption ==
    /\ Worker \notin Handler
    /\ MaxRetries \in Nat /\ MaxCrashes \in Nat /\ MaxMessages \in Nat

Runner == {Worker} \cup Handler
Step == {"CREATE_SCHEMA", "MIGRATE", "SEED", "DONE"}

VARIABLES
    status,      \* platform.tenants.status
    provisioned, \* tenants whose provisioned_at is set
    job,         \* the latest provisioning job of a tenant
    schema,      \* the tenant's schema: none, empty, partly or fully migrated
    seeded,      \* tenants whose schema holds roles, menus and an admin
    queue,       \* ProvisioningQueueService.queue
    run,         \* pipelines running
    req,         \* requests in flight
    process,     \* the server: up, draining or down
    messages,    \* tenants named by messages: waiting, and delivered but not
                 \* acknowledged, which no handler ever does
    used,        \* retries, crashes and messages so far
    lost,        \* history: tenants whose sign-up failed half way, whose work
                 \* ended with the process, or a run of which failed without
                 \* saying so, and that were not retried since
    revived      \* history: tenants reactivated before they were provisioned

vars == <<status, provisioned, job, schema, seeded, queue, run, req, process,
          messages, used, lost, revived>>
db == <<status, provisioned, job, schema, seeded>>
history == <<lost, revived>>

Idle == [at |-> "idle"]
NoJob == [state |-> "NONE"]

TypeOK ==
    /\ status \in [Tenant -> TenantStatus]
    /\ provisioned \subseteq Tenant
    /\ job \in [Tenant -> [by : Runner \cup {None}, step : Step,
                           state : {"RUNNING", "FAILED", "SUCCESS"}] \cup {NoJob}]
    /\ schema \in [Tenant -> {"none", "empty", "partial", "migrated"}]
    /\ seeded \subseteq Tenant
    /\ queue \in Seq(Tenant)
    /\ queue # <<>> => run[Worker] # Idle \/ process = "draining"
    /\ run \in [Runner -> {Idle} \cup
          [at : {"begin", "schema", "create", "migrate", "history", "seed", "done", "trial"},
           tenant : Tenant]]
    /\ req \in [Req -> {Idle} \cup
          [at : {"create", "subscribe", "enqueue", "reactivate"}, tenant : Tenant,
           to : TenantStatus]]
    /\ process \in {"up", "draining", "down"}
    /\ messages \in [{"waiting", "unacked"} -> SUBSET Tenant]
    /\ used \in [{"retries", "crashes", "messages"} -> Nat]
    /\ lost \subseteq Tenant /\ revived \subseteq Tenant

-----------------------------------------------------------------------------
Init ==
    /\ status = [t \in Tenant |-> "ABSENT"]
    /\ provisioned = {} /\ seeded = {}
    /\ job = [t \in Tenant |-> NoJob]
    /\ schema = [t \in Tenant |-> "none"]
    /\ queue = <<>>
    /\ run = [x \in Runner |-> Idle]
    /\ req = [r \in Req |-> Idle]
    /\ process = "up"
    /\ messages = [m \in {"waiting", "unacked"} |-> {}]
    /\ used = [u \in {"retries", "crashes", "messages"} |-> 0]
    /\ lost = {} /\ revived = {}

Alive == process \in {"up", "draining"}
Begin(t) == [at |-> "begin", tenant |-> t]
Use(what, bound) == used[what] < bound /\ used' = [used EXCEPT ![what] = @ + 1]

Working(t) ==
    \/ \E i \in DOMAIN queue : queue[i] = t
    \/ \E x \in Runner : run[x] # Idle /\ run[x].tenant = t
    \/ \E r \in Req : req[r] # Idle /\ req[r].tenant = t

(* enqueue calls drain, which takes the job at once unless it is at work   *)
(* or the module is being destroyed.                                       *)
Enqueue(t) ==
    IF run[Worker] = Idle /\ process = "up"
    THEN run' = [run EXCEPT ![Worker] = Begin(t)] /\ UNCHANGED queue
    ELSE queue' = Append(queue, t) /\ UNCHANGED run

(* The loop of drain takes the next job, whether the last one failed or not*)
(* and also while the module is being destroyed.                           *)
(* Mutated form: a failed job ends the loop.                               *)
NextJobUnlessFailed(x, failed) == ~failed /\ x = Worker /\ queue # <<>>
NextJob(x, failed) == x = Worker /\ queue # <<>>

EndRun(x, failed) ==
    IF NextJob(x, failed)
    THEN run' = [run EXCEPT ![x] = Begin(Head(queue))] /\ queue' = Tail(queue)
    ELSE run' = [run EXCEPT ![x] = Idle] /\ UNCHANGED queue

-----------------------------------------------------------------------------
(* createAndEnqueue, for sign-up and platform alike.  The slug is checked  *)
(* twice and is unique; the subscription is a statement of its own.        *)
SignUp(r, t) ==
    /\ Alive /\ req[r] = Idle
    /\ status[t] = "ABSENT"
    /\ req' = [req EXCEPT ![r] = [at |-> "create", tenant |-> t, to |-> "PROVISIONING"]]
    /\ UNCHANGED <<db, queue, run, process, messages, used, history>>

CreateTenant(r) ==
    LET t == req[r].tenant
    IN  /\ req[r].at = "create"
        /\ status[t] = "ABSENT"
        /\ status' = [status EXCEPT ![t] = "PROVISIONING"]
        /\ req' = [req EXCEPT ![r].at = "subscribe"]
        /\ UNCHANGED <<provisioned, job, schema, seeded, queue, run, process, messages, used,
                       history>>

Subscribe(r) ==
    /\ req[r].at = "subscribe"
    /\ req' = [req EXCEPT ![r].at = "enqueue"]
    /\ UNCHANGED <<db, queue, run, process, messages, used, history>>

EnqueueTenant(r) ==
    /\ req[r].at = "enqueue"
    /\ Enqueue(req[r].tenant)
    /\ req' = [req EXCEPT ![r] = Idle]
    /\ UNCHANGED <<db, process, messages, used, history>>

(* A statement fails: the unique slug, or the database.  What the request  *)
(* has written stays.                                                      *)
RequestFails(r) ==
    /\ req[r].at \in {"create", "subscribe", "reactivate"}
    /\ req' = [req EXCEPT ![r] = Idle]
    /\ lost' = IF req[r].at = "subscribe" THEN lost \cup {req[r].tenant} ELSE lost
    /\ UNCHANGED <<db, queue, run, process, messages, used, revived>>

(* retryProvision: from any status.                                        *)
Retry(r, t) ==
    /\ Alive /\ req[r] = Idle
    /\ status[t] # "ABSENT"
    /\ Use("retries", MaxRetries)
    /\ status' = [status EXCEPT ![t] = "PROVISIONING"]
    /\ req' = [req EXCEPT ![r] = [at |-> "enqueue", tenant |-> t, to |-> "PROVISIONING"]]
    /\ lost' = lost \ {t}
    /\ UNCHANGED <<provisioned, job, schema, seeded, queue, run, process, messages, revived>>

(* suspendTenant: from any status.                                         *)
Suspend(t) ==
    /\ Alive
    /\ status[t] # "ABSENT"
    /\ status' = [status EXCEPT ![t] = "SUSPENDED"]
    /\ UNCHANGED <<provisioned, job, schema, seeded, queue, run, req, process, messages, used,
                   history>>

(* reactivateTenant reads the tenant and then writes its status.           *)
Reactivate(r, t) ==
    /\ Alive /\ req[r] = Idle
    /\ status[t] \in {"SUSPENDED", "PAST_DUE"}
    /\ req' = [req EXCEPT ![r] = [at |-> "reactivate", tenant |-> t,
                                  to |-> IF t \in provisioned THEN "ACTIVE" ELSE "TRIAL"]]
    /\ UNCHANGED <<db, queue, run, process, messages, used, history>>

Reactivated(r) ==
    LET t == req[r].tenant
    IN  /\ req[r].at = "reactivate"
        /\ status' = [status EXCEPT ![t] = req[r].to]
        /\ req' = [req EXCEPT ![r] = Idle]
        /\ revived' = IF req[r].to = "TRIAL" THEN revived \cup {t} ELSE revived
        /\ UNCHANGED <<provisioned, job, schema, seeded, queue, run, process, messages, used,
                       lost>>

-----------------------------------------------------------------------------
(* runProvisionPipeline, from one await to the next.                       *)
At(x, at) == Alive /\ run[x].at = at
Goto(x, at) == run' = [run EXCEPT ![x].at = at] /\ UNCHANGED queue
Others == <<req, process, messages, used, revived>>

(* The run's own job row, which a later run's may have replaced as latest. *)
(* Mutated form: the end of a failed run is not recorded.                  *)
JobRowKept(x, step, state) ==
    IF state = "FAILED" THEN UNCHANGED job
    ELSE job' = [job EXCEPT ![run[x].tenant].step = step, ![run[x].tenant].state = state]
JobRow(x, step, state) ==
    LET t == run[x].tenant
    IN  job' = IF job[t] # NoJob /\ job[t].by = x
               THEN [job EXCEPT ![t].step = step, ![t].state = state] ELSE job

(* A run ends in failure: its row says so, unless the update of the row in *)
(* the catch fails as well.                                                *)
Unsaid(x) == UNCHANGED job /\ lost' = lost \cup {run[x].tenant}
Report(x, step) == (JobRow(x, step, "FAILED") /\ UNCHANGED lost) \/ Unsaid(x)

CreateJob(x) ==
    /\ At(x, "begin")
    /\ job' = [job EXCEPT ![run[x].tenant] =
                  [by |-> x, step |-> "CREATE_SCHEMA", state |-> "RUNNING"]]
    /\ Goto(x, "schema")
    /\ UNCHANGED <<status, provisioned, schema, seeded, lost, Others>>

LookForSchema(x) ==
    /\ At(x, "schema")
    /\ Goto(x, IF schema[run[x].tenant] = "none" THEN "create" ELSE "migrate")
    /\ UNCHANGED <<db, lost, Others>>

CreateSchema(x) ==
    /\ At(x, "create")
    /\ schema[run[x].tenant] = "none"
    /\ schema' = [schema EXCEPT ![run[x].tenant] = "empty"]
    /\ Goto(x, "migrate")
    /\ UNCHANGED <<status, provisioned, job, seeded, lost, Others>>

MarkMigrate(x) ==
    /\ At(x, "migrate")
    /\ JobRow(x, "MIGRATE", "RUNNING")
    /\ Goto(x, "history")
    /\ UNCHANGED <<status, provisioned, schema, seeded, lost, Others>>

(* Flyway writes its history table first: once there, it is not run again. *)
HistoryExists(t) == schema[t] \in {"partial", "migrated"}

Migrate(x) ==
    LET t == run[x].tenant
    IN  /\ At(x, "history")
        /\ schema' = IF HistoryExists(t) THEN schema ELSE [schema EXCEPT ![t] = "migrated"]
        /\ Goto(x, "seed")
        /\ UNCHANGED <<status, provisioned, job, seeded, lost, Others>>

MigrateFails(x) ==
    LET t == run[x].tenant
    IN  /\ At(x, "history") /\ ~HistoryExists(t)
        /\ \E s \in {"empty", "partial"} : schema' = [schema EXCEPT ![t] = s]
        /\ Report(x, "MIGRATE")
        /\ EndRun(x, TRUE)
        /\ UNCHANGED <<status, provisioned, seeded, Others>>

(* The seed needs tables that a partial migration may have made.           *)
(* Mutated form: a seed that failed is not noticed.                        *)
SeedIgnored(t) == seeded
Seed(t) == seeded \cup {t}

SeedTenant(x) ==
    LET t == run[x].tenant
    IN  /\ At(x, "seed")
        /\ schema[t] \in {"partial", "migrated"}
        /\ JobRow(x, "SEED", "RUNNING")
        /\ seeded' = Seed(t)
        /\ Goto(x, "done")
        /\ UNCHANGED <<status, provisioned, schema, lost, Others>>

MarkDone(x) ==
    /\ At(x, "done")
    /\ JobRow(x, "DONE", "SUCCESS")
    /\ Goto(x, "trial")
    /\ UNCHANGED <<status, provisioned, schema, seeded, lost, Others>>

(* TRIAL, whatever the status has become.                                  *)
SetTrial(x) ==
    /\ At(x, "trial")
    /\ status' = [status EXCEPT ![run[x].tenant] = "TRIAL"]
    /\ provisioned' = provisioned \cup {run[x].tenant}
    /\ EndRun(x, FALSE)
    /\ UNCHANGED <<job, schema, seeded, lost, Others>>

(* Any step inside the try fails.                                          *)
RunFails(x) ==
    /\ Alive /\ run[x].at \notin {"idle", "begin"}
    /\ Report(x, job[run[x].tenant].step)
    /\ EndRun(x, TRUE)
    /\ UNCHANGED <<status, provisioned, schema, seeded, Others>>

(* Reading the tenant and creating the job row are before the try: when    *)
(* they fail no row says so.                                               *)
BeginFails(x) ==
    /\ At(x, "begin")
    /\ Unsaid(x)
    /\ EndRun(x, TRUE)
    /\ UNCHANGED <<status, provisioned, schema, seeded, Others>>

RunStep(x) ==
    \/ CreateJob(x) \/ LookForSchema(x) \/ CreateSchema(x) \/ MarkMigrate(x)
    \/ Migrate(x) \/ MigrateFails(x) \/ SeedTenant(x) \/ MarkDone(x) \/ SetTrial(x)
    \/ RunFails(x) \/ BeginFails(x)

-----------------------------------------------------------------------------
(* A message asks for a tenant to be provisioned, beside the queue.        *)
Publish(t) ==
    /\ status[t] # "ABSENT"
    /\ Use("messages", MaxMessages)
    /\ messages' = [messages EXCEPT !["waiting"] = @ \cup {t}]
    /\ UNCHANGED <<db, queue, run, req, process, history>>

Deliver(x, t) ==
    /\ process = "up"
    /\ x \in Handler /\ run[x] = Idle
    /\ t \in messages["waiting"]
    /\ run' = [run EXCEPT ![x] = Begin(t)]
    /\ messages' = [m \in {"waiting", "unacked"} |->
          IF m = "waiting" THEN messages[m] \ {t} ELSE messages[m] \cup {t}]
    /\ UNCHANGED <<db, queue, req, process, used, history>>

(* onModuleDestroy.                                                        *)
Shutdown ==
    /\ process = "up"
    /\ used["crashes"] < MaxCrashes
    /\ process' = "draining"
    /\ UNCHANGED <<db, queue, run, req, messages, used, history>>

(* The process ends, by a crash or after onModuleDestroy: memory is gone,  *)
(* Flyway may stop half way, and the broker takes back what is not         *)
(* acknowledged.                                                           *)
Down ==
    /\ Alive
    /\ Use("crashes", MaxCrashes)
    /\ process' = "down"
    /\ queue' = <<>>
    /\ run' = [x \in Runner |-> Idle]
    /\ req' = [r \in Req |-> Idle]
    /\ job' = [t \in Tenant |-> IF job[t] = NoJob THEN NoJob ELSE [job[t] EXCEPT !.by = None]]
    /\ LET cut == {t \in Tenant : /\ schema[t] = "empty"
                                  /\ \E x \in Runner : At(x, "history") /\ run[x].tenant = t}
       IN  \E half \in SUBSET cut :
              schema' = [t \in Tenant |-> IF t \in half THEN "partial" ELSE schema[t]]
    /\ messages' = [m \in {"waiting", "unacked"} |->
          IF m = "waiting" THEN messages["waiting"] \cup messages["unacked"] ELSE {}]
    /\ lost' = lost \cup {t \in Tenant : status[t] = "PROVISIONING" /\ Working(t)}
    /\ UNCHANGED <<status, provisioned, seeded, revived>>

Restart ==
    /\ process = "down"
    /\ process' = "up"
    /\ UNCHANGED <<db, queue, run, req, messages, used, history>>

(* flyway-migrate-all-tenants.cjs, a process of its own, brings a tenant's *)
(* schema up to date; Flyway makes it when it is not there.                *)
MigrateAll(t) ==
    /\ status[t] \notin {"ABSENT", "CANCELLED"}
    /\ schema[t] # "migrated"
    /\ schema' = [schema EXCEPT ![t] = "migrated"]
    /\ UNCHANGED <<status, provisioned, job, seeded, queue, run, req, process, messages, used,
                   history>>

RequestStep(r) ==
    \/ CreateTenant(r) \/ Subscribe(r) \/ EnqueueTenant(r) \/ Reactivated(r)
    \/ RequestFails(r)

Next ==
    \/ \E r \in Req : \/ \E t \in Tenant : SignUp(r, t) \/ Retry(r, t) \/ Reactivate(r, t)
                      \/ RequestStep(r)
    \/ \E t \in Tenant : Suspend(t) \/ Publish(t) \/ MigrateAll(t)
    \/ \E x \in Runner : RunStep(x) \/ \E t \in Tenant : Deliver(x, t)
    \/ Shutdown \/ Down \/ Restart

Spec == Init /\ [][Next]_vars

(* A statement in flight is answered; a process being shut down ends.      *)
FairSpec ==
    /\ Spec
    /\ \A x \in Runner : WF_vars(RunStep(x))
    /\ \A r \in Req : WF_vars(RequestStep(r))
    /\ WF_vars(process = "draining" /\ Down)
-----------------------------------------------------------------------------
(* A tenant that was ever provisioned, and so can become ACTIVE again, has *)
(* its roles and its admin (the pipeline sets provisioned_at last), over   *)
(* any overlap of runs, failures, crashes and retries.                     *)
ProvisionedIsSeeded ==
    /\ provisioned \subseteq seeded
    /\ \A t \in Tenant : job[t] # NoJob /\ job[t].state = "SUCCESS" => t \in seeded

(* A tenant still PROVISIONING is being worked on or its job says FAILED,  *)
(* so that its poll shows an end (getProvisionStatus).  Lost are those of  *)
(* which the sign-up failed half way, the process ended, or a run failed   *)
(* before its try or could not write FAILED: then only a retry helps.      *)
WaitingIsWorkedOnUnlessLost ==
    \A t \in Tenant \ lost : status[t] = "PROVISIONING" =>
        Working(t) \/ (job[t] # NoJob /\ job[t].state = "FAILED")

(* What a tenant's own token asks for.                                     *)
Ask(t) == [claim |-> Claim(t), header |-> None, body |-> None, host |-> None, default |-> None,
           required |-> TRUE, polls |-> FALSE]
Served(t) == Resolve(Ask(t), status) = t

(* A tenant whose requests are let through has its roles and its admin     *)
(* (tenant-resolution.service.ts:156: 'Tenant is still provisioning'),     *)
(* unless it was suspended and reactivated before it was provisioned.      *)
ServedIsSeededUnlessRevived == \A t \in Tenant \ revived : Served(t) => t \in seeded

(* A suspended tenant is served again only by being reactivated            *)
(* (platform-tenants.controller.ts:52: 'Suspend tenant (blocks tenant API  *)
(* login)').  Does not hold: a pipeline under way ends in TRIAL.           *)
SuspendedStaysRefused ==
    [][\A t \in Tenant : status[t] = "SUSPENDED" /\ Served(t)' =>
          \E r \in Req : Reactivated(r) /\ req[r].tenant = t]_vars

(* A tenant does not stay PROVISIONING for ever without its job saying     *)
(* FAILED, unless it was lost: the drain loop outlives failed jobs.        *)
ProvisioningEnds ==
    \A t \in Tenant :
        status[t] = "PROVISIONING" ~>
            \/ status[t] # "PROVISIONING" \/ t \in lost
            \/ job[t] # NoJob /\ job[t].state = "FAILED"
=============================================================================
