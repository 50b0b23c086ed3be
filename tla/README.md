# Verification of verorun-standard

TLA+ models of the parts of verorun-standard where several threads and worker
processes work on shared rows, with TLC runs that check them on small
instances and proofs, checked by TLAPS, that hold for every value of the
constants. Paths are relative to the repository; line numbers are in
`PROJECT.json` (`map` for definitions, `hazards`, `findings`).

- [1 The system](#1-the-system)
- [2 The modules](#2-the-modules)
- [3 The runs](#3-the-runs)
- [4 The proofs](#4-the-proofs)
- [5 Where the code and its documentation differ](#5-where-the-code-and-its-documentation-differ)
- [6 What is not modelled](#6-what-is-not-modelled)
- [7 Plan](#7-plan)

## 1 The system

The product is a set of Flask sites (admin, main site, auth-center) under
gunicorn with **two worker processes** that are recycled after a number of
requests (`deploy/supervisord.conf`), one PostgreSQL database, and Python
packages for automation (`orchestrator`), agents (`agent_matrix`) and plugins
(`plugin_manager`). There is no message broker: processes interact through
rows, threads of one process through module-level dictionaries and locks.
`m.get_db()` is one transaction per `with` block, so what the code reads in
one block and writes in the next can be separated by anybody else's step, and a
worker that is recycled takes its daemon threads with it. Hence every model
makes **one step of each transaction and each lock section**, and lets a process
die between any two steps.

| component | state | operations | who it works with | what makes it correct |
|---|---|---|---|---|
| workflow engine `orchestrator/workflow_engine.py` | `workflow_instances`, `workflow_node_instances`; per thread: queue, visited, node_outputs; per process: `_resume_locks` | run, approve/deny, pause, resume, cancel, timeouts | node handlers; HTTP requests; the scheduler and triggers that start it | one thread at a time walks the graph, along its edges; statuses only go forward; a rejection stops it; threads end |
| scheduler `orchestrator/scheduler.py` | `scheduler_leader` lease row, `cron_jobs`, one APScheduler per process, `_is_leader` | start, heartbeat, add/update/pause/resume/remove a job, plugin jobs, pause/resume the scheduler | workflow engine (a job starts a workflow), plugins | one leader; jobs run there and only there; there is one again after a crash |
| job runs (`_execute_job_wrapper`, `run_job_now`) | `cron_jobs.last_status`, `run_count`, `job_dependencies`; per process `_RUNNING_NOW` and APScheduler's instances | run, retry, count, trigger dependents; pause, resume, remove a job | scheduler, engine | what is shown as running runs; executions and their dependents end |
| workflow definitions `orchestrator/workflow_api.py` | `workflow_defs`, `workflow_runs`, and the rows of the engine and the scheduler that hang from them | create, update, delete, run, list runs | engine (instances, admission), scheduler (the cron job), the automation pages | definition, engine row and cron job agree; a deletion leaves nothing; runs are traced; the limit of concurrent instances |
| model failover `agent_matrix/failover.py` | breaker per model and process, `ai_model_health`, `_HEALTH_CACHE` | call, stream, record, reset, weekly probe | agents, auth-center's model sync | one model answers a request; an open breaker is bypassed only on fresh evidence; no model is shut off for good |
| key pool `agent_matrix/engine.py` | keys, pointer, cooldown per key in memory and in the table | pick, mark cooldown, clear, retry on 429 | inside one candidate of the failover engine | a cooling key is not picked while another is free; attempts are bounded |
| tool approval `agent_matrix/approval.py` | tickets and grants with expiry, modes | request, decide, check | agent tools, admin UI | nothing risky runs without a decision; an approved call can run |
| agent runs `agent_runner.py`, `loop_gates.py`, `context_manager.py`, `agent_matrix/routes.py` | transcript, round, gates; checkpoint file; `_STREAM_RUNS`, `_STREAM_STOP` per process; `agent_stream_runs` | stream, run tools, compact, checkpoint, resume, cancel | failover (the model), tools, clients | a legal transcript whatever cuts it; no executed tool forgotten; a cancel reaches the run; runs end and leave nothing |
| planning, discussion, orchestrator queue | task rows, iteration counters | plan, discuss, dispatch | agent runs | they stop |
| business events `plugin_manager/event_bus.py` | `event_outbox`; per process: handlers, pool and its queue | subscribe, emit, dispatch, write back, claim again | plugins' handlers; everything that emits | at least once: closed only when all handlers accepted it, or given up after the attempts |
| plugin lifecycle `plugin_manager/manager.py` | `plugin_registry`, tables and files of the plugin; per worker: `_cache` with its fingerprint, `_instances`, subscribed handlers | install, enable, activate, disable, uninstall, upgrade, configure, start | business events (handlers), scheduler (plugin jobs) | caches follow the registry; an uninstall leaves nothing |
| plugin commerce `payment.py`, `license.py`, `subscription.py`, routes of `plugin_manager/routes.py` | orders, one licence per plugin, subscription rows | purchase, notify, refund, renew, change, cancel; the daily renewal and grace scans | payment providers, licence service (external); every admin worker's scheduler | an order is booked once; nothing stays in force past its end |
| identity `auth-center/services` | tokens, sessions, codes with expiry | issue, refresh, revoke | all sites | revoked means revoked |
| module policy, model catalogue | trial and payment state per module; models | daily scan, sync, probe | failover (probe writes the health table) | statuses follow the calendar |
| the rest: caches, rate limiter, guardian, supervision, themes, i18n, providers | rebuildable data or configuration | | | |

Which of them are modelled, and why others are not, is in section 6 and, part by
part, under `components` in `PROJECT.json`.

**What is hard here.** Reads in one transaction that decide writes in a later one
(reviews, pause/cancel, notifications, renewals, saves of a definition); two workers with caches and locks
of their own in front of one table (resume locks, breakers, health cache, APS
job stores); a lease that is lost without notice; threads that die with a
recycled worker; requests that were let through before a breaker opened;
approvals that arrive after the timeout; leases, retries and duplicates of
events; executions that are cancelled, resumed or cut off between a tool call
and its checkpoint. `hazards` in `PROJECT.json` has each of
them at its line with the properties that cover it.

## 2 The modules

Each component has a module with its state, actions and properties, an `MC...`
module with the small definitions its `.cfg` files use, and a `...Proofs`
module where something is proved; `SchedulerLeader` and `CronJobs`, both about
`orchestrator/scheduler.py`, share one (`SchedulerProofs`), for which the operators
of `CronJobs` that have a namesake carry the prefix `Cron`. Operators marked `fault:` in a module are not part of `Next`; they are
variants of the operator that follows them, with a plausible bug, that show that
the property they are for can fail.

### WorkflowEngine

One instance of a workflow, from the moment `run_workflow` has inserted its rows.

| model | code |
|---|---|
| `inst`, `cur`, `nstat` | `workflow_instances.status`, `.current_node_id`, `workflow_node_instances.status` |
| `queue`, `visited`, `out` | the locals of `_execute_workflow_async` and of the resume thread; of `node_outputs` only what edge conditions look at |
| `pc`, `item` | where the executor (`Main`) and each review request with its resume thread are |
| `lock` | `_resume_locks`, one per process |
| `op` | a pause/resume/cancel between its read and its write |
| `did` | history: what has ever happened to a node |
| `PopMain`, `PopResumed`, `RunNode`, `PassOver`, `Handler...` | the loop, `_execute_node`, the except branches with `on_error` |
| `LeaveMainLoop`, `MainTimesOut`, `Close` | the ways out of the loop and the closing writes |
| `Review`, `Approve`, `Resume...`, `TakeResumeLock`, `ApprovalTooLate`, `Deny...`, `SkipPending` | `approve_node`, `_resume_after_approval` |
| `ControlReads`, `ControlWrites` | `pause_instance`, `resume_instance`, `cancel_instance` |
| `WorkerDies` | a recycled or killed worker |

A handler is abstracted to how it can end (completed, failed, asks for an
approval); a definition is a set of nodes and conditional edges, and the order
in which edges are listed is arbitrary (`SetToSeqs`), so a result holds for each
order. All three `on_error` policies are in the model; the runs use `skip` and
`pause`, and `abort` is covered by the proofs, which hold for each of them.
Timeouts may strike at any iteration.

### SchedulerLeader

The schedulers of all processes around one lease row.

| model | code |
|---|---|
| `holder`, `age` | `scheduler_leader.holder`, and `expires_at` as the time since it was written |
| `election`, `active` | the switch in `system_config`, the active rows of `cron_jobs` |
| `hb`, `won`, `todo` | progress of `start()` and of a heartbeat: query, verdict, jobs still to switch |
| `leader` | `_is_leader` with `_leadership_checked` |
| `running`, `jobs`, `susp` | the process' APScheduler: not paused, registered jobs, paused ones |
| `req`, `left`, `rjob` | the HTTP request that changes jobs, step by step |
| `beat`, `stale` | time and history used by the bounds and by the properties |
| `Start`, `TryAcquire`, `ElectionOff`, `ProbeFails` | `start`, `_try_acquire_leadership` with its three answers |
| `ApplyLeadership`, `ListJobs`, `SwitchJob` | `_heartbeat`, `_apply_leadership`, `_set_business_jobs_suspended` |
| `EditJob` ... `ResumeScheduler` and the steps under `RequestGoesOn` | `add_job`, `update_job`, `pause_job`, `resume_job`, `remove_job`, `add_plugin_job`, `pause`, `resume`, `_schedule_job` |
| `Die`, `FlipElection`, `Tick` | a recycled worker, an administrator, time |

The heartbeat thread and the request thread of a process interleave at every
step. Requests of one process are serialised in the model (one request thread),
requests of different processes are not. A restarted worker is a new `Process`
(its id contains the pid). Time: `Tick` is refused while a heartbeat is later
than `Gap` after the last query or takes longer than `Span`. The code does not
enforce either bound: the heartbeat is a job like any other in a pool of eight
threads. The bounds are constants for that reason, and the theorems that need
them say so (`Timely`).

`Lease` is what the election promises, without row, clock and heartbeats: an
owner, those who act, and four steps (`Grant`, `Act`, `Leave`, `RunOut`). The
lease runs out only when nobody acts on it, and is granted only to its owner or
when it has run out. The mapping is in `SchedulerLeader`: the owner (`Owner`) is
the holder of a row that has not expired, those who act (`Acting`) are the
processes that lead. A process that dies or is paused stops acting and keeps
the lease until it runs out.

### Failover

| model | code |
|---|---|
| `health` | `ai_model_health`: status; `circuit_open` is written with status `cooldown` and only then |
| `fails`, `open`, `cool`, `next` | `CircuitBreaker` per process and model: failures, open, time to `cooldown_until`, the next (doubled, capped) cooldown |
| `known`, `age` | `_HEALTH_CACHE` and the age of an entry |
| `pc`, `cand`, `pos`, `sees`, `used`, `served` | a request: its candidates, the one it is at, what it last read, the model it is accounted to, what the consumer received |
| `Check`, `ProbeCache`, `ProbeTable`, `Recovered`, `Skipped` | `is_available` and `_db_recovered` |
| `Answers`, `FirstChunk`, `EmptyStream`, `Fails`, `StreamEnds`, `StreamBreaks` | the ways a call or a stream can end |
| `Won`, `WonRow`, `Lost`, `ReadStatus`, `LostRow` | `record_success`, `record_failure`, `get_status` and the writes of the row, each in its own lock section or transaction |
| `ProbeModel`, `ResetAll`, `Die` | `probe_provider_models`, the reset route, a recycled worker |
| `since` | history: how long the row has not been `healthy` |

Only calls to models and idle threads let time pass; the rest of a request is
taken as instantaneous on a scale of seconds. `fails` is saturated at
`Threshold`: the code only compares it with the threshold.

### CronJobs

What happens once `SchedulerLeader` (or an administrator) lets a job run.

| model | code |
|---|---|
| `job`, `present`, `depends` | `is_active`, `run_count`, `last_status` of `cron_jobs`; the rows that exist; `job_dependencies` |
| `thread` | a thread of APScheduler's pool or of `run_job_now`: where it is, the stack of nested calls, the attempt, the result |
| `Slots` | what keeps two executions of a job apart: `max_instances=1` in a process, `_RUNNING_NOW` in a process; nothing across them |
| `Due`, `RunNow`, `Begin`, `Mark`, `Limit`, `Attempt`, `Finish`, `Count`, `Depend` | the statements of `_execute_job_wrapper`, `_execute_with_retries`, `_trigger_dependent_jobs`, `run_job_now` |
| `StatementFails`, `Recycle`, `Toggle`, `RemoveJob` | a failed statement, a recycled worker, the job pages |

`Count` is the transaction that the code rolls back (section 5): `run_count`
never moves, so `Limit` never returns early. The model keeps the comparison.
`abandoned` (jobs left `running`) and `stopped` (threads whose last execution was
ended by a fault) are history variables of the properties.

### WorkflowDefs

One definition of the workflow pages and all rows that hang from it.

| model | code |
|---|---|
| `def`, `engines`, `jobs`, `insts`, `runs` | `workflow_defs`, `workflow_definitions`, `cron_jobs`, `workflow_instances`, `workflow_runs`; ids are serial, `Gone` is a deleted row |
| `thread` | a request or a fired job, with what it has read |
| `Create`, `Update`, `Lookup`, `Sync` | the saving requests: one transaction with `_materialize_engine_definition` (`WriteThrough`), then the look-up and the change of the cron job |
| `Delete`, `DeleteEngine`, `DeleteDef` | `delete_workflow_def`, transaction by transaction, with the foreign keys' effects |
| `Run`, `AskRun`, `WriteRun`, `Fire`, `RunRaw`, `Admit`, `Insert`, `Record` | the three ways to start an instance, admission by `max_concurrency`, the insertion, the history |
| `Pause`, `Resume`, `Finish` | the status writes of the engine and of the operator's calls, which do not look at the status they overwrite: an instance that ended may be paused, and one that was ever paused may run again |
| `ListRuns`, `Look`, `Show` | `list_workflow_runs` and the two transactions of `_sync_run_from_engine`; listings overlap with everything |
| `ToggleJob`, `RemoveJob`, `ToggleEngine`, `RemoveEngine`, `Die` | the automation pages, deaths |

### AgentRuns

One run of an agent: its first execution by `/agent/stream` or as a sub-agent,
and its resumes by `/agent/resume`.

| model | code |
|---|---|
| `exe[e].pc`, `.round`, `.msgs`, `.fails`, `.gated` | the locals of `iter_react`; `gated`: with the gates, as a sub-agent runs |
| `exe[e].set`, `.watch`, `.stop` | the cancel event, the thread `_watch_cancel` and its stop |
| `checkpoint`, `row`, `registry` | `data/agent_runs/<run_id>.json`, the row of `agent_stream_runs`, `_STREAM_RUNS` with `_STREAM_STOP` |
| `Round`, `ModelFails`, `ModelEnds`, `ModelAsks`, `RunTool`, `ToolsAnswer`, `EndOfRound`, `Close` | one round of `iter_react`: cancel and budget gates, compaction, the model, the batch, the gates and checkpoint at the end |
| `Shrunk` | `auto_compact_messages` and `fit_messages`: units are dropped, never parts of one |
| `Register`, `Persist`, `Unregister`, `DropRow`, `Watch`, `Cancel`, `MarkRow` | the registry and cancellation in `routes.py`, each lock section and transaction a step |
| `Disconnect`, `Crash` | a client that goes away or an exception; a recycled worker |

What the model says, and whether a gate fires, is free. `ran`, `lost`, `solo`,
`asked`, `deaf`, `stale` are history variables of the properties.

### EventOutbox and AtLeastOnce

`AtLeastOnce` is the promise in the header of `event_bus.py`: a recorded event is
closed only when every subscriber took it, or given up after `Limit` failed
rounds, and does not stay open. `EventOutbox` implements it:

| model | code |
|---|---|
| `row` | `event_outbox`: status, attempts; `waiting` is `next_retry_at` ahead, `leased` is `locked_until` ahead |
| `handlers`, `queued`, `worker` | per process: `EventBus._handlers`, the queue of its pool, the dispatch each pool thread runs |
| `Subscribe`, `Emit`, `Begin`, `RunHandler`, `Finish` | `on` (by plugins that are preloaded one by one), `emit` with `_outbox_insert`, `_dispatch_async`, `_run_handler`, `_outbox_finish` |
| `Select`, `Claim` | the two halves of the claiming UPDATE in `resend_pending`, which locks nothing between them |
| `LeaseExpires`, `RetryFallsDue`, `Die`, `Restart` | time, a recycled worker, the supervisor |

The refinement mapping sends `row[e].status` to the state of the event
(`Standing`), `attempts` to rounds, `served` to `took`, and `blind` (events that
were dispatched where a handler was not subscribed) to `unsure`. That last
disjunct is where the code keeps less than its header says; the abstract module
names it instead of hiding it. Likewise `FailRound` of a closed event: a late
duplicate that fails reopens it.

### PluginCommerce

| model | code |
|---|---|
| `order`, `licence`, `subs` | `plugin_payment_orders.status`, `plugin_licenses.license_status`, the rows of `plugin_subscriptions` (`pend` is the renewal order in `extra`) |
| `left` | periods until `current_period_end`: 0 is past it, -1 past the grace of seven days too |
| `money` | what the gateway knows: environment |
| `request` | a notification or an admin's renewal or change, with the row it has read |
| `renewing`, `locking` | a run of `check_expired` and of `run_grace_lock_scan` with the rows it fetched |
| `Purchase`, `GatewayAnswers`, `Notify`, `MarkPaid`, `Activate`, `Choose`, `Create`, `Reactivate`, `RenewReads`, `Extend` | `store_purchase`, `payment_notify`, `_activate_license_after_payment` and what it calls |
| `CancelAtEnd`, `CancelNow`, `RenewByHand`, `ChangeByHand`, `Change`, `Refund` | the admin's routes |
| `ScanRows`, `ExpireRow`, `RenewalOrder`, `RenewalAnswered`, `ScanGrace`, `LockRow`, `Validate`, `Elapse`, `RequestDies`, `ScansDie` | the daily scans, lazy expiry, time, deaths |

### PluginLifecycle

| model | code |
|---|---|
| `row`, `clock` | the row of `plugin_registry`: `status`, and `updated_at` as a number |
| `schema` | the tables that `setup()` creates and `on_uninstall` drops |
| `cache`, `seen`, `known` | per worker: `_cache`, `_fp_state['value']`, `_cache_fp` |
| `instance`, `handlers` | per worker: `_instances`, `_bus_subs` |
| `op`, `upgrade` | the operation under `_lock_timeout()` and the `PluginInfo` it holds; the one an upgrade holds while it downloads |
| `Cached`, `Keeps`, `Leaves`, `PutsBack` | whether what is held is the object in the cache: reloads replace objects, operations change them in place |
| `Compare`, `Reload`, `Get`, `Lists` | `_registry_fp_cached`, `sync_cache_if_stale`, `_get_cached`, `list_plugins` |
| `Install...`, `Enable...`, `Activate...`, `Disable...`, `Uninstall...`, `SetConfig`, `Upgrade...` | the operations, a step for each transaction and each call of the plugin's code |
| `SaveStamped`, `SaveAsIs` | `_save_to_db` after `updated_at` was set, and where it was not |
| `Restart`, `RefreshesMeta`, `Preload...`, `MountAll` | a recycled worker and its start: `init_app`, `_refresh_static_meta`, `_preload_routes`, and `mount_all_routes`, which sets up whatever the cache holds, with no lock and no look at the row |

What the plugin's code, the licence, edition and role checks say is free. The
comparison is throttled to once a second: in the model it may happen at any time,
or not. `silent` is the `updated_at` under which the row was saved again, or 0,
`astray` says that two operations overlapped, or a start and an operation, or one
was begun for a plugin without a row. What is exempt are starts and operations
that overlap; starts between operations, with caches of any age elsewhere, are
covered.

## 3 The runs

`CHECK_DEADLOCK FALSE` in every run: when all requests are served and all
threads are done the modelled system may stop.

| run | question | instance | result |
|---|---|---|---|
| `engine_branches` | Completeness under edge conditions, end of threads | 5 nodes with an error branch, a join, a cycle and two start nodes; `on_error` skip; one review, one operator; both workers mortal | holds, 6 700 states |
| `engine_reviews` | Who walks the graph, where is it entered, and does a finished node stay so? | chain of 3 whose middle may ask for an approval or complete; `on_error` pause; three reviews, one of them in the other process; both mortal | holds, 66 845 states |
| `engine_approved` | Does an approved workflow go on? | chain, one review | violated |
| `leader_safety` | Is the election a lease? One leader; its jobs run and only there; somebody leads | 2 processes (one mortal), a job and a plugin job, one failed query, two requests, the switch | holds, 809 693 states |
| `failover_breakers` | What passes an open breaker, and does it open again? | one model, two requests of one worker, threshold 2, cooldown 1 to 2, cache 2 | holds, 77 639 states |
| `failover_streams` | Answers and their account | two models, lists `<<m1,m2>>` and `<<m2,m1,m1>>`, one request | holds, 324 285 states |
| `cron_jobs` | What `last_status` tells, and whether dependents are reached | three jobs, two of them dependents of the first, the third of the second too; two threads of one process, each job also startable by hand; one retry, two starts, one fault or edit | holds, 450 576 states |
| `workflow_defs` | Do the rows of a definition stay together, and runs below the limit? | two threads, limit 1, four requests, listings or fired jobs, one death or edit | holds, 973 530 states |
| `agent_runs` | Transcript, checkpoint, cancellation and cleanup of a run and its resume | two processes, two executions, two rounds, a call per batch, one cancel, one fault | holds, 723 725 states |
| `outbox_delivery` | Is every event delivered at least once? | two processes, one emitting; one event, two handlers, two attempts, one death or failed statement | holds, 950 467 states |
| `commerce_renewals` | What is booked, and does anything outlive its end? | two orders, one request thread, one scanner, two periods ahead, one change by hand, one death | holds, 734 180 states |
| `plugin_lifecycle` | Does a cache tell the truth, and does an uninstall leave nothing? | two workers, all alike; a plugin on disk, active, or enabled without instance; two operations, one recycled worker and its start | holds, 5 183 911 states |

**Properties.** `WorkflowEngine`: `ExecutorExclusion`, `EnteredThroughEdges`,
`DrainedRunIsComplete`, `NodeLifecycle` (no status goes backwards, but where an
approval and a rejection of one node overlap), `ThreadsEnd` (liveness).
`SchedulerLeader`: `OneLeader`, `NonLeaderSuspended`, `FiresOnce`,
`ImplementsLease` (refinement), `SomebodyLeads` (liveness). `Failover`: `OneModelAnswers`,
`FreshRecovery`, `NeverShutOff` (liveness). `CronJobs`: `RunningIsExecuted` and
`DependentsAreReached` (liveness). `WorkflowDefs`:
`RowsAgree`, `DeletedIsGone`, `ConcurrencyBounded`, `RunsTraced`. `AgentRuns`:
`NoOrphans`, `ToldTheTruth`, `Remembered`, `CancelIsDelivered`, `NothingLeft`,
`ExecutionEnds` (liveness). `EventOutbox`: `DoneWasServed`,
`ImplementsAtLeastOnce` (refinement and liveness). `PluginCommerce`:
`GrantedOnce`, `PastDueSettles` (liveness). `PluginLifecycle`:
`CacheFollowsRegistry`, `LeavesNothing`. Each module has one `TypeOK`. The
comment above a property says which behaviour of the code it is about. Each
property of a passing run has a mutant in `PROJECT.json`, a small change of a
modelled operator that breaks it.

Several properties have an exemption (`Contested`, `blind`, `excused`, `overlapped`,
`untraced`, `abandoned`, `stopped`, `solo`, `lost`, `silent`, `astray`): a history that records
exactly the circumstance in which the code gives the guarantee up. They state
where the guarantee ends, and section 5 says what happens beyond.

**Why the bounds are enough to be interesting.** Three reviews over two
processes give two resume threads that meet at one process' lock and a third
outside it; two processes and a death give a lease that changes hands twice; a
threshold of two and two requests give a request that was admitted before the
breaker opened and fails after; the cache lives as long as the longest cooldown,
so it can outlive the state it was read from; the second list contains a fallback twice, as a configuration may. One unit of time
is 30 s in `leader_*` (TTL 90 s against a heartbeat every 30 s in the code; the
runs use TTL 2, Gap 1, Span 1, the tightest values with `Gap + Span <= TTL`)
and 15 s in `failover_*` (`CacheTTL = 2` is the code's 30 s).
`MaxFaults` (1) and `MaxEdits` (2, switch changes included) bound failed
queries and requests of the scheduler; nothing else in these three modules is bounded except by
saturation: `age` stops one above TTL, `fails` at Threshold, ages of the cache and
of a row at CacheTTL, and `beat` at Gap + Span.

In the other runs a row meets two writers that have read it before either
writes: a second claim of a leased event and a late duplicate
(`QueueBound` bounds the dispatches of one event that wait in a pool); a save
and a deletion of one definition, with a fired job between them; a
notification, a change by hand and two scans of one subscription (`MaxLeft`,
`MaxGrants` bound what is booked ahead); an execution and its resume in one
process or in two. Two threads of one process run a job when due and by hand at
once, and a dependent that has one of its own nests three levels of calls, with
others waiting behind it.
`agent_runs` has one call in a batch: batches of two give six million states and
no new property, so results that are reported as cancelled (a parallel call that
raised) are in the model but not in the run. `MaxStarts`, `MaxEvents`,
`MaxExecutions`, `MaxRounds`, `MaxCancels`, `MaxFaults` and `MaxByHand` bound
requests, edits, deaths and failed statements. Two operations and a death of
`plugin_lifecycle` (`MaxOps`, `MaxRestarts`) let a reload, a comparison and a
second operation fall between any two steps of the first, and an operation
begin with a cache that is one write old; an upgrade overlaps operations of its
own worker.

**Fairness.** `WorkflowEngine`: weak fairness of each thread's steps and of the
write of an operator's call; the operating system schedules threads, and the code bounds
handlers with timeouts. `SchedulerLeader`: weak fairness of `Tick`, of a heartbeat that has been dispatched and of a request in progress.
`Failover`: time diverges and a request in progress goes on (clients have
timeouts). `CronJobs`, `AgentRuns`: threads that run go on, and what they call
returns; a poller polls. `EventOutbox`: the scans are timer loops, pool threads
run what is queued, clocks advance, the supervisor restarts a process that died
(`autorestart`); nobody has to emit, subscribe or die. `PluginCommerce`:
requests end, the daily scans run, time passes; customers and admins owe
nothing. Nothing in the environment is fair: nobody has to review, send
requests, probe, reset, edit or die, and a query need not succeed or fail.

## 4 The proofs

`tlapm` checks eight modules; 35 theorems are listed in `PROJECT.json`. Nothing is assumed beyond the named `ASSUME`s on
the constants, which TLC evaluates in the runs, and `Timely` where a theorem
states it. Proofs are for any set of nodes and edges, any number of reviews,
operators, processes, models, candidate lists, handlers, orders, scanners,
executions, rounds, calls, threads, requests, and any bounds. Each inductive
invariant was checked by TLC on the instance of a run before it was proved.
A step that changes several fields of one entry of a function is written
`[f EXCEPT ![x] = [@ EXCEPT !.a = ..., !.b = ...]]`, with no `@` inside the inner
values: the SMT translation of tlapm 1.4.5 loses updates where one `EXCEPT` lists
several nested paths, and resolves a nested `@` against the wrong value.

**WorkflowEngineProofs.** `TypeCorrect`: the invariant `TInv` adds to `TypeOK`
that a thread which works on a node has one (`ItemOK`); lemmas
`TargetsAreSuccessors` and `StartNodesListed` say what the listings of edges
contain. `Exclusion` (`ExecutorExclusion`): not inductive, since it says nothing
about who may *start*; `ExclusionInv` adds that a node in `waiting_approval` or
a review in progress implies that the executor has left its loop, and that a
resume thread that executes holds its process' lock. `EntryThroughEdges`
(`EnteredThroughEdges`): `ReachedInv` adds that everything queued, held as an
item, current, or started is a start node or below a node that ended or was approved: a resume thread starts from the
row `current_node_id`, so the row has to be part of the invariant. `DrainedRunCompletes`
(`DrainedRunIsComplete`): `DrainInv` says that, until the executor has returned,
each successor of a completed node is in its visited set or its queue, and that
a visited node still pending is being begun or is behind a failure edge; it needs
that a listing of the edges has all of them, which is an injection between
sets of one cardinality (`ListingIsComplete`). `NodesGoForward` (`NodeLifecycle`, an action
property): two reviews that have both read `waiting_approval` may write `completed`
and then `failed` (section 5), so the property exempts behaviours in which an approval and
a rejection of one node have met (`Contested`, which is stable: `ContestStays`).
Everything else is covered, any number of reviews of one node that agree included.
Up to then `LifeInv` says that whatever left `pending` has been visited by the executor,
that a node which waits is the one of `current_node_id`, that a review decides on that
node, waiting or decided by now, and that a resume thread has visited all it queues, so it begins nothing.

**SchedulerProofs**, the election. `TypeCorrect`. `LeaderExclusion` (`OneLeader`) under
`Timely == Gap + Span <= TTL`: `LeaseInv` ties a process that believes in its
lease to the row (holder, and an age bounded by the time since its query), and
says that one that is about to learn of its loss does so within `Span`; without
`Timely` it is false (`TTL = 1` with Gap 1 and Span 1 gives two leaders). `SuspendedWithoutLeadership`
(`NonLeaderSuspended`) needs no timing: `SuspInv` says that an unsuspended job
of a process without leadership is *covered*, that is, still on the list of the
heartbeat or of the request that will suspend it. `FiringExclusion`
(`FiresOnce`) follows from both. `LeaseImplemented` (`Timely` again):
`Spec => Granted!Spec`, the refinement of `Lease`. `LeaderIsOwner`, a consequence of
`LeaseInv`, says that a process that leads holds a row which has not expired; it is
used in the state *after* a step: a query that takes the row is a `Grant`, any other
step of a process (`StepIsLocal`: it tells only that process something new) is
`Act` or `Leave`, and a `Tick` that passes the TTL is a `RunOut`, since a leader after it
would own nothing. TLC agrees on the constants of `leader_safety` and refutes
it with `TTL = 1`.

**SchedulerProofs**, the executions. `CronTypeCorrect`: the stack of nested runs of a
thread that executes is never empty, through calls (`Depend` puts an arrangement
of a finite set on it, `ArrangementsAreSequences`) and returns. `RunningCorrect`
(`RunningIsExecuted`): not inductive, since a thread that has yet to mark the job, or
has written its end, executes it too and may return without a further write;
`RunInv` says that each row that shows `running` is *left* by a thread between
its two writes (`Leaves`), or abandoned. `RunningIsTrueHolds`: while nothing failed
and no job was edited, the exception is not needed. It rests on `NothingCounted`:
`run_count` stays 0, so the early return at `max_runs`, which would leave
`running` behind, never happens. With the counting repaired (section 5) this theorem
would fail, and `RunningIsExecuted` would still hold.

**FailoverProofs.** `TypeCorrect` (a breaker is open exactly from the threshold
on, although success, failure and reset are separate lock sections). `OneAnswer`
(`OneModelAnswers`): `AnswersInv` adds that a request that may still move on to
another candidate has served nothing. `Freshness` (`FreshRecovery`): `FreshInv` is the conjunction
of three facts on the age of evidence, one for the row, one for the cache, one
for what a request holds between its read and its use.

**EventOutboxProofs.** `TypeCorrect`, `DoneCorrect` (`DoneWasServed`), and `Implements`: `Spec => Promise!SafeSpec`,
step by step under the refinement mapping. The inductive invariant adds three
parts. `DispatchServed`: a dispatch in progress without an error has been
accepted by every handler that it no longer has to run, or its event is
`blind`; without it a `Finish` could close an event nobody took. `RowsExist`: what
is queued, running or selected has a row; without it a step could touch an unsent
event. `FreshRows`: an event that was not emitted has the empty row, so `Emit`
is `Record` and never overwrites. The fairness part of `AtLeastOnce!Spec`
(`Settles`) is checked by TLC.

**PluginCommerceProofs.** `TypeCorrect` and `GrantedCorrect` (`GrantedOnce`).
The invariant adds what ties a request to its order: `MarksAnOrder` (a request
about to mark has an order, and the gateway was paid for it), `Awaited` (the
order a scan waits with is pending, unknown to the gateway and awaited by no
other scan), `Known` (the gateway knows no order that was not inserted) and
`Accounts` (an order that is not excused is worked on by one request at most,
nothing is booked for it before, and once it is booked it is paid, or refunded
with the money returned, so that no further notification gets past the test).

**AgentRunsProofs.** `TypeCorrect`, `NoOrphansHolds`, `ToldTheTruthHolds`,
`RememberedHolds`, `CancelIsDeliveredHolds`, `NothingLeftHolds`. None of the five
properties is inductive. The invariant has four parts. `Rounds`: the round counter
stays within the bound. `Transcripts`: every transcript, in memory or in the
checkpoint, is settled (an answer with calls is followed by the results of its
calls, and a result belongs to the answer before it), or, in an execution that
waits for its tools, settled but for its last answer; and it is `Sound`: it knows only batches
that were asked for, and what it says of a call is so and stays so while some
execution may yet run the batch (`Pending`). This part has no exemption: it holds
when executions of one run overlap. `Control` says who is alive (`Roles`,
`Order`, `Alone`), that a registered execution is told by its event or by a
thread that polls (`Listens`), and who will remove each entry of a
registry and the row (`Cleared`). `Memory` (`Carries`): the transcript in memory
stands for every batch of the checkpoint, so that the next save forgets
none. The proof sorts steps by what they do to transcripts: a step of `iter_react`
is a `Loop` step with the transcript it ends with, steps around it are `Quiet`,
and starts, resumes and crashes are on their own. Compaction is the hard case:
cutting a settled transcript before a unit keeps it settled.

**WorkflowDefsProofs.** `TypeCorrect`, `RowsAgreeHolds`, `DeletedIsGoneHolds`,
`ConcurrencyBoundedHolds`, `RunsTracedHolds`. `Room`: what is in use and what
requests in progress may still insert fit in the requests so far, so ids never
run out. `Fresh`: an id that is not in use has no history. `Written`: a
request that goes on to schedule has written an engine row; `TypeOK` alone does not
survive the insertion of its job. `Unborn`: nothing precedes the definition. `Calm`: while
no managing requests overlapped there is at most one, what it has read is what
the rows say, and the rows agree between requests; it is stated at each of the
request's transactions, where the rows do not agree yet. `RowsAgree` and
`DeletedIsGone` follow from it with the foreign keys. `ConcurrencyBounded` counts
instances and admitted threads together, below `max_concurrency` plus the
other threads.

**PluginLifecycleProofs.** `TypeCorrect`, `CacheFollows` (`CacheFollowsRegistry`)
and `NothingLeft` (`LeavesNothing`). `Shared` and `Local` say of the state all workers
see, and of each worker's own, what a step relies on: the object an operation holds
(one of its own, or the one in the cache, and then there is one), the kind of
operation its step belongs to, and that no stamp is later than the clock, so a
new stamp is in nobody's fingerprint. Given that, `CacheFollowsRegistry` is inductive:
a step leaves row and fingerprint, stamps the row anew, deletes it, saves it
`silent`ly, or reads it (`FollowsKeeps`). `Apart`: while operations have not
gone `astray` one worker at most is busy, what it does has a row, and the tables are gone
before the row is deleted; a worker that starts is busy until it has mounted, and without a
row its cache is empty, so it sets nothing up. A step changes one worker's state (`Frame`), so
each action's lemma states what it writes first and takes the parts of the
invariant from that.

**Model-checked only.** Every invariant and action property of the passing runs has a theorem.
What is left to TLC are the liveness properties `ThreadsEnd`, `SomebodyLeads`, `NeverShutOff`, `ExecutionEnds`
(of `AgentRuns`), `DependentsAreReached`, `PastDueSettles` and the liveness half of
`ImplementsAtLeastOnce`, which TLAPS cannot prove (fairness and `ENABLED` are
out of its reach). No module has a recursive operator or an induction over data.

## 5 Where the code and its documentation differ

Runs marked *violated* state what a comment or docstring says, and TLC shows a
behaviour of the code that differs. The other entries were met while modelling;
for each, `findings` in `PROJECT.json` quotes the lines.

*With a run*

- `engine_approved`: after an approval the resume thread starts at the approved
  node, which it regards as visited, so nothing behind it runs.

*Automation*

- An instance cancelled while its last node runs ends `completed`, or `paused` if that
  node asks for an approval; pause and resume overwrite what came after their read.
- An approval and a rejection can both pass the status check before either writes.
- `pause()` stops the heartbeat of the scheduler too, so `resume()` decides on a
  verdict as old as the pause; a job added through the worker that is not the
  leader stays suspended there and is unknown to the leader.
- The run counters and the event dispatch use a cursor as if it were a
  connection: `run_count` never moves and no event trigger fires.
- `run_job_now` refers to a check against other workers that does not exist.
- Two overlapping saves of a definition create two cron jobs, and one survives
  the deletion; a definition whose engine row was rebuilt by Run keeps a job
  for the old one; a run that was once shown as paused or ended stays so in the history, whatever
  becomes of its instance, and overlapping listings can show `paused` for what ended.

*Agents*

- A cached `healthy` closes a breaker that opened after it was read; a docstring
  says that the health table does not affect running workers.
- The failure breaker counts failures that are not consecutive; parallel tool
  calls that are reported as cancelled have run; the closing call of a run is
  outside the error handling that writes the terminal checkpoint.
- A stream that ends removes the registration, the row and the poller that a
  resume of the same run needs to be cancelled.

*Plugins*

- A row claimed by a process where the handlers are not subscribed yet is marked
  done; two scans may claim the same row; a late duplicate that fails reopens a
  done row.
- A paid order whose request dies before it is served is never served; two
  notifications in parallel book two periods; a refund leaves the subscription
  active.
- Errors are saved under the old `updated_at`, and an installation that is undone
  brings the old fingerprint back: other caches keep what was.
- A plugin that is disabled or uninstalled in one worker goes on receiving events
  in the other; an upgrade, or an uninstall that fails, writes back a status
  another worker has changed; an install turns `disabled` into `installed`;
  a failed setup can end in `active`; a worker that starts meanwhile saves and sets up a
  plugin that another worker uninstalled, from the cache it had loaded.

## 6 What is not modelled

- *In the modelled components*: `context_data` and database calls that fail in
  the engine; alerts and the event log in the failover engine (nothing reads
  them back); event triggers (they fail before they reach the engine); the
  synchronous `execute()` of an agent and its retries; lifecycle events and
  hooks (synchronous calls); coupons, prices, exemptions and bundles; of the
  plugin manager the failure guard, automatic installation, edition rules at start,
  files and backups, MCP servers and menus, and the repair of the path of a plugin
  whose directory was moved (`_load_instance`, a save under the old `updated_at` like
  those of errors, but of a status nobody changed).
- *Planned*: key pool, tool approval (section 7).
- *Left out*: prompts, memory, retrieval, export, templates, themes, i18n,
  translations and bundled plugins are text, files and CRUD without protocol
  state; HTTP routes are modelled by the calls they make; payment and SMS
  providers and the licence service are external; identity and module policy
  keep row-wise state with expiry and little interaction; the answer cache and
  the guardian only hold or check rebuildable data.

Most of the repository's lines are of that last kind, which is why the map
covers a small share of them: the nine components are about the places where
processes, threads and deaths meet on shared rows.

## 7 Plan

1. `WorkflowEngine`, `SchedulerLeader`, `Failover` with their runs and proofs. *Done.*
2. `EventOutbox` implementing `AtLeastOnce`, with proofs. *Done.*
3. `PluginCommerce` with proofs; `CronJobs`, `WorkflowDefs`, `AgentRuns` model-checked. *Done.*
4. Proofs for all invariants of `WorkflowDefs`, `AgentRuns` and `WorkflowEngine`, and
   for its action property. *Done.* The invariants of `CronJobs` likewise. *Done.*
5. `PluginLifecycle` with proofs. *Done.*
6. `ToolApproval` (`agent_matrix/approval.py`): tickets, grants, modes, expiry,
   two workers; `KeyPool` (`_ProviderKeyPool` and the 429 retries): pointer and
   cooldowns in separate lock sections, a shared row.
7. A second abstract specification, `Lease`, implemented by `SchedulerLeader` under
   `Timely`, with proof. *Done.*

Runs stay few: a module gets one run per question, and violation runs give way
to runs of new modules; what they showed stays under `findings`.
