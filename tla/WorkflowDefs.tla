---------------------------- MODULE WorkflowDefs ----------------------------
(***************************************************************************)
(* One definition of the workflow pages (orchestrator/workflow_api.py) and *)
(* the rows that hang from it: the definition the engine executes (a row   *)
(* of workflow_definitions, written through), the cron job that starts it, *)
(* the instances and the history of its runs.  Saving, deleting and        *)
(* running it are requests of several transactions each; others come in    *)
(* between, the scheduler fires the job, and the automation pages          *)
(* (orchestrator/routes.py) run, edit and remove the same rows by their    *)
(* own ids.                                                                *)
(*                                                                         *)
(* Another definition has rows of its own and is met nowhere.  What an     *)
(* instance executes is the subject of WorkflowEngine: here its status is  *)
(* written, by threads and requests that decided to before.  Which process *)
(* fires a job, and how often it is retried, is the subject of             *)
(* SchedulerLeader and CronJobs.                                           *)
(***************************************************************************)
EXTENDS Integers, FiniteSets, FiniteSetsExt

CONSTANTS
    Threads,            \* threads that serve requests and execute cron jobs
    MaxConcurrency,     \* workflow_definitions.max_concurrency, 0 for no limit
    MaxStarts,          \* bound: requests and fired jobs
    MaxEvents           \* bound: dead threads and edits by other pages

ASSUME DefsAssumption ==
    /\ IsFiniteSet(Threads)
    /\ MaxConcurrency \in Nat /\ MaxStarts \in Nat /\ MaxEvents \in Nat

\* The serial ids of engine rows, cron jobs and instances, each from 1.
Ids == 1..MaxStarts

VARIABLES
    def,        \* the row of workflow_defs
    engines,    \* engines[e]: the row of workflow_definitions
    jobs,       \* jobs[j]: the row of cron_jobs
    insts,      \* insts[i]: the row of workflow_instances
    runs,       \* runs[i]: the row of workflow_runs about instance i
    thread,     \* thread[t]: what a thread is doing, with the values it has read
    starts,     \* requests and fired jobs so far
    events,     \* deaths and edits so far
    stale,      \* history: a row was edited elsewhere and not saved since
    overlapped, \* history: two managing requests overlapped, or one died
    untraced    \* history: instances whose thread died before recording them

vars == <<def, engines, jobs, insts, runs, thread, starts, events, stale, overlapped, untraced>>
rows == <<def, engines, jobs, insts, runs>>

Unused == [state |-> "unused"]
Gone == [state |-> "gone"]
Live(table) == {k \in Ids : table[k] \notin {Unused, Gone}}
NextId(table) == Min({k \in Ids : table[k] = Unused})
Status(on) == IF on THEN "active" ELSE "inactive"
Idle == [pc |-> "idle"]

Switch == {"active", "inactive"}
InstStatus == {"running", "paused", "ended"}
Working ==
    [op : {"save", "delete"}, pc : {"lookup", "sync", "engine", "def"},
     cron : BOOLEAN, enabled : BOOLEAN, engine : Ids \union {0}, found : Ids \union {0}]
    \union
    [op : {"run", "fire", "raw"}, pc : {"ask", "write", "admit", "insert", "record"},
     enabled : BOOLEAN, engine : Ids \union {0}, inst : Ids \union {0}]
    \union
    [op : {"list"}, pc : {"look", "show"}, inst : Ids, status : InstStatus]

\* The foreign keys: an engine row that is removed is unset in the definition,
\* an instance needs its engine row, a run needs the definition.
TypeOK ==
    /\ def \in [state : {"none", "exists", "deleted"}, cron : BOOLEAN,
                enabled : BOOLEAN, engine : Live(engines) \union {0}]
    /\ engines \in [Ids -> {Unused, Gone} \union [state : Switch]]
    /\ jobs \in [Ids -> {Unused, Gone} \union [state : Switch, engine : Ids]]
    /\ insts \in [Ids -> {Unused, Gone} \union
                  [state : InstStatus, engine : Live(engines),
                   by : {"run", "fire", "raw"}, held : BOOLEAN]]
    /\ runs \in [Ids -> {"none"} \union InstStatus]
    /\ def.state # "exists" => \A i \in Ids : runs[i] = "none"
    /\ thread \in [Threads -> {Idle} \union Working]
    /\ starts \in 0..MaxStarts
    /\ events \in 0..MaxEvents
    /\ stale \in BOOLEAN
    /\ overlapped \in BOOLEAN
    /\ untraced \subseteq Ids

Init ==
    /\ def = [state |-> "none", cron |-> FALSE, enabled |-> FALSE, engine |-> 0]
    /\ engines = [e \in Ids |-> Unused]
    /\ jobs = [j \in Ids |-> Unused]
    /\ insts = [i \in Ids |-> Unused]
    /\ runs = [i \in Ids |-> "none"]
    /\ thread = [t \in Threads |-> Idle]
    /\ starts = 0
    /\ events = 0
    /\ stale = FALSE
    /\ overlapped = FALSE
    /\ untraced = {}

At(t, step) == thread[t].pc = step
Goto(t, step) == thread' = [thread EXCEPT ![t].pc = step]
End(t) == thread' = [thread EXCEPT ![t] = Idle]

\* A request that reads rows of the definition and will write what it read.
Managing(t) == thread[t].pc \in {"lookup", "sync", "engine", "def", "ask", "write"}
Quiet == \A t \in Threads : ~Managing(t)

Start(t, work) ==
    /\ At(t, "idle") /\ starts < MaxStarts
    /\ starts' = starts + 1
    /\ thread' = [thread EXCEPT ![t] = work]
    /\ UNCHANGED <<events, untraced>>
Manage(t, work) == Start(t, work) /\ overlapped' = (overlapped \/ ~Quiet)

-----------------------------------------------------------------------------
\* Saving: one transaction writes the definition and its engine row, two more
\* bring the cron job in line with the values of this request.

\* _materialize_engine_definition: an engine row that is gone is built anew.
\* The definition learns its id, unless it has been deleted meanwhile.
WriteThrough(row, old, enabled, e) ==
    /\ e = IF old \in Live(engines) THEN old ELSE NextId(engines)
    /\ engines' = [engines EXCEPT ![e] = [state |-> Status(enabled)]]
    /\ def' = IF e # old /\ row.state = "exists" THEN [row EXCEPT !.engine = e] ELSE row

Saving(cron, enabled, e) ==
    [op |-> "save", pc |-> "lookup", cron |-> cron, enabled |-> enabled, engine |-> e, found |-> 0]

Save(t, cron, enabled) ==
    \E e \in Ids :
        /\ WriteThrough([def EXCEPT !.state = "exists", !.cron = cron, !.enabled = enabled],
                        def.engine, enabled, e)
        /\ Manage(t, Saving(cron, enabled, e))
        /\ UNCHANGED <<jobs, insts, runs, stale>>

Create(t, cron, enabled) == def.state = "none" /\ Save(t, cron, enabled)
Update(t, cron, enabled) == def.state = "exists" /\ Save(t, cron, enabled)

\* get_cron_job_by_workflow: the oldest job of the definition.
Lookup(t) ==
    /\ At(t, "lookup")
    /\ thread' = [thread EXCEPT ![t] = [@ EXCEPT
           !.pc = "sync", !.found = IF Live(jobs) = {} THEN 0 ELSE Min(Live(jobs))]]
    /\ UNCHANGED <<rows, starts, events, stale, overlapped, untraced>>

\* _sync_workflow_cron: the job that was found is changed or removed, if it is
\* still there, and one is created if none was found.
Synced(w) ==
    LET row == [state |-> Status(w.enabled), engine |-> w.engine]
    IN  CASE w.cron /\ w.found = 0 -> [jobs EXCEPT ![NextId(jobs)] = row]
          [] w.found \in Live(jobs) -> [jobs EXCEPT ![w.found] = IF w.cron THEN row ELSE Gone]
          [] OTHER -> jobs

\* fault: the job is created without a look at what was found.
SyncInserts(t) ==
    /\ At(t, "sync")
    /\ jobs' = Synced([thread[t] EXCEPT !.found = IF thread[t].cron THEN 0 ELSE @])
    /\ stale' = (stale /\ thread[t].op # "save")
    /\ IF thread[t].op = "save" THEN End(t) ELSE Goto(t, "engine")
    /\ UNCHANGED <<def, engines, insts, runs, starts, events, overlapped, untraced>>
Sync(t) ==
    /\ At(t, "sync")
    /\ jobs' = Synced(thread[t])
    /\ stale' = (stale /\ thread[t].op # "save")
    /\ IF thread[t].op = "save" THEN End(t) ELSE Goto(t, "engine")
    /\ UNCHANGED <<def, engines, insts, runs, starts, events, overlapped, untraced>>

-----------------------------------------------------------------------------
\* Deleting: the job, the engine row with its instances, the definition with
\* its runs, one after the other.

Deleting(step) == [op |-> "delete", pc |-> step, cron |-> FALSE, enabled |-> FALSE,
                   engine |-> def.engine, found |-> 0]
\* fault: the job is left behind.
DeleteUnscheduled(t) ==
    /\ def.state = "exists"
    /\ Manage(t, Deleting("engine"))
    /\ UNCHANGED <<rows, stale>>
Delete(t) ==
    /\ def.state = "exists"
    /\ Manage(t, Deleting("lookup"))
    /\ UNCHANGED <<rows, stale>>

\* models.delete_workflow.
\* fault: the instances are removed, and the definition keeps the id.
RemoveEngineRowOnly(e) ==
    /\ engines' = [engines EXCEPT ![e] = Gone]
    /\ insts' = [i \in Ids |-> IF i \in Live(insts) /\ insts[i].engine = e THEN Gone ELSE insts[i]]
    /\ UNCHANGED def
RemoveEngineRow(e) ==
    /\ engines' = [engines EXCEPT ![e] = Gone]
    /\ insts' = [i \in Ids |-> IF i \in Live(insts) /\ insts[i].engine = e THEN Gone ELSE insts[i]]
    /\ def' = IF def.engine = e THEN [def EXCEPT !.engine = 0] ELSE def

DeleteEngine(t) ==
    /\ At(t, "engine")
    /\ IF thread[t].engine \in Live(engines) THEN RemoveEngineRow(thread[t].engine)
       ELSE UNCHANGED <<def, engines, insts>>
    /\ Goto(t, "def")
    /\ UNCHANGED <<jobs, runs, starts, events, stale, overlapped, untraced>>

DeleteDef(t) ==
    /\ At(t, "def")
    /\ def' = [def EXCEPT !.state = "deleted", !.engine = 0]
    /\ runs' = [i \in Ids |-> "none"]
    /\ End(t)
    /\ UNCHANGED <<engines, jobs, insts, starts, events, stale, overlapped, untraced>>

-----------------------------------------------------------------------------
\* Running: by the workflow page, by the cron job, by the automation page.

Running(op, pc, e) ==
    [op |-> op, pc |-> pc, enabled |-> TRUE, engine |-> e, inst |-> 0]

Run(t) ==
    /\ def.state = "exists" /\ def.enabled
    /\ Manage(t, Running("run", "ask", 0))
    /\ UNCHANGED <<rows, stale>>

\* The row is read again, and written through from what was read: another
\* request may commit between the two statements of the transaction.
AskRun(t) ==
    /\ At(t, "ask")
    /\ IF def.state = "exists"
       THEN thread' = [thread EXCEPT ![t] = [@ EXCEPT
                !.pc = "write", !.enabled = def.enabled, !.engine = def.engine]]
       ELSE End(t)
    /\ UNCHANGED <<rows, starts, events, stale, overlapped, untraced>>

WriteRun(t) ==
    /\ At(t, "write")
    /\ \E e \in Ids :
        /\ WriteThrough(def, thread[t].engine, thread[t].enabled, e)
        /\ thread' = [thread EXCEPT ![t] = [@ EXCEPT !.pc = "admit", !.engine = e]]
    /\ UNCHANGED <<jobs, insts, runs, starts, events, stale, overlapped, untraced>>

\* The wrapper of scheduler.py skips a job that is inactive or gone; the
\* callback of worker.py takes the engine row from the job.
Fire(t, j) ==
    /\ j \in Live(jobs) /\ jobs[j].state = "active"
    /\ Start(t, Running("fire", "admit", jobs[j].engine))
    /\ UNCHANGED <<rows, stale, overlapped>>

RunRaw(t, e) ==
    /\ e \in Live(engines)
    /\ Start(t, Running("raw", "admit", e))
    /\ UNCHANGED <<rows, stale, overlapped>>

\* run_workflow of the engine: the row is active, and fewer instances than
\* max_concurrency are running.
RunningOf(e) == {i \in Live(insts) : insts[i].engine = e /\ insts[i].state = "running"}
Active(e) == e \in Live(engines) /\ engines[e].state = "active"
Below(n) == MaxConcurrency = 0 \/ n < MaxConcurrency

\* fault: the limit itself is let through.
AdmitOneMore(t) ==
    LET e == thread[t].engine
    IN  /\ At(t, "admit")
        /\ IF Active(e) /\ Below(Cardinality(RunningOf(e)) - 1) THEN Goto(t, "insert") ELSE End(t)
        /\ UNCHANGED <<rows, starts, events, stale, overlapped, untraced>>
Admit(t) ==
    LET e == thread[t].engine
    IN  /\ At(t, "admit")
        /\ IF Active(e) /\ Below(Cardinality(RunningOf(e))) THEN Goto(t, "insert") ELSE End(t)
        /\ UNCHANGED <<rows, starts, events, stale, overlapped, untraced>>

NewInstance(t, i) ==
    insts' = [insts EXCEPT ![i] = [state |-> "running", engine |-> thread[t].engine,
                                   by |-> thread[t].op, held |-> FALSE]]

\* fault: an instance of the cron job is not recorded.
InsertUnseen(t) ==
    LET i == NextId(insts)
    IN  /\ At(t, "insert")
        /\ IF thread[t].engine \notin Live(engines) THEN End(t) /\ UNCHANGED insts
           ELSE /\ NewInstance(t, i)
                /\ IF thread[t].op # "run" THEN End(t)
                   ELSE thread' = [thread EXCEPT ![t] = [@ EXCEPT !.pc = "record", !.inst = i]]
        /\ UNCHANGED <<def, engines, jobs, runs, starts, events, stale, overlapped, untraced>>
\* The insertion fails if the engine row has been removed meanwhile.
Insert(t) ==
    LET i == NextId(insts)
    IN  /\ At(t, "insert")
        /\ IF thread[t].engine \notin Live(engines) THEN End(t) /\ UNCHANGED insts
           ELSE /\ NewInstance(t, i)
                /\ IF thread[t].op = "raw" THEN End(t)
                   ELSE thread' = [thread EXCEPT ![t] = [@ EXCEPT !.pc = "record", !.inst = i]]
        /\ UNCHANGED <<def, engines, jobs, runs, starts, events, stale, overlapped, untraced>>

\* record_workflow_run fails if the definition is gone, the instance started.
Record(t) ==
    /\ At(t, "record")
    /\ runs' = IF def.state = "exists" THEN [runs EXCEPT ![thread[t].inst] = "running"] ELSE runs
    /\ End(t)
    /\ UNCHANGED <<def, engines, jobs, insts, starts, events, stale, overlapped, untraced>>

-----------------------------------------------------------------------------
\* The instances run on, and the history asks after them.

\* The engine writes the status of an instance without a look at the one it
\* overwrites: its threads and the requests of an operator have read it, or
\* decided, some transactions before.  An instance that has ended is paused by
\* its thread that meets an approval after a cancel, or by an operator who saw
\* it running.
Become(i, status, held) ==
    /\ i \in Live(insts)
    /\ insts' = [insts EXCEPT ![i] = [@ EXCEPT !.state = status, !.held = held]]
    /\ UNCHANGED <<def, engines, jobs, runs, thread, starts, events, stale, overlapped, untraced>>
Pause(i) == Become(i, "paused", TRUE)
Finish(i) == Become(i, "ended", insts[i].held)
\* resume_instance has seen it paused, at some time; no one counts the others
\* that run when it writes.
Resume(i) == i \in Live(insts) /\ insts[i].held /\ Become(i, "running", TRUE)

\* The page of the history: the runs are listed, and those still marked as
\* running are looked up in the engine and written, one after the other.  One
\* of them is followed here.
ListRuns(t, i) ==
    /\ def.state = "exists" /\ runs[i] = "running"
    /\ Start(t, [op |-> "list", pc |-> "look", inst |-> i, status |-> "running"])
    /\ UNCHANGED <<rows, stale, overlapped>>

\* _sync_run_from_engine: the look-up,
Look(t) ==
    LET i == thread[t].inst
    IN  /\ At(t, "look")
        /\ IF i \in Live(insts) /\ insts[i].state # "running"
           THEN thread' = [thread EXCEPT ![t] = [@ EXCEPT !.pc = "show", !.status = insts[i].state]]
           ELSE End(t)
        /\ UNCHANGED <<rows, starts, events, stale, overlapped, untraced>>

\* and the write of what it found, unless the run has been deleted.
Show(t) ==
    LET i == thread[t].inst
    IN  /\ At(t, "show")
        /\ runs' = IF runs[i] # "none" THEN [runs EXCEPT ![i] = thread[t].status] ELSE runs
        /\ End(t)
        /\ UNCHANGED <<def, engines, jobs, insts, starts, events, stale, overlapped, untraced>>

-----------------------------------------------------------------------------
\* What comes between.

Event == events < MaxEvents /\ events' = events + 1 /\ UNCHANGED <<starts, runs>>

\* A statement fails or the process is recycled: the request ends where it is.
Die(t) ==
    /\ ~At(t, "idle") /\ Event
    /\ End(t)
    /\ overlapped' = (overlapped \/ Managing(t))
    /\ untraced' = IF At(t, "record") THEN untraced \union {thread[t].inst} ELSE untraced
    /\ UNCHANGED <<def, engines, jobs, insts, stale>>

\* The pages of jobs and of engine definitions edit the rows by their ids.
Edit ==
    /\ Event
    /\ stale' = TRUE
    /\ overlapped' = (overlapped \/ ~Quiet)
    /\ UNCHANGED <<thread, untraced>>

ToggleJob(j, on) ==
    /\ j \in Live(jobs) /\ Edit
    /\ jobs' = [jobs EXCEPT ![j].state = Status(on)]
    /\ UNCHANGED <<def, engines, insts>>
RemoveJob(j) ==
    /\ j \in Live(jobs) /\ Edit
    /\ jobs' = [jobs EXCEPT ![j] = Gone]
    /\ UNCHANGED <<def, engines, insts>>
ToggleEngine(e, on) ==
    /\ e \in Live(engines) /\ Edit
    /\ engines' = [engines EXCEPT ![e].state = Status(on)]
    /\ UNCHANGED <<def, jobs, insts>>
RemoveEngine(e) ==
    /\ e \in Live(engines) /\ Edit
    /\ RemoveEngineRow(e)
    /\ UNCHANGED jobs

-----------------------------------------------------------------------------
Request(t) ==
    \/ \E cron, enabled \in BOOLEAN : Create(t, cron, enabled) \/ Update(t, cron, enabled)
    \/ Delete(t) \/ Run(t)
    \/ \E k \in Ids : Fire(t, k) \/ RunRaw(t, k) \/ ListRuns(t, k)
Step(t) ==
    \/ Lookup(t) \/ Sync(t) \/ DeleteEngine(t) \/ DeleteDef(t)
    \/ AskRun(t) \/ WriteRun(t) \/ Admit(t) \/ Insert(t) \/ Record(t)
    \/ Look(t) \/ Show(t)
Next ==
    \/ \E t \in Threads : Request(t) \/ Step(t) \/ Die(t)
    \/ \E k \in Ids :
        \/ Pause(k) \/ Resume(k) \/ Finish(k)
        \/ RemoveJob(k) \/ RemoveEngine(k)
        \/ \E on \in BOOLEAN : ToggleJob(k, on) \/ ToggleEngine(k, on)

Spec == Init /\ [][Next]_vars
-----------------------------------------------------------------------------
\* While no two managing requests have overlapped and none has died, the
\* definition has at most one cron job and no engine row but its own; once it
\* is saved, whatever other pages did to the rows before, job and engine row
\* say what the definition says.
Matches ==
    /\ def.engine # 0 /\ engines[def.engine].state = Status(def.enabled)
    /\ def.cron <=> Live(jobs) # {}
    /\ \A j \in Live(jobs) : jobs[j] = [state |-> Status(def.enabled), engine |-> def.engine]
RowsAgree ==
    Quiet /\ ~overlapped /\ def.state = "exists" =>
        /\ Cardinality(Live(jobs)) <= 1
        /\ Live(engines) \subseteq {def.engine}
        /\ stale \/ Matches

\* A definition that was deleted leaves no job, engine row, instance or run,
\* although jobs fire and instances start while it is being deleted.
DeletedIsGone ==
    Quiet /\ ~overlapped /\ def.state = "deleted" =>
        Live(jobs) \union Live(engines) \union Live(insts) = {}

\* max_concurrency is compared with the instances that run before a new one is
\* inserted: those that start at the same time may exceed it, by one less than
\* the threads there are.  Instances that were resumed come on top.
Inserting(e) == {t \in Threads : At(t, "insert") /\ thread[t].engine = e}
StartedOf(e) == {i \in RunningOf(e) : ~insts[i].held}
ConcurrencyBounded ==
    MaxConcurrency > 0 => \A e \in Ids :
        Cardinality(StartedOf(e)) + Cardinality(Inserting(e)) < MaxConcurrency + Cardinality(Threads)

\* Both ways to start a run keep its history traceable (record_workflow_run):
\* an instance started by the workflow page or by the cron job of a definition
\* that exists is in the history, or about to be, or its thread has died,
\* whatever requests, deletions and listings come between.  What the history
\* says of its status is another matter.
RunsTraced ==
    \A i \in Live(insts) : insts[i].by # "raw" /\ def.state = "exists" =>
        \/ runs[i] # "none" \/ i \in untraced
        \/ \E t \in Threads : At(t, "record") /\ thread[t].inst = i
=============================================================================
