------------------------------ MODULE CronJobs ------------------------------
(***************************************************************************)
(* The executions of the cron jobs: one thread of some process runs        *)
(* _execute_job_wrapper of orchestrator/scheduler.py for a job that is due *)
(* or that an admin started by hand, retries it and goes on with the jobs  *)
(* that depend on it, while other threads do the same for the same jobs,   *)
(* and admins pause, resume and remove them.  Who may fire the jobs that   *)
(* are due is the subject of SchedulerLeader.                              *)
(*                                                                         *)
(* What a job does is left to the environment: it succeeds, fails or times *)
(* out.  The rows of cron_jobs and job_dependencies are shared by all      *)
(* processes; each read and each write is a transaction of its own.        *)
(***************************************************************************)
EXTENDS Integers, Sequences, FiniteSets, Functions

CONSTANTS
    Jobs,           \* ids of cron_jobs
    Processes,      \* processes of the site
    Dispatchers,    \* those whose scheduler fires the jobs that are due
    Threads,        \* threads that execute jobs
    DependsOn,      \* job_dependencies: <<job_id, depends_on_job_id>>
    MaxRuns,        \* cron_jobs.max_runs, 0 for no limit
    MaxRetries,     \* cron_jobs.max_retries
    MaxStarts,      \* bound: executions that are started
    MaxEvents       \* bound: failed statements, recycled processes, jobs edited

ASSUME CronAssumption ==
    /\ IsFiniteSet(Jobs)
    /\ Dispatchers \subseteq Processes
    /\ DependsOn \subseteq Jobs \X Jobs
    /\ IsFiniteSet(Threads)
    /\ MaxRuns \in Nat /\ MaxRetries \in Nat /\ MaxStarts \in Nat
    /\ MaxEvents \in Nat

VARIABLES
    job,        \* job[j]: the columns of the row that executions read and write
    present,    \* the rows that exist
    depends,    \* the rows of job_dependencies
    thread,     \* thread[t]: what a thread is doing
    starts,     \* executions started
    events,     \* faults and edits so far
    abandoned,  \* history: jobs left 'running' by an early return or a fault
    stopped     \* history: threads whose last execution was ended by a fault

cronVars == <<job, present, depends, thread, starts, events, abandoned, stopped>>

Idle == [pc |-> "idle"]
\* `at` is the slot that admits one execution at a time: the job instance of
\* the scheduler of a process, or the entry of its _RUNNING_NOW.
Slots == [proc : Processes, kind : {"due", "now"}, job : Jobs]
\* `todo` is the stack of nested calls: the first job is the one executed.
Working == [pc : {"begin", "mark", "limit", "attempt", "finish", "count", "depend"},
            at : Slots, todo : Seq(Jobs), tries : Nat, ok : BOOLEAN]

CronTypeOK ==
    /\ job \in [Jobs -> [active : BOOLEAN, runs : Nat,
                         status : {"none", "running", "success", "failed"}]]
    /\ present \subseteq Jobs
    /\ depends \subseteq DependsOn \intersect (present \X present)
    /\ thread \in [Threads -> {Idle} \union Working]
    /\ \A t \in Threads : thread[t].pc # "idle" => thread[t].todo # <<>>
    /\ starts \in Nat
    /\ events \in Nat
    /\ abandoned \subseteq Jobs
    /\ stopped \subseteq Threads

CronInit ==
    /\ job = [j \in Jobs |-> [active |-> TRUE, runs |-> 0, status |-> "none"]]
    /\ present = Jobs
    /\ depends = DependsOn
    /\ thread = [t \in Threads |-> Idle]
    /\ starts = 0
    /\ events = 0
    /\ abandoned = {}
    /\ stopped = {}

Current(t) == Head(thread[t].todo)
At(t, step) == thread[t].pc = step
Executes(t, j) == thread[t].pc # "idle" /\ Current(t) = j
Goto(t, step) == thread' = [thread EXCEPT ![t].pc = step]
Call(t, todo) == [thread[t] EXCEPT !.pc = "begin", !.todo = todo,
                                   !.tries = 0, !.ok = FALSE]
\* The call for the first job returns; the caller goes on with its next one.
\* fault: a call that returns ends the thread.
ReturnFromAll(t) == thread' = [thread EXCEPT ![t] = Idle]
Return(t) ==
    thread' = [thread EXCEPT ![t] =
        IF Len(thread[t].todo) = 1 THEN Idle
        ELSE Call(t, Tail(thread[t].todo))]

-----------------------------------------------------------------------------
\* Starting an execution.

\* APScheduler runs one instance of a job at a time (max_instances=1), and
\* run_job_now refuses with 409 while its process runs the job by hand; the
\* two do not know of each other, nor of the other processes.
StartRun(t, p, kind, j) ==
    LET slot == [proc |-> p, kind |-> kind, job |-> j]
    IN  /\ At(t, "idle") /\ starts < MaxStarts
        /\ j \in present
        /\ \A u \in Threads : thread[u].pc # "idle" => thread[u].at # slot
        /\ starts' = starts + 1
        /\ thread' = [thread EXCEPT ![t] = [pc |-> "begin", at |-> slot, todo |-> <<j>>,
                                            tries |-> 0, ok |-> FALSE]]
        /\ stopped' = stopped \ {t}
        /\ UNCHANGED <<job, present, depends, events, abandoned>>

Due(t, p, j) == p \in Dispatchers /\ job[j].active /\ StartRun(t, p, "due", j)
RunNow(t, p, j) == StartRun(t, p, "now", j)

-----------------------------------------------------------------------------
\* _execute_job_wrapper and _execute_with_retries.

Begin(t) ==
    /\ At(t, "begin")
    /\ IF Current(t) \in present /\ job[Current(t)].active THEN Goto(t, "mark") ELSE Return(t)
    /\ UNCHANGED <<job, present, depends, starts, events, abandoned, stopped>>

\* An UPDATE of a row that has been removed changes nothing.
Write(j, row) == job' = IF j \in present THEN [job EXCEPT ![j] = row] ELSE job

Mark(t) ==
    /\ At(t, "mark")
    /\ Write(Current(t), [job[Current(t)] EXCEPT !.status = "running"])
    /\ Goto(t, "limit")
    /\ UNCHANGED <<present, depends, starts, events, abandoned, stopped>>

\* Runs are compared with the limit.  The early return would leave 'running'
\* behind; it needs a count of runs, and the count stays 0 (see Count).
Limit(t) ==
    /\ At(t, "limit")
    /\ IF Current(t) \in present /\ MaxRuns > 0 /\ job[Current(t)].runs >= MaxRuns
       THEN Return(t) /\ abandoned' = abandoned \union {Current(t)}
       ELSE /\ thread' = [thread EXCEPT ![t] = [@ EXCEPT !.pc = "attempt"]]
            /\ UNCHANGED abandoned
    /\ UNCHANGED <<job, present, depends, starts, events, stopped>>

Ended(t, ok) == thread' = [thread EXCEPT ![t] = [@ EXCEPT !.pc = "finish", !.tries = 0, !.ok = ok]]

\* One attempt: it succeeds, times out (no retry), or fails and is retried.
Attempt(t) ==
    /\ At(t, "attempt")
    /\ \/ Ended(t, TRUE)
       \/ Ended(t, FALSE)
       \/ /\ thread[t].tries < MaxRetries
          /\ thread' = [thread EXCEPT ![t].tries = @ + 1]
    /\ UNCHANGED <<job, present, depends, starts, events, abandoned, stopped>>

\* fault: only a success is written.
FinishSuccess(t) ==
    /\ At(t, "finish")
    /\ IF thread[t].ok THEN Write(Current(t), [job[Current(t)] EXCEPT !.status = "success"])
       ELSE UNCHANGED job
    /\ Goto(t, "count")
    /\ UNCHANGED <<present, depends, starts, events, abandoned, stopped>>
\* fault: what did not succeed is written as 'timeout', which the column admits.
FinishTimeout(t) ==
    /\ At(t, "finish")
    /\ Write(Current(t), [job[Current(t)] EXCEPT !.status = IF thread[t].ok THEN "success" ELSE "timeout"])
    /\ Goto(t, "count")
    /\ UNCHANGED <<present, depends, starts, events, abandoned, stopped>>
Finish(t) ==
    /\ At(t, "finish")
    /\ Write(Current(t), [job[Current(t)] EXCEPT !.status = IF thread[t].ok THEN "success" ELSE "failed"])
    /\ Goto(t, "count")
    /\ UNCHANGED <<present, depends, starts, events, abandoned, stopped>>

\* The UPDATE that increments run_count is followed by commit() on what
\* get_db() yields, a cursor, which has no such method: the exception rolls
\* the transaction back and is swallowed.  The row stays as it is.
Count(t) ==
    /\ At(t, "count")
    /\ IF thread[t].ok THEN Goto(t, "depend") ELSE Return(t)
    /\ UNCHANGED <<job, present, depends, starts, events, abandoned, stopped>>

Arrangements(S) ==
    {q \in [1..Cardinality(S) -> S] : \A i, k \in DOMAIN q : q[i] = q[k] => i = k}

\* _trigger_dependent_jobs: the active dependents are read at once and
\* executed one after the other, each with the dependents of its own.
Depend(t) ==
    LET next == {j \in present : job[j].active /\ <<j, Current(t)>> \in depends}
    IN  /\ At(t, "depend")
        /\ IF next = {} THEN Return(t)
           ELSE \E q \in Arrangements(next) :
                    thread' = [thread EXCEPT ![t] = Call(t, q \o Tail(thread[t].todo))]
        /\ UNCHANGED <<job, present, depends, starts, events, abandoned, stopped>>

-----------------------------------------------------------------------------
\* What goes wrong, and what the admins do.

\* What a thread leaves behind when it stops where it is.
Leaves(t, j) == Executes(t, j) /\ thread[t].pc \in {"limit", "attempt", "finish"}

Stop(T) ==
    /\ events < MaxEvents
    /\ events' = events + 1
    /\ \E t \in T : thread[t].pc # "idle"
    /\ thread' = [t \in Threads |-> IF t \in T THEN Idle ELSE thread[t]]
    /\ abandoned' = abandoned \union {j \in Jobs : \E t \in T : Leaves(t, j)}
    /\ stopped' = stopped \union T
    /\ UNCHANGED <<job, present, depends, starts>>

\* A statement fails: the exception ends the thread, nested calls and all.
StatementFails(t) == thread[t].pc \notin {"idle", "attempt", "count"} /\ Stop({t})
\* A process is recycled with its threads.
Recycle(p) == Stop({t \in Threads : thread[t].pc # "idle" /\ thread[t].at.proc = p})

\* toggle_job writes the negation of what it has read, which may be old.
Toggle(j, on) ==
    /\ j \in present /\ job[j].active # on /\ events < MaxEvents
    /\ events' = events + 1
    /\ job' = [job EXCEPT ![j].active = on]
    /\ UNCHANGED <<present, depends, thread, starts, abandoned, stopped>>

RemoveJob(j) ==
    /\ j \in present /\ events < MaxEvents
    /\ events' = events + 1
    /\ present' = present \ {j}
    /\ depends' = {d \in depends : d[1] # j /\ d[2] # j}
    /\ UNCHANGED <<job, thread, starts, abandoned, stopped>>

-----------------------------------------------------------------------------
CronStep(t) ==
    \/ Begin(t) \/ Mark(t) \/ Limit(t) \/ Attempt(t) \/ Finish(t)
    \/ Count(t) \/ Depend(t)

CronNext ==
    \/ \E t \in Threads :
        \/ \E p \in Processes, j \in Jobs : Due(t, p, j) \/ RunNow(t, p, j)
        \/ CronStep(t) \/ StatementFails(t)
    \/ \E p \in Processes : Recycle(p)
    \/ \E j \in Jobs : (\E on \in BOOLEAN : Toggle(j, on)) \/ RemoveJob(j)

CronSpec == CronInit /\ [][CronNext]_cronVars

\* A thread that runs is scheduled, and what a job calls returns.
CronFairness == \A t \in Threads : WF_cronVars(CronStep(t))
FairCronSpec == CronSpec /\ CronFairness
-----------------------------------------------------------------------------
\* A job is shown as running while a thread executes it, unless one has
\* left it behind: a fault, or the early return of Limit.
RunningIsExecuted ==
    \A j \in present : job[j].status = "running" =>
        j \in abandoned \/ \E t \in Threads : Executes(t, j)

\* The dependents of a job that succeeded wait on the stack of the thread, one
\* behind the other: each is called in the end, whether those before it
\* succeed, fail, are paused or removed meanwhile, or bring dependents of
\* their own, unless a fault ends this very execution.
Waits(t, j) == thread[t].pc # "idle" /\ j \in Range(Tail(thread[t].todo))
DependentsAreReached ==
    \A t \in Threads, j \in Jobs : Waits(t, j) ~> Executes(t, j) \/ t \in stopped
=============================================================================
