-------------------------- MODULE SchedulerLeader --------------------------
(***************************************************************************)
(* The cron schedulers of orchestrator/scheduler.py.  Every worker process *)
(* of the admin site starts one (init_automation); they elect the one that *)
(* may run business jobs with a lease row in the table scheduler_leader,   *)
(* which each of them tries to take or renew in its heartbeat.  A process  *)
(* that has no lease keeps its jobs registered and suspended.              *)
(*                                                                         *)
(* Per process the model has the thread that runs start() and then the     *)
(* heartbeats, and the thread of an HTTP request that changes the jobs or  *)
(* pauses the scheduler; both touch the same APScheduler.  Time is         *)
(* discrete; what a job does when it fires is not modelled.                *)
(***************************************************************************)
EXTENDS Integers, FiniteSets

CONSTANTS
    Process,    \* scheduler ids (host and pid: a restarted worker is another)
    Job,        \* rows of cron_jobs
    Plugin,     \* jobs of plugins (add_plugin_job), not in the table
    Mortal,     \* the processes that may end
    None,       \* no process, no job
    TTL,        \* SCHEDULER_LEADER_TTL_SECONDS
    Gap,        \* the longest time from one heartbeat's query to the next one's
    Span,       \* the longest time from that query to the end of the heartbeat
    MaxFaults,  \* bound: heartbeats whose query fails
    MaxEdits    \* bound: requests

ASSUME ProcessAssumption == None \notin Process /\ Mortal \subseteq Process
ASSUME JobAssumption ==
    IsFiniteSet(Job \cup Plugin) /\ Job \cap Plugin = {} /\ None \notin Job \cup Plugin
ASSUME TimeAssumption == {TTL, Gap, Span, MaxFaults, MaxEdits} \subseteq Nat /\ Span <= Gap

VARIABLES
    holder,     \* scheduler_leader.holder
    age,        \* time since expires_at was written; the lease ends after TTL
    election,   \* system_config.scheduler_leader_election
    active,     \* the cron_jobs with is_active = 1
    hb,         \* per process: start(), then the heartbeat
    won,        \* what its last _try_acquire_leadership answered, and why
    leader,     \* _is_leader and _leadership_checked
    beat,       \* time since its last query, or since it was resumed
    running,    \* the APScheduler is not paused
    stale,      \* history: started, paused or told to run without a lease
                \* since its last full heartbeat
    jobs,       \* the jobs registered with its APScheduler
    susp,       \* those of them that are paused
    todo,       \* the jobs the heartbeat still has to switch
    req,        \* the request it is serving
    left,       \* the jobs the request still has to treat
    rjob,       \* the job the request is treating
    faults,     \* failed queries so far
    edits       \* requests so far

vars == <<holder, age, election, active, hb, won, leader, beat, running, stale,
          jobs, susp, todo, req, left, rjob, faults, edits>>

row     == <<holder, age>>
aps     == <<running, jobs, susp>>
beating == <<hb, won, leader, beat, stale, todo>>
serving == <<req, left, rjob>>
bounds  == <<faults, edits>>

AnyJob == Job \cup Plugin

Up(p) == hb[p] \notin {"new", "dead"}

\* "unset": _leadership_checked is False and _is_leader is still True
Verdict == {"no", "lease", "switch"}

Init ==
    /\ holder = None /\ age = TTL + 1
    /\ election = TRUE
    /\ active \in SUBSET Job
    /\ hb = [p \in Process |-> "new"]
    /\ won = [p \in Process |-> "no"]
    /\ leader = [p \in Process |-> "unset"]
    /\ beat = [p \in Process |-> 0]
    /\ running = [p \in Process |-> TRUE]
    /\ stale = [p \in Process |-> TRUE]
    /\ jobs = [p \in Process |-> {}]
    /\ susp = [p \in Process |-> {}]
    /\ todo = [p \in Process |-> {}]
    /\ req = [p \in Process |-> "idle"]
    /\ left = [p \in Process |-> {}]
    /\ rjob = [p \in Process |-> None]
    /\ faults = 0 /\ edits = 0

-----------------------------------------------------------------------------
(* APScheduler's pause_job and resume_job: an error for an unknown job,    *)
(* which every caller catches.                                             *)

\* fault: a job that has been removed meanwhile is paused all the same
PausedUnknown(p, js) == susp' = [susp EXCEPT ![p] = @ \cup js]

Paused(p, js)  == susp' = [susp EXCEPT ![p] = @ \cup (js \cap jobs[p])]
Resumed(p, js) == susp' = [susp EXCEPT ![p] = @ \ js]

\* add_job(replace_existing=True) puts the job in place unpaused, and
\* remove_job drops it
Registered(p, j) ==
    /\ jobs' = [jobs EXCEPT ![p] = @ \cup {j}]
    /\ susp' = [susp EXCEPT ![p] = @ \ {j}]
Removed(p, js) ==
    /\ jobs' = [jobs EXCEPT ![p] = @ \ js]
    /\ susp' = [susp EXCEPT ![p] = @ \ js]

Serve(p, state) == req' = [req EXCEPT ![p] = state]
Beat(p, state)  == hb' = [hb EXCEPT ![p] = state]

\* the heartbeat goes on, or is over
BeatUnless(p, over, state) ==
    IF over
    THEN Beat(p, "idle") /\ stale' = [stale EXCEPT ![p] = ~running[p] \/ leader'[p] = "switch"]
    ELSE Beat(p, state) /\ UNCHANGED stale

-----------------------------------------------------------------------------
(* start() and the heartbeat.                                              *)

\* start(): the jobs are synchronised before the first election
Start(p) ==
    /\ hb[p] = "new"
    /\ Beat(p, "boot")
    /\ Serve(p, "sync")
    /\ UNCHANGED <<row, election, active, won, leader, beat, stale, todo, aps, left, rjob, bounds>>

\* fault: the heartbeat is suspended with the business jobs
MayProbeUnsuspended(p) ==
    \/ hb[p] = "boot" /\ req[p] = "idle"
    \/ hb[p] = "idle" /\ running[p] /\ leader[p] # "no"

\* the first election, or a heartbeat the APScheduler dispatches
MayProbe(p) ==
    \/ hb[p] = "boot" /\ req[p] = "idle"
    \/ hb[p] = "idle" /\ running[p]

\* fault: any replica may take a lease that was not renewed at once
ObtainableEarly(p) == holder = p \/ age > Span

\* the WHERE clause of the upsert
Obtainable(p) == holder = p \/ age > TTL

Queried(p, verdict) ==
    /\ MayProbe(p)
    /\ Beat(p, "apply")
    /\ won' = [won EXCEPT ![p] = verdict]
    /\ beat' = [beat EXCEPT ![p] = 0]
    /\ UNCHANGED <<election, active, leader, stale, todo, aps, serving>>

\* fault: a renewal leaves expires_at as it is
TakenOnce(p) == holder' = p /\ age' = IF holder = p THEN age ELSE 0

Taken(p) == holder' = p /\ age' = 0

\* _try_acquire_leadership
TryAcquire(p) ==
    /\ election
    /\ IF Obtainable(p)
       THEN Queried(p, "lease") /\ Taken(p)
       ELSE Queried(p, "no") /\ UNCHANGED row
    /\ UNCHANGED bounds

ElectionOff(p) ==
    /\ ~election
    /\ Queried(p, "switch")
    /\ UNCHANGED <<row, bounds>>

\* An exception: the answer is no, whether the transaction was committed or
\* not.  A switch that cannot be read counts as on.
ProbeFails(p) ==
    /\ faults < MaxFaults
    /\ faults' = faults + 1
    /\ Queried(p, "no")
    /\ \/ Obtainable(p) /\ Taken(p)
       \/ UNCHANGED row
    /\ UNCHANGED edits

\* _apply_leadership returns at once when nothing changes, and otherwise
\* sets _is_leader before it lists the jobs
ApplyLeadership(p) ==
    LET same == leader[p] # "unset" /\ (leader[p] = "no" <=> won[p] = "no") IN
    /\ hb[p] = "apply"
    /\ leader' = [leader EXCEPT ![p] = won[p]]
    /\ won' = [won EXCEPT ![p] = "no"]
    /\ BeatUnless(p, same, "list")
    /\ UNCHANGED <<row, election, active, beat, todo, aps, serving, bounds>>

\* _set_business_jobs_suspended: get_jobs(), the heartbeat job left out
ListJobs(p) ==
    /\ hb[p] = "list"
    /\ todo' = [todo EXCEPT ![p] = jobs[p]]
    /\ UNCHANGED <<row, election, active, won, leader, beat, aps, serving, bounds>>
    /\ BeatUnless(p, jobs[p] = {}, "switch")

SwitchJob(p) ==
    /\ hb[p] = "switch"
    /\ UNCHANGED <<row, election, active, won, leader, beat, running, jobs, serving, bounds>>
    /\ \E j \in todo[p] :
          /\ IF leader[p] = "no" THEN Paused(p, {j}) ELSE Resumed(p, {j})
          /\ todo' = [todo EXCEPT ![p] = @ \ {j}]
          /\ BeatUnless(p, todo[p] = {j}, "switch")

-----------------------------------------------------------------------------
(* Requests.                                                               *)

MayServe(p) ==
    /\ hb[p] \notin {"new", "boot", "dead"} /\ leader[p] # "unset"
    /\ req[p] = "idle"
    /\ edits < MaxEdits
    /\ edits' = edits + 1
    /\ UNCHANGED <<row, election, hb, won, leader, todo, faults>>

\* add_job, update_job, pause_job, resume_job: the row, then _sync_cron_jobs
EditJob(p, j) ==
    /\ MayServe(p)
    /\ active' \in {active \cup {j}, active \ {j}}
    /\ Serve(p, "sync")
    /\ UNCHANGED <<beat, stale, aps, left, rjob>>

\* remove_job: the row, then the registration in this process
DeleteJob(p, j) ==
    /\ MayServe(p)
    /\ j \in active
    /\ active' = active \ {j}
    /\ rjob' = [rjob EXCEPT ![p] = j]
    /\ Serve(p, "drop")
    /\ UNCHANGED <<beat, stale, aps, left>>

AddPluginJob(p, j) ==
    /\ MayServe(p)
    /\ Registered(p, j)
    /\ rjob' = [rjob EXCEPT ![p] = j]
    /\ Serve(p, "added")
    /\ UNCHANGED <<beat, stale, active, running, left>>

\* remove_plugin_jobs
RemovePluginJobs(p) ==
    /\ MayServe(p)
    /\ jobs[p] \cap Plugin # {}
    /\ Removed(p, Plugin)
    /\ UNCHANGED <<beat, stale, active, running, serving>>

\* pause(): APScheduler stops dispatching, the heartbeat included
PauseScheduler(p) ==
    /\ MayServe(p)
    /\ running[p]
    /\ running' = [running EXCEPT ![p] = FALSE]
    /\ stale' = [stale EXCEPT ![p] = TRUE]
    /\ UNCHANGED <<active, beat, jobs, susp, serving>>

\* resume(): dispatching goes on before leadership is looked at
ResumeScheduler(p) ==
    /\ MayServe(p)
    /\ ~running[p]
    /\ running' = [running EXCEPT ![p] = TRUE]
    /\ beat' = [beat EXCEPT ![p] = IF hb[p] = "idle" THEN 0 ELSE @]
    /\ Serve(p, "resumed")
    /\ UNCHANGED <<active, stale, jobs, susp, left, rjob>>

\* what the two threads of a process leave to each other
Untouched == <<row, election, active, beating, running, bounds>>

\* _sync_cron_jobs: the registrations of the table's jobs are dropped, the
\* table is read ...
SyncJobs(p) ==
    /\ req[p] = "sync"
    /\ Removed(p, Job)
    /\ left' = [left EXCEPT ![p] = active]
    /\ Serve(p, IF active = {} THEN "idle" ELSE "add")
    /\ UNCHANGED <<Untouched, rjob>>

\* ... and its jobs are registered again: _schedule_job
ScheduleJob(p) ==
    /\ req[p] = "add"
    /\ \E j \in left[p] :
          /\ Registered(p, j)
          /\ left' = [left EXCEPT ![p] = @ \ {j}]
          /\ rjob' = [rjob EXCEPT ![p] = j]
    /\ Serve(p, "added")
    /\ UNCHANGED Untouched

NextJob(p) ==
    /\ Serve(p, IF left[p] = {} THEN "idle" ELSE "add")
    /\ rjob' = [rjob EXCEPT ![p] = None]

\* fault: a new registration is not checked against the leadership
RegisterUnchecked(p) ==
    /\ req[p] = "added"
    /\ NextJob(p)
    /\ UNCHANGED <<Untouched, jobs, susp, left>>

\* "if self._leadership_checked and not self._is_leader"
CheckLeadership(p) ==
    /\ req[p] = "added"
    /\ IF leader[p] = "no" THEN Serve(p, "pause") /\ UNCHANGED rjob ELSE NextJob(p)
    /\ UNCHANGED <<Untouched, jobs, susp, left>>

PauseNewJob(p) ==
    /\ req[p] = "pause"
    /\ Paused(p, {rjob[p]})
    /\ NextJob(p)
    /\ UNCHANGED <<Untouched, jobs, left>>

DropJob(p) ==
    /\ req[p] = "drop"
    /\ Removed(p, {rjob[p]})
    /\ Serve(p, "idle")
    /\ rjob' = [rjob EXCEPT ![p] = None]
    /\ UNCHANGED <<Untouched, left>>

\* the rest of resume(): a process that knows it has no lease suspends its
\* jobs (again)
ResumeChecks(p) ==
    /\ req[p] = "resumed"
    /\ left' = [left EXCEPT ![p] = IF leader[p] = "no" THEN jobs[p] ELSE {}]
    /\ Serve(p, IF leader[p] = "no" /\ jobs[p] # {} THEN "resuspend" ELSE "idle")
    /\ UNCHANGED <<Untouched, jobs, susp, rjob>>

Resuspend(p) ==
    /\ req[p] = "resuspend"
    /\ \E j \in left[p] :
          /\ Paused(p, {j})
          /\ left' = [left EXCEPT ![p] = @ \ {j}]
          /\ Serve(p, IF left[p] = {j} THEN "idle" ELSE "resuspend")
    /\ UNCHANGED <<Untouched, jobs, rjob>>

-----------------------------------------------------------------------------
(* The environment.                                                        *)

\* an administrator changes the switch
FlipElection ==
    /\ edits < MaxEdits
    /\ edits' = edits + 1
    /\ election' = ~election
    /\ UNCHANGED <<row, active, beating, aps, serving, faults>>

\* a worker process ends: what it knew is gone, the row and the table stay
Die(p) ==
    /\ Up(p)
    /\ Beat(p, "dead")
    /\ Serve(p, "idle")
    /\ leader' = [leader EXCEPT ![p] = "unset"]
    /\ won' = [won EXCEPT ![p] = "no"]
    /\ beat' = [beat EXCEPT ![p] = 0]
    /\ stale' = [stale EXCEPT ![p] = TRUE]
    /\ running' = [running EXCEPT ![p] = TRUE]
    /\ jobs' = [jobs EXCEPT ![p] = {}]
    /\ susp' = [susp EXCEPT ![p] = {}]
    /\ todo' = [todo EXCEPT ![p] = {}]
    /\ left' = [left EXCEPT ![p] = {}]
    /\ rjob' = [rjob EXCEPT ![p] = None]
    /\ UNCHANGED <<row, election, active, bounds>>

\* A heartbeat in progress ends within Span; the next one follows within Gap,
\* as long as the APScheduler is not paused.
OnTime(p) ==
    CASE hb[p] \in {"apply", "list", "switch"} -> beat[p] < Span
      [] hb[p] = "idle" /\ running[p]          -> beat[p] < Gap
      [] OTHER                                 -> TRUE

Tick ==
    /\ \A p \in Process : OnTime(p)
    /\ age' = IF age > TTL THEN age ELSE age + 1
    /\ beat' = [p \in Process |->
                   IF Up(p) /\ hb[p] # "boot" /\ beat[p] < Gap + Span
                   THEN beat[p] + 1 ELSE beat[p]]
    /\ UNCHANGED <<holder, election, active, hb, won, leader, stale, todo, aps, serving, bounds>>

-----------------------------------------------------------------------------

Heartbeat(p) ==
    \/ TryAcquire(p)
    \/ ElectionOff(p)
    \/ ApplyLeadership(p)
    \/ ListJobs(p)
    \/ SwitchJob(p)

RequestGoesOn(p) ==
    \/ SyncJobs(p)
    \/ ScheduleJob(p)
    \/ CheckLeadership(p)
    \/ PauseNewJob(p)
    \/ DropJob(p)
    \/ ResumeChecks(p)
    \/ Resuspend(p)

RequestArrives(p) ==
    \/ \E j \in Job : EditJob(p, j)
    \/ \E j \in Job : DeleteJob(p, j)
    \/ \E j \in Plugin : AddPluginJob(p, j)
    \/ RemovePluginJobs(p)
    \/ PauseScheduler(p)
    \/ ResumeScheduler(p)

Next ==
    \/ \E p \in Process : Start(p) \/ Heartbeat(p) \/ ProbeFails(p)
    \/ \E p \in Process : RequestArrives(p) \/ RequestGoesOn(p)
    \/ \E p \in Mortal : Die(p)
    \/ FlipElection
    \/ Tick

Spec == Init /\ [][Next]_vars

\* Time passes, a dispatched heartbeat and a request in progress come to an
\* end.  Nobody has to send requests, and queries need not fail.
Fairness ==
    /\ WF_vars(Tick)
    /\ \A p \in Process : WF_vars(Heartbeat(p)) /\ WF_vars(RequestGoesOn(p))

FairSpec == Spec /\ Fairness

-----------------------------------------------------------------------------
(* Properties.                                                             *)

(* Every variable holds a value of its type, and only jobs that are        *)
(* registered with an APScheduler are paused in it.                        *)
TypeOK ==
    /\ holder \in Process \cup {None} /\ age \in 0 .. TTL + 1
    /\ election \in BOOLEAN
    /\ active \in SUBSET Job
    /\ hb \in [Process -> {"new", "boot", "idle", "apply", "list", "switch", "dead"}]
    /\ won \in [Process -> Verdict]
    /\ leader \in [Process -> Verdict \cup {"unset"}]
    /\ beat \in [Process -> Nat]
    /\ running \in [Process -> BOOLEAN]
    /\ stale \in [Process -> BOOLEAN]
    /\ jobs \in [Process -> SUBSET AnyJob]
    /\ susp \in [Process -> SUBSET AnyJob]
    /\ todo \in [Process -> SUBSET AnyJob]
    /\ req \in [Process -> {"idle", "sync", "add", "added", "pause",
                            "drop", "resumed", "resuspend"}]
    /\ left \in [Process -> SUBSET AnyJob]
    /\ rjob \in [Process -> AnyJob \cup {None}]
    /\ faults \in Nat /\ edits \in Nat
    /\ \A p \in Process : susp[p] \subseteq jobs[p]

\* p believes in a lease it was granted, and has not been paused since
Leads(p) == Up(p) /\ leader[p] = "lease" /\ ~stale[p]

(* No two processes act on a lease at the same time: whoever lost it has   *)
(* noticed before anybody else can take it, although the row says nothing  *)
(* to its former holder and the query, its answer and the switch-over are  *)
(* separate steps.  It needs Gap + Span <= TTL.                            *)
OneLeader == \A p, q \in Process : Leads(p) /\ Leads(q) => p = q

\* The refinement mapping: the row keeps the name of a holder whose time is
\* over.
Owner == IF age > TTL THEN None ELSE holder
Acting == {p \in Process : Leads(p)}

Granted == INSTANCE Lease WITH
    Clients <- Process, Nobody <- None, owner <- Owner, acting <- Acting

(* The election implements a lease: the row passes on only when it has run *)
(* out, and it never runs out while its holder still acts on it.           *)
ImplementsLease == Granted!Spec

(* Between two heartbeats a process without leadership has every job       *)
(* suspended, whichever way requests that register jobs interleave with    *)
(* the heartbeat that switches the jobs over.                              *)
NonLeaderSuspended ==
    \A p \in Process :
        hb[p] = "idle" /\ leader[p] = "no" /\ req[p] = "idle" => susp[p] = jobs[p]

Fires(p, j) == Up(p) /\ running[p] /\ j \in jobs[p] \ susp[p]

\* p acts on an election that is over: it was decided with the switch on, and
\* p is neither starting nor registering jobs nor back from a pause
Settled(p) == leader[p] \in {"no", "lease"} /\ ~stale[p] /\ req[p] = "idle"

(* A job does not fire in two settled processes, even while one of them is *)
(* still suspending its jobs because it could not renew its lease.         *)
FiresOnce ==
    \A p, q \in Process, j \in AnyJob :
        p # q /\ Settled(p) /\ Settled(q) => ~(Fires(p, j) /\ Fires(q, j))

(* Crashes, failed queries and pauses do not leave the site without a      *)
(* scheduler for good: again and again some process leads, unless none is  *)
(* up and dispatching.  Suspending the jobs never stops the heartbeat.     *)
SomebodyLeads ==
    []<>(\/ \E p \in Process : Up(p) /\ running[p] /\ leader[p] \in {"lease", "switch"}
         \/ \A p \in Process : ~(Up(p) /\ running[p]))

=============================================================================
