---------------------------- MODULE EventOutbox ----------------------------
(***************************************************************************)
(* The business events of plugin_manager/event_bus.py: emit() stores an    *)
(* event in the table event_outbox and hands it to a thread pool, the pool *)
(* runs every handler subscribed in its process and writes the result      *)
(* back, and a scan in every process claims the pending rows under a lease *)
(* and dispatches them again.                                              *)
(*                                                                         *)
(* Time is abstracted to what the scan tests: `waiting` says that          *)
(* next_retry_at lies ahead, `leased` that locked_until does.              *)
(* The events are asynchronous ones (orders, users, ...): lifecycle        *)
(* events run their handlers inside emit() and touch no row.               *)
(***************************************************************************)
EXTENDS Naturals, FiniteSets

CONSTANTS
    Procs,          \* processes that share the table: admin and site workers
    Emitters,       \* those of them in which business events arise
    Threads,        \* threads of a process's pool that the model runs
    Events,         \* emitted events, one row each
    Handlers,       \* the handlers the plugins subscribe to these events
    MaxAttempts,    \* EVENT_OUTBOX_MAX_ATTEMPTS
    QueueBound,     \* bound: dispatches of one event waiting in one pool
    MaxFaults       \* bound: process deaths and failed statements in a run

ASSUME OutboxAssumption ==
    /\ Emitters \subseteq Procs
    /\ MaxAttempts \in Nat \ {0}
    /\ QueueBound \in Nat \ {0}
    /\ MaxFaults \in Nat

VARIABLES
    row,        \* row[e]: the row of e in event_outbox
    handlers,   \* handlers[p]: EventBus._handlers of process p
    up,         \* up[p]: the process runs
    selected,   \* selected[p]: ids the running claim of p has selected
    queued,     \* queued[p][d]: dispatches submitted and not begun
    worker,     \* worker[p][t]: the dispatch a pool thread is running
    emitted,    \* events that have been emitted
    faults,     \* deaths and failed statements so far
    served,     \* history: served[e], the handlers that accepted e
    blind       \* history: events dispatched where a handler was missing

vars == <<row, handlers, up, selected, queued, worker, emitted, faults,
          served, blind>>

\* A dispatch of an event, with the row to write back to or without one.
Dispatches == [event : Events, stored : BOOLEAN]

Rows == [status : {"none", "pending", "done", "dead"}, attempts : Nat,
         waiting : BOOLEAN, leased : BOOLEAN]
NoRow == [status |-> "none", attempts |-> 0, waiting |-> FALSE, leased |-> FALSE]
NewRow == [NoRow EXCEPT !.status = "pending"]
Idle == [on |-> FALSE]
Running == [on : {TRUE}, job : Dispatches, todo : SUBSET Handlers, err : BOOLEAN]

TypeOK ==
    /\ row \in [Events -> Rows]
    /\ handlers \in [Procs -> SUBSET Handlers]
    /\ up \in [Procs -> BOOLEAN]
    /\ selected \in [Procs -> SUBSET Events]
    /\ queued \in [Procs -> [Dispatches -> Nat]]
    /\ worker \in [Procs -> [Threads -> {Idle} \union Running]]
    /\ emitted \subseteq Events
    /\ faults \in Nat
    /\ served \in [Events -> SUBSET Handlers]
    /\ blind \subseteq Events

NoJobs == [d \in Dispatches |-> 0]
Init ==
    /\ row = [e \in Events |-> NoRow]
    /\ handlers = [p \in Procs |-> {}]
    /\ up = [p \in Procs |-> TRUE]
    /\ selected = [p \in Procs |-> {}]
    /\ queued = [p \in Procs |-> NoJobs]
    /\ worker = [p \in Procs |-> [t \in Threads |-> Idle]]
    /\ emitted = {}
    /\ faults = 0
    /\ served = [e \in Events |-> {}]
    /\ blind = {}

-----------------------------------------------------------------------------
\* Subscriptions.  The resend thread starts with init_app, the plugins
\* subscribe later, one by one, while the process preloads them.

\* fault: a name that is no handler's is subscribed.
SubscribeAny(p, h) ==
    /\ up[p] /\ h \notin handlers[p]
    /\ handlers' = [handlers EXCEPT ![p] = @ \union {p}]
    /\ UNCHANGED <<row, up, selected, queued, worker, emitted, faults, served, blind>>
Subscribe(p, h) ==
    /\ up[p] /\ h \notin handlers[p]
    /\ handlers' = [handlers EXCEPT ![p] = @ \union {h}]
    /\ UNCHANGED <<row, up, selected, queued, worker, emitted, faults, served, blind>>

-----------------------------------------------------------------------------
\* emit(): nothing happens without a subscriber; otherwise the event is
\* stored, or not stored when the statement fails, and submitted.

Submit(p, d) == queued' = [queued EXCEPT ![p][d] = @ + 1]

Emit(p, e) ==
    /\ p \in Emitters /\ up[p] /\ e \notin emitted
    /\ emitted' = emitted \union {e}
    /\ \/ /\ handlers[p] = {}
          /\ UNCHANGED <<row, queued, faults>>
       \/ /\ handlers[p] # {}
          /\ row' = [row EXCEPT ![e] = NewRow]
          /\ Submit(p, [event |-> e, stored |-> TRUE])
          /\ UNCHANGED faults
       \/ /\ handlers[p] # {}
          /\ faults < MaxFaults
          /\ faults' = faults + 1
          /\ Submit(p, [event |-> e, stored |-> FALSE])
          /\ UNCHANGED row
    /\ UNCHANGED <<handlers, up, selected, worker, served, blind>>

-----------------------------------------------------------------------------
\* _dispatch_async on a pool thread.

\* The handlers are read when the dispatch begins.
Begin(p, t, d) ==
    /\ up[p] /\ queued[p][d] > 0 /\ ~worker[p][t].on
    /\ queued' = [queued EXCEPT ![p][d] = @ - 1]
    /\ worker' = [worker EXCEPT ![p][t] =
                    [on |-> TRUE, job |-> d, todo |-> handlers[p], err |-> FALSE]]
    /\ blind' = IF handlers[p] = Handlers THEN blind ELSE blind \union {d.event}
    /\ UNCHANGED <<row, handlers, up, selected, emitted, faults, served>>

\* _run_handler catches everything a handler raises; one failure marks the
\* whole dispatch and the next handler runs all the same.
\* fault: the verdict of the last handler alone decides.
RunHandlerLastWins(p, t, h) ==
    LET w == worker[p][t]
    IN  /\ up[p] /\ w.on /\ h \in w.todo
        /\ \/ /\ worker' = [worker EXCEPT ![p][t] = [w EXCEPT !.todo = @ \ {h}, !.err = FALSE]]
              /\ served' = [served EXCEPT ![w.job.event] = @ \union {h}]
           \/ /\ worker' = [worker EXCEPT ![p][t] = [w EXCEPT !.todo = @ \ {h}, !.err = TRUE]]
              /\ UNCHANGED served
        /\ UNCHANGED <<row, handlers, up, selected, queued, emitted, faults, blind>>
RunHandler(p, t, h) ==
    LET w == worker[p][t]
    IN  /\ up[p] /\ w.on /\ h \in w.todo
        /\ \/ /\ worker' = [worker EXCEPT ![p][t].todo = @ \ {h}]
              /\ served' = [served EXCEPT ![w.job.event] = @ \union {h}]
           \/ /\ worker' = [worker EXCEPT ![p][t] = [w EXCEPT !.todo = @ \ {h}, !.err = TRUE]]
              /\ UNCHANGED served
        /\ UNCHANGED <<row, handlers, up, selected, queued, emitted, faults, blind>>

\* _outbox_finish: neither UPDATE looks at the status it overwrites.
Finished(r, err) ==
    IF err
    THEN [status |-> IF r.attempts + 1 >= MaxAttempts THEN "dead" ELSE "pending",
          attempts |-> r.attempts + 1, waiting |-> TRUE, leased |-> FALSE]
    ELSE [r EXCEPT !.status = "done"]

Finish(p, t) ==
    LET w == worker[p][t]
    IN  /\ up[p] /\ w.on /\ w.todo = {}
        /\ worker' = [worker EXCEPT ![p][t] = Idle]
        /\ \/ /\ row' = IF w.job.stored
                        THEN [row EXCEPT ![w.job.event] = Finished(@, w.err)]
                        ELSE row
              /\ UNCHANGED faults
           \/ /\ w.job.stored          \* the UPDATE fails and is only logged
              /\ faults < MaxFaults
              /\ faults' = faults + 1
              /\ UNCHANGED row
        /\ UNCHANGED <<handlers, up, selected, queued, emitted, served, blind>>

-----------------------------------------------------------------------------
\* resend_pending().  The claim is one UPDATE over a sub-select that locks
\* nothing: two scans may select the same ids, and the second UPDATE, having
\* waited for the first, still matches them.

Due(e) == row[e].status = "pending" /\ ~row[e].waiting /\ ~row[e].leased

Select(p) ==
    /\ up[p] /\ selected[p] = {}
    /\ \E e \in Events : Due(e)
    /\ selected' = [selected EXCEPT ![p] = {e \in Events : Due(e)}]
    /\ UNCHANGED <<row, handlers, up, queued, worker, emitted, faults, served, blind>>

\* fault: the claim marks the rows done instead of leasing them.
ClaimCloses(p) ==
    /\ up[p] /\ selected[p] # {}
    /\ \A e \in selected[p] : queued[p][[event |-> e, stored |-> TRUE]] < QueueBound
    /\ row' = [e \in Events |-> IF e \in selected[p]
                                THEN [row[e] EXCEPT !.status = "done"] ELSE row[e]]
    /\ queued' = [queued EXCEPT ![p] =
                    [d \in Dispatches |-> IF d.stored /\ d.event \in selected[p]
                                          THEN queued[p][d] + 1 ELSE queued[p][d]]]
    /\ selected' = [selected EXCEPT ![p] = {}]
    /\ UNCHANGED <<handlers, up, worker, emitted, faults, served, blind>>
Claim(p) ==
    /\ up[p] /\ selected[p] # {}
    /\ \A e \in selected[p] : queued[p][[event |-> e, stored |-> TRUE]] < QueueBound
    /\ row' = [e \in Events |-> IF e \in selected[p]
                                THEN [row[e] EXCEPT !.leased = TRUE] ELSE row[e]]
    /\ queued' = [queued EXCEPT ![p] =
                    [d \in Dispatches |-> IF d.stored /\ d.event \in selected[p]
                                          THEN queued[p][d] + 1 ELSE queued[p][d]]]
    /\ selected' = [selected EXCEPT ![p] = {}]
    /\ UNCHANGED <<handlers, up, worker, emitted, faults, served, blind>>

-----------------------------------------------------------------------------
\* Time and the life of a process.

LeaseExpires(e) ==
    /\ row[e].leased
    /\ row' = [row EXCEPT ![e].leased = FALSE]
    /\ UNCHANGED <<handlers, up, selected, queued, worker, emitted, faults, served, blind>>

RetryFallsDue(e) ==
    /\ row[e].waiting
    /\ row' = [row EXCEPT ![e].waiting = FALSE]
    /\ UNCHANGED <<handlers, up, selected, queued, worker, emitted, faults, served, blind>>

\* A death loses the pool, its queue and the subscriptions, not the rows.
Die(p) ==
    /\ up[p] /\ faults < MaxFaults
    /\ faults' = faults + 1
    /\ up' = [up EXCEPT ![p] = FALSE]
    /\ handlers' = [handlers EXCEPT ![p] = {}]
    /\ selected' = [selected EXCEPT ![p] = {}]
    /\ queued' = [queued EXCEPT ![p] = NoJobs]
    /\ worker' = [worker EXCEPT ![p] = [t \in Threads |-> Idle]]
    /\ UNCHANGED <<row, emitted, served, blind>>

Restart(p) ==
    /\ ~up[p]
    /\ up' = [up EXCEPT ![p] = TRUE]
    /\ UNCHANGED <<row, handlers, selected, queued, worker, emitted, faults, served, blind>>

-----------------------------------------------------------------------------
PoolStep(p, t) ==
    \/ \E d \in Dispatches : Begin(p, t, d)
    \/ \E h \in Handlers : RunHandler(p, t, h)
    \/ Finish(p, t)

Next ==
    \/ \E p \in Procs :
        \/ \E h \in Handlers : Subscribe(p, h)
        \/ \E e \in Events : Emit(p, e)
        \/ \E t \in Threads : PoolStep(p, t)
        \/ Select(p) \/ Claim(p)
        \/ Die(p) \/ Restart(p)
    \/ \E e \in Events : LeaseExpires(e) \/ RetryFallsDue(e)

Spec == Init /\ [][Next]_vars

\* The scans are timer loops, the pool threads run what was submitted,
\* clocks advance, and the supervisor restarts a process that died.
Fairness ==
    /\ \A p \in Procs :
        /\ WF_vars(Select(p)) /\ WF_vars(Claim(p)) /\ WF_vars(Restart(p))
        /\ \A t \in Threads : WF_vars(PoolStep(p, t))
    /\ \A e \in Events : WF_vars(LeaseExpires(e)) /\ WF_vars(RetryFallsDue(e))

FairSpec == Spec /\ Fairness
-----------------------------------------------------------------------------
\* A row is 'done' only after every handler has accepted the event, unless
\* some dispatch of it ran in a process where a handler was not subscribed.
DoneWasServed ==
    \A e \in Events :
        row[e].status = "done" => served[e] = Handlers \/ e \in blind

\* The refinement mapping: what a row stands for in the promise.
Standing(status) ==
    CASE status = "none" -> "unsent"
      [] status = "pending" -> "open"
      [] status = "done" -> "closed"
      [] OTHER -> "given up"
Standings == [e \in Events |-> Standing(row[e].status)]
Rounds == [e \in Events |-> row[e].attempts]

Promise == INSTANCE AtLeastOnce WITH
    Limit <- MaxAttempts, state <- Standings, rounds <- Rounds,
    took <- served, unsure <- blind

\* The outbox implements the promise: whatever the claims, duplicates, lost
\* write-backs and deaths, each step is a step of AtLeastOnce, and every
\* pending row becomes done or dead (the resend scan and its leases).
ImplementsAtLeastOnce == Promise!Spec
=============================================================================
