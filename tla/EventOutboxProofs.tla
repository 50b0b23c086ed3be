------------------------- MODULE EventOutboxProofs -------------------------
(***************************************************************************)
(* Theorems about EventOutbox for every number of processes, threads,      *)
(* events, handlers and attempts.  DoneWasServed needs what a running      *)
(* dispatch has achieved so far (DispatchServed): while it has seen no     *)
(* failure, each handler that is not in its to-do list has accepted the    *)
(* event, or it began short.                                               *)
(* The step simulation shows that every step of the outbox is a step of    *)
(* AtLeastOnce or leaves its variables alone.                              *)
(***************************************************************************)
EXTENDS EventOutbox, TLAPS

\* A running dispatch without a failure: its event is served by every
\* handler it has already run (the loop of _dispatch_async).
DispatchServed ==
    \A p \in Procs, t \in Threads :
        worker[p][t].on /\ ~worker[p][t].err =>
            \A h \in Handlers \ worker[p][t].todo :
                \/ h \in served[worker[p][t].job.event]
                \/ worker[p][t].job.event \in blind

\* A dispatch that is to write back, waiting, selected or running, has a row.
RowsExist ==
    /\ \A e \in Events : row[e].status # "none" => e \in emitted
    /\ \A p \in Procs : \A e \in selected[p] : row[e].status # "none"
    /\ \A p \in Procs, d \in Dispatches :
            d.stored /\ queued[p][d] > 0 => row[d.event].status # "none"
    /\ \A p \in Procs, t \in Threads :
            worker[p][t].on => \/ ~worker[p][t].job.stored
                               \/ row[worker[p][t].job.event].status # "none"

\* An event without a row has no attempts (the DEFAULT 0 of the column).
FreshRows == \A e \in Events : row[e].status = "none" => row[e].attempts = 0

IInv ==
    TypeOK /\ DispatchServed /\ DoneWasServed /\ RowsExist /\ FreshRows

-----------------------------------------------------------------------------
LEMMA InitType == ASSUME OutboxAssumption PROVE Init => TypeOK
  BY DEF Init, TypeOK, Rows, NoRow, NoJobs, OutboxAssumption

LEMMA FinishedType ==
  ASSUME OutboxAssumption, TypeOK, NEW e \in Events, NEW err \in BOOLEAN
  PROVE  Finished(row[e], err) \in Rows
  BY DEF Finished, TypeOK, Rows, OutboxAssumption

\* Type correctness is preserved, one step per action.
LEMMA NextType ==
  ASSUME OutboxAssumption, TypeOK, [Next]_vars
  PROVE  TypeOK'
<1>1. ASSUME NEW p \in Procs, NEW h \in Handlers, Subscribe(p, h) PROVE TypeOK'
  BY <1>1 DEF Subscribe, TypeOK
<1>2. ASSUME NEW p \in Procs, NEW e \in Events, Emit(p, e) PROVE TypeOK'
  <2>1. [event |-> e, stored |-> TRUE] \in Dispatches /\ [event |-> e, stored |-> FALSE] \in Dispatches
    BY DEF Dispatches
  <2>2. \A d \in Dispatches : Submit(p, d) => queued' \in [Procs -> [Dispatches -> Nat]]
    BY DEF Submit, TypeOK
  <2>3. NewRow \in Rows
    BY DEF NewRow, NoRow, Rows
  <2>4. queued' \in [Procs -> [Dispatches -> Nat]] /\ row' \in [Events -> Rows]
    BY <1>2, <2>1, <2>2, <2>3 DEF Emit, TypeOK
  <2> QED BY <1>2, <2>4 DEF Emit, TypeOK
<1>3. ASSUME NEW p \in Procs, NEW t \in Threads, NEW d \in Dispatches, Begin(p, t, d) PROVE TypeOK'
  <2>1. [on |-> TRUE, job |-> d, todo |-> handlers[p], err |-> FALSE] \in Running
    BY <1>3 DEF TypeOK, Running
  <2>2. worker' \in [Procs -> [Threads -> {Idle} \union Running]]
    BY <1>3, <2>1 DEF Begin, TypeOK
  <2>3. queued' \in [Procs -> [Dispatches -> Nat]]
    BY <1>3 DEF Begin, TypeOK
  <2>4. blind' \subseteq Events
    BY <1>3 DEF Begin, TypeOK, Dispatches
  <2> QED BY <1>3, <2>2, <2>3, <2>4 DEF Begin, TypeOK
<1>4. ASSUME NEW p \in Procs, NEW t \in Threads, NEW h \in Handlers, RunHandler(p, t, h) PROVE TypeOK'
  <2>1. worker[p][t] \in Running
    BY <1>4 DEF RunHandler, TypeOK, Idle
  <2>2. /\ [worker[p][t] EXCEPT !.todo = @ \ {h}] \in Running
        /\ [worker[p][t] EXCEPT !.todo = @ \ {h}, !.err = TRUE] \in Running
        /\ worker[p][t].job.event \in Events
    BY <2>1 DEF Running, Dispatches
  <2>3. worker' \in [Procs -> [Threads -> {Idle} \union Running]]
    <3>1. \A w \in Running :
            [worker EXCEPT ![p][t] = w] \in [Procs -> [Threads -> {Idle} \union Running]]
      BY DEF TypeOK
    <3>2. CASE worker' = [worker EXCEPT ![p][t].todo = @ \ {h}]
      <4>1. worker' = [worker EXCEPT ![p][t] = [worker[p][t] EXCEPT !.todo = @ \ {h}]]
        BY <3>2 DEF TypeOK
      <4> QED BY <4>1, <3>1, <2>2
    <3>3. CASE worker' = [worker EXCEPT ![p][t] = [worker[p][t] EXCEPT !.todo = @ \ {h}, !.err = TRUE]]
      <4>1. worker' = [worker EXCEPT ![p][t] =
                          [worker[p][t] EXCEPT !.todo = @ \ {h}, !.err = TRUE]]
        BY <3>3 DEF TypeOK
      <4> QED BY <4>1, <3>1, <2>2
    <3> QED BY <1>4, <3>2, <3>3 DEF RunHandler
  <2>4. served' \in [Events -> SUBSET Handlers]
    <3>1. \A e \in Events :
            [served EXCEPT ![e] = @ \union {h}] \in [Events -> SUBSET Handlers]
      BY DEF TypeOK
    <3>2. \/ served' = served
          \/ served' = [served EXCEPT ![worker[p][t].job.event] = @ \union {h}]
      BY <1>4 DEF RunHandler
    <3> QED BY <2>2, <3>1, <3>2 DEF TypeOK
  <2> QED BY <1>4, <2>3, <2>4 DEF RunHandler, TypeOK
<1>5. ASSUME NEW p \in Procs, NEW t \in Threads, Finish(p, t) PROVE TypeOK'
  <2>1. worker[p][t] \in Running
    BY <1>5 DEF Finish, TypeOK, Idle
  <2>2. worker[p][t].job.event \in Events /\ worker[p][t].err \in BOOLEAN
    BY <2>1 DEF Running, Dispatches
  <2>3. row' \in [Events -> Rows]
    <3>1. \A e \in Events, err \in BOOLEAN :
            [row EXCEPT ![e] = Finished(row[e], err)] \in [Events -> Rows]
      BY FinishedType DEF TypeOK
    <3>2. \/ row' = row
          \/ row' = [row EXCEPT ![worker[p][t].job.event] =
                        Finished(row[worker[p][t].job.event], worker[p][t].err)]
      BY <1>5 DEF Finish
    <3> QED BY <2>2, <3>1, <3>2 DEF TypeOK
  <2>4. worker' \in [Procs -> [Threads -> {Idle} \union Running]]
    BY <1>5 DEF Finish, TypeOK
  <2> QED BY <1>5, <2>3, <2>4 DEF Finish, TypeOK
<1>6. ASSUME NEW p \in Procs, Select(p) PROVE TypeOK'
  BY <1>6 DEF Select, TypeOK
<1>7. ASSUME NEW p \in Procs, Claim(p) PROVE TypeOK'
  <2>1. queued' \in [Procs -> [Dispatches -> Nat]]
    BY <1>7 DEF Claim, TypeOK
  <2>2. row' \in [Events -> Rows]
    BY <1>7 DEF Claim, TypeOK, Rows
  <2> QED BY <1>7, <2>1, <2>2 DEF Claim, TypeOK
<1>8. ASSUME NEW e \in Events, LeaseExpires(e) \/ RetryFallsDue(e) PROVE TypeOK'
  <2>1. /\ [row[e] EXCEPT !.leased = FALSE] \in Rows
        /\ [row[e] EXCEPT !.waiting = FALSE] \in Rows
    BY DEF TypeOK, Rows
  <2>2. row' = [row EXCEPT ![e] = [row[e] EXCEPT !.leased = FALSE]]
        \/ row' = [row EXCEPT ![e] = [row[e] EXCEPT !.waiting = FALSE]]
    BY <1>8 DEF LeaseExpires, RetryFallsDue, TypeOK
  <2>3. row' \in [Events -> Rows]
    BY <2>1, <2>2 DEF TypeOK
  <2>4. UNCHANGED <<handlers, up, selected, queued, worker, emitted, faults, served, blind>>
    BY <1>8 DEF LeaseExpires, RetryFallsDue
  <2> QED BY <2>3, <2>4 DEF TypeOK
<1>9. ASSUME NEW p \in Procs, Die(p) PROVE TypeOK'
  <2>1. queued' \in [Procs -> [Dispatches -> Nat]]
    BY <1>9 DEF Die, TypeOK, NoJobs
  <2>2. worker' \in [Procs -> [Threads -> {Idle} \union Running]]
    BY <1>9 DEF Die, TypeOK
  <2> QED BY <1>9, <2>1, <2>2 DEF Die, TypeOK
<1>10. ASSUME NEW p \in Procs, Restart(p) PROVE TypeOK'
  BY <1>10 DEF Restart, TypeOK
<1>11. CASE UNCHANGED vars
  BY <1>11 DEF vars, TypeOK
<1> QED BY <1>1, <1>2, <1>3, <1>4, <1>5, <1>6, <1>7, <1>8, <1>9, <1>10, <1>11 DEF Next, PoolStep

\* The state of the outbox is well typed in every reachable state.
THEOREM TypeCorrect == ASSUME OutboxAssumption PROVE Spec => []TypeOK
  BY InitType, NextType, PTL DEF Spec

-----------------------------------------------------------------------------
\* The actions of a step, and what those that are not about a row leave alone.
LEMMA NextCases ==
  ASSUME [Next]_vars
  PROVE  \/ \E p \in Procs, h \in Handlers : Subscribe(p, h)
         \/ \E p \in Procs, e \in Events : Emit(p, e)
         \/ \E p \in Procs, t \in Threads, d \in Dispatches : Begin(p, t, d)
         \/ \E p \in Procs, t \in Threads, h \in Handlers : RunHandler(p, t, h)
         \/ \E p \in Procs, t \in Threads : Finish(p, t)
         \/ \E p \in Procs : Select(p)
         \/ \E p \in Procs : Claim(p)
         \/ \E p \in Procs : Die(p)
         \/ \E p \in Procs : Restart(p)
         \/ \E e \in Events : LeaseExpires(e) \/ RetryFallsDue(e)
         \/ UNCHANGED vars
  BY Zenon DEF Next, PoolStep

LEMMA Frames ==
  /\ \A p \in Procs, h \in Handlers : Subscribe(p, h) => UNCHANGED <<row, selected>>
  /\ \A p \in Procs, e \in Events : Emit(p, e) => UNCHANGED selected
  /\ \A p \in Procs, t \in Threads, d \in Dispatches :
        Begin(p, t, d) => UNCHANGED <<row, selected>>
  /\ \A p \in Procs, t \in Threads, h \in Handlers :
        RunHandler(p, t, h) => UNCHANGED <<row, selected>>
  /\ \A p \in Procs, t \in Threads : Finish(p, t) => UNCHANGED selected
  /\ \A p \in Procs : Select(p) => UNCHANGED row
  /\ \A p \in Procs : Die(p) => UNCHANGED row
  /\ \A p \in Procs : Restart(p) => UNCHANGED <<row, selected>>
  /\ \A e \in Events : LeaseExpires(e) \/ RetryFallsDue(e) => UNCHANGED selected
  /\ UNCHANGED vars => UNCHANGED <<row, selected>>
<1>1. \A p \in Procs, h \in Handlers : Subscribe(p, h) => UNCHANGED <<row, selected>>
  BY DEF Subscribe
<1>2. \A p \in Procs, e \in Events : Emit(p, e) => UNCHANGED selected
  BY DEF Emit
<1>3. \A p \in Procs, t \in Threads, d \in Dispatches :
        Begin(p, t, d) => UNCHANGED <<row, selected>>
  BY DEF Begin
<1>4. \A p \in Procs, t \in Threads, h \in Handlers :
        RunHandler(p, t, h) => UNCHANGED <<row, selected>>
  BY DEF RunHandler
<1>5. \A p \in Procs, t \in Threads : Finish(p, t) => UNCHANGED selected
  BY DEF Finish
<1>6. \A p \in Procs : Select(p) => UNCHANGED row
  BY DEF Select
<1>7. \A p \in Procs : Die(p) => UNCHANGED row
  BY DEF Die
<1>8. \A p \in Procs : Restart(p) => UNCHANGED <<row, selected>>
  BY DEF Restart
<1>9. \A e \in Events : LeaseExpires(e) \/ RetryFallsDue(e) => UNCHANGED selected
  BY DEF LeaseExpires, RetryFallsDue
<1>10. UNCHANGED vars => UNCHANGED <<row, selected>>
  BY DEF vars
<1> QED BY <1>1, <1>2, <1>3, <1>4, <1>5, <1>6, <1>7, <1>8, <1>9, <1>10

\* What a running dispatch has done so far is never taken back.
LEMMA ServedStep ==
  ASSUME OutboxAssumption, TypeOK, DispatchServed, [Next]_vars
  PROVE  DispatchServed'
<1>1. ASSUME NEW p \in Procs, NEW t \in Threads, NEW d \in Dispatches, Begin(p, t, d)
      PROVE  DispatchServed'
  <2>1. blind \subseteq blind' /\ served' = served
    BY <1>1 DEF Begin
  <2> SUFFICES ASSUME NEW q \in Procs, NEW u \in Threads,
                      worker'[q][u].on, ~worker'[q][u].err,
                      NEW h \in Handlers \ worker'[q][u].todo
               PROVE  \/ h \in served'[worker'[q][u].job.event]
                      \/ worker'[q][u].job.event \in blind'
    BY DEF DispatchServed
  <2>2. CASE q = p /\ u = t
    <3>1. worker'[q][u] = [on |-> TRUE, job |-> d, todo |-> handlers[p], err |-> FALSE]
      BY <1>1, <2>2 DEF Begin, TypeOK
    <3>2. handlers[p] # Handlers
      BY <3>1
    <3> QED BY <1>1, <3>1, <3>2 DEF Begin
  <2>3. CASE ~(q = p /\ u = t)
    <3>1. worker'[q][u] = worker[q][u]
      BY <1>1, <2>3 DEF Begin, TypeOK
    <3> QED BY <2>1, <3>1 DEF DispatchServed
  <2> QED BY <2>2, <2>3
<1>2. ASSUME NEW p \in Procs, NEW t \in Threads, NEW h \in Handlers, RunHandler(p, t, h)
      PROVE  DispatchServed'
  <2>1. worker[p][t] \in Running
    BY <1>2 DEF RunHandler, TypeOK, Idle
  <2>2. worker[p][t].job.event \in Events
    BY <2>1 DEF Running, Dispatches
  <2>3. blind' = blind /\ \A e \in Events : served[e] \subseteq served'[e]
    BY <1>2, <2>2 DEF RunHandler, TypeOK
  <2> SUFFICES ASSUME NEW q \in Procs, NEW u \in Threads,
                      worker'[q][u].on, ~worker'[q][u].err,
                      NEW g \in Handlers \ worker'[q][u].todo
               PROVE  \/ g \in served'[worker'[q][u].job.event]
                      \/ worker'[q][u].job.event \in blind'
    BY DEF DispatchServed
  <2>4. CASE q = p /\ u = t
    <3>1. CASE /\ worker' = [worker EXCEPT ![p][t].todo = @ \ {h}]
               /\ served' = [served EXCEPT ![worker[p][t].job.event] = @ \union {h}]
      <4>1. worker'[q][u] = [worker[p][t] EXCEPT !.todo = @ \ {h}]
        BY <2>4, <3>1 DEF TypeOK
      <4>2. /\ worker'[q][u].job = worker[p][t].job
            /\ worker'[q][u].todo = worker[p][t].todo \ {h}
            /\ worker[p][t].on /\ ~worker[p][t].err
        BY <4>1, <2>1 DEF Running
      <4>3. CASE g = h
        BY <3>1, <4>2, <4>3, <2>2 DEF TypeOK
      <4>4. CASE g # h
        <5>1. g \in Handlers \ worker[p][t].todo
          BY <4>2, <4>4
        <5> QED BY <5>1, <4>2, <2>2, <2>3 DEF DispatchServed
      <4> QED BY <4>3, <4>4
    <3>2. CASE worker' = [worker EXCEPT ![p][t] = [worker[p][t] EXCEPT !.todo = @ \ {h}, !.err = TRUE]]
      <4>1. worker'[q][u] = [worker[p][t] EXCEPT !.todo = @ \ {h}, !.err = TRUE]
        BY <2>4, <3>2 DEF TypeOK
      <4>2. worker'[q][u].err
        BY <4>1, <2>1 DEF Running
      <4> QED BY <4>2
    <3> QED BY <1>2, <3>1, <3>2 DEF RunHandler
  <2>5. CASE ~(q = p /\ u = t)
    <3>1. worker'[q][u] = worker[q][u]
      BY <1>2, <2>5 DEF RunHandler, TypeOK
    <3>2. worker[q][u] \in Running
      BY <3>1 DEF TypeOK, Idle
    <3>3. worker[q][u].job.event \in Events
      BY <3>2 DEF Running, Dispatches
    <3> QED BY <2>3, <3>1, <3>3 DEF DispatchServed
  <2> QED BY <2>4, <2>5
<1>3. ASSUME NEW p \in Procs,
             Die(p) \/ \E t \in Threads : Finish(p, t)
      PROVE  DispatchServed'
  <2>1. served' = served /\ blind' = blind
    BY <1>3 DEF Die, Finish
  <2>2. \A q \in Procs, u \in Threads :
            worker'[q][u] = worker[q][u] \/ worker'[q][u] = Idle
    BY <1>3 DEF Die, Finish, TypeOK
  <2> QED BY <2>1, <2>2 DEF DispatchServed, Idle
<1>4. CASE UNCHANGED <<worker, served, blind>>
  BY <1>4 DEF DispatchServed
<1>5. \/ \E p \in Procs, t \in Threads, d \in Dispatches : Begin(p, t, d)
      \/ \E p \in Procs, t \in Threads, h \in Handlers : RunHandler(p, t, h)
      \/ \E p \in Procs : Die(p) \/ \E t \in Threads : Finish(p, t)
      \/ UNCHANGED <<worker, served, blind>>
  BY DEF Next, PoolStep, Subscribe, Emit, Select, Claim, LeaseExpires,
         RetryFallsDue, Restart, vars
<1> QED BY <1>1, <1>2, <1>3, <1>4, <1>5

\* Only a finish without a failure writes 'done', and its to-do list is empty.
LEMMA DoneStep ==
  ASSUME OutboxAssumption, TypeOK, DispatchServed, DoneWasServed, [Next]_vars
  PROVE  DoneWasServed'
<1>1. ASSUME NEW p \in Procs, NEW t \in Threads, Finish(p, t) PROVE DoneWasServed'
  <2>1. worker[p][t] \in Running
    BY <1>1 DEF Finish, TypeOK, Idle
  <2>2. worker[p][t].job.event \in Events /\ worker[p][t].err \in BOOLEAN
    BY <2>1 DEF Running, Dispatches
  <2>3. served' = served /\ blind' = blind
    BY <1>1 DEF Finish
  <2>4. CASE row' = row
    BY <2>3, <2>4 DEF DoneWasServed
  <2>5. CASE row' = [row EXCEPT ![worker[p][t].job.event] =
                        Finished(row[worker[p][t].job.event], worker[p][t].err)]
    <3>1. CASE worker[p][t].err
      <4>1. Finished(row[worker[p][t].job.event], worker[p][t].err).status # "done"
        BY <3>1 DEF Finished
      <4> QED BY <2>2, <2>3, <2>5, <4>1 DEF DoneWasServed, TypeOK
    <3>2. CASE ~worker[p][t].err
      <4>1. \A h \in Handlers : h \in served[worker[p][t].job.event]
                                \/ worker[p][t].job.event \in blind
        BY <1>1, <3>2 DEF Finish, DispatchServed
      <4>2. served[worker[p][t].job.event] = Handlers \/ worker[p][t].job.event \in blind
        BY <4>1, <2>2 DEF TypeOK
      <4> QED BY <2>2, <2>3, <2>5, <4>2 DEF DoneWasServed, TypeOK
    <3> QED BY <3>1, <3>2
  <2> QED BY <1>1, <2>4, <2>5 DEF Finish
<1>2. ASSUME NEW p \in Procs, NEW e \in Events, Emit(p, e) PROVE DoneWasServed'
  BY <1>2 DEF Emit, DoneWasServed, NewRow, NoRow, TypeOK
<1>3. ASSUME NEW p \in Procs, Claim(p) PROVE DoneWasServed'
  BY <1>3 DEF Claim, DoneWasServed, TypeOK, Rows
<1>4. ASSUME NEW e \in Events, LeaseExpires(e) \/ RetryFallsDue(e) PROVE DoneWasServed'
  <2>1. \A f \in Events : \/ row'[f] = row[f]
                           \/ row'[f] = [row[f] EXCEPT !.leased = FALSE]
                           \/ row'[f] = [row[f] EXCEPT !.waiting = FALSE]
    BY <1>4 DEF LeaseExpires, RetryFallsDue, TypeOK
  <2>2. \A f \in Events : row[f] \in Rows
    BY DEF TypeOK
  <2>3. served' = served /\ blind' = blind
    BY <1>4 DEF LeaseExpires, RetryFallsDue
  <2> QED BY <2>1, <2>2, <2>3 DEF DoneWasServed, Rows
<1>5. ASSUME NEW p \in Procs, NEW t \in Threads,
             \/ \E h \in Handlers : RunHandler(p, t, h)
             \/ \E d \in Dispatches : Begin(p, t, d)
      PROVE  DoneWasServed'
  <2>1. row' = row /\ blind \subseteq blind'
    BY <1>5 DEF RunHandler, Begin
  <2>2. \A e \in Events : served[e] \subseteq served'[e] /\ served'[e] \subseteq Handlers
    <3>1. TypeOK'
      BY NextType
    <3>2. CASE served' = served
      BY <3>1, <3>2 DEF TypeOK
    <3>3. CASE \E h \in Handlers :
                 served' = [served EXCEPT ![worker[p][t].job.event] = @ \union {h}]
      BY <3>1, <3>3 DEF TypeOK
    <3> QED BY <1>5, <3>2, <3>3 DEF RunHandler, Begin
  <2> QED BY <2>1, <2>2 DEF DoneWasServed
<1>6. CASE UNCHANGED <<row, served, blind>>
  BY <1>6 DEF DoneWasServed
<1>7. \/ \E p \in Procs, t \in Threads : Finish(p, t)
      \/ \E p \in Procs, e \in Events : Emit(p, e)
      \/ \E p \in Procs : Claim(p)
      \/ \E e \in Events : LeaseExpires(e) \/ RetryFallsDue(e)
      \/ \E p \in Procs, t \in Threads : \/ \E h \in Handlers : RunHandler(p, t, h)
                                         \/ \E d \in Dispatches : Begin(p, t, d)
      \/ UNCHANGED <<row, served, blind>>
  BY DEF Next, PoolStep, Subscribe, Select, Die, Restart, vars
<1> QED BY <1>1, <1>2, <1>3, <1>4, <1>5, <1>6, <1>7

\* No action takes a row away.
LEMMA RowsStay ==
  ASSUME OutboxAssumption, TypeOK, [Next]_vars, NEW e \in Events, row[e].status # "none"
  PROVE  row'[e].status # "none"
<1>1. row[e] \in Rows
  BY DEF TypeOK
<1>2. ASSUME NEW p \in Procs, NEW t \in Threads, Finish(p, t) PROVE row'[e].status # "none"
  <2>1. \/ row' = row
        \/ row' = [row EXCEPT ![worker[p][t].job.event] =
                      Finished(row[worker[p][t].job.event], worker[p][t].err)]
    BY <1>2 DEF Finish
  <2>2. row'[e] = row[e] \/ row'[e] = Finished(row[e], worker[p][t].err)
    BY <2>1 DEF TypeOK
  <2> QED BY <1>1, <2>2 DEF Finished, Rows
<1>3. ASSUME NEW p \in Procs, NEW f \in Events, Emit(p, f) PROVE row'[e].status # "none"
  BY <1>3 DEF Emit, NewRow, NoRow, TypeOK
<1>4. ASSUME NEW p \in Procs, Claim(p) PROVE row'[e].status # "none"
  BY <1>1, <1>4 DEF Claim, Rows
<1>5. ASSUME NEW f \in Events, LeaseExpires(f) \/ RetryFallsDue(f) PROVE row'[e].status # "none"
  BY <1>1, <1>5 DEF LeaseExpires, RetryFallsDue, TypeOK, Rows
<1>6. CASE UNCHANGED row
  BY <1>6
<1> QED
  BY <1>2, <1>3, <1>4, <1>5, <1>6
     DEF Next, PoolStep, Subscribe, Begin, RunHandler, Select, Die, Restart, vars

LEMMA RowsExistStep ==
  ASSUME OutboxAssumption, TypeOK, RowsExist, [Next]_vars
  PROVE  RowsExist'
<1>1. \A e \in Events : row[e].status # "none" => row'[e].status # "none"
  BY RowsStay
<1>2. \A e \in Events : row'[e].status # "none" => e \in emitted'
  <2>1. ASSUME NEW q \in Procs, NEW f \in Events, Emit(q, f), NEW e \in Events,
               row'[e].status # "none"
        PROVE  e \in emitted'
    BY <2>1 DEF Emit, RowsExist, TypeOK
  <2>2. ASSUME NEW q \in Procs, NEW t \in Threads, Finish(q, t), NEW e \in Events,
               row'[e].status # "none"
        PROVE  e \in emitted'
    <3>1. emitted' = emitted /\ worker[q][t].on
      BY <2>2 DEF Finish
    <3>2. \/ row' = row
          \/ /\ worker[q][t].job.stored
             /\ row' = [row EXCEPT ![worker[q][t].job.event] =
                           Finished(row[worker[q][t].job.event], worker[q][t].err)]
      BY <2>2 DEF Finish
    <3>3. row'[e] = row[e] \/ row[e].status # "none"
      BY <3>1, <3>2 DEF RowsExist, TypeOK
    <3> QED BY <2>2, <3>1, <3>3 DEF RowsExist
  <2>3. ASSUME NEW q \in Procs, Claim(q), NEW e \in Events, row'[e].status # "none"
        PROVE  e \in emitted'
    <3>1. row'[e] = row[e] \/ row'[e] = [row[e] EXCEPT !.leased = TRUE]
      BY <2>3 DEF Claim
    <3>2. row[e] \in Rows
      BY DEF TypeOK
    <3> QED BY <2>3, <3>1, <3>2 DEF Claim, RowsExist, Rows
  <2>4. ASSUME NEW f \in Events, LeaseExpires(f) \/ RetryFallsDue(f), NEW e \in Events,
               row'[e].status # "none"
        PROVE  e \in emitted'
    <3>1. \/ row'[e] = row[e]
          \/ row'[e] = [row[e] EXCEPT !.leased = FALSE]
          \/ row'[e] = [row[e] EXCEPT !.waiting = FALSE]
      BY <2>4 DEF LeaseExpires, RetryFallsDue, TypeOK
    <3>2. row[e] \in Rows
      BY DEF TypeOK
    <3> QED BY <2>4, <3>1, <3>2 DEF LeaseExpires, RetryFallsDue, RowsExist, Rows
  <2>5. CASE UNCHANGED <<row, emitted>>
    BY <2>5 DEF RowsExist
  <2> QED
    BY <2>1, <2>2, <2>3, <2>4, <2>5
       DEF Next, PoolStep, Subscribe, Begin, RunHandler, Select, Die, Restart, vars
<1>3. \A p \in Procs : \A e \in selected'[p] : row'[e].status # "none"
  <2>1. \A p \in Procs : \A e \in selected'[p] : row[e].status # "none"
    <3>1. ASSUME NEW q \in Procs, Select(q) \/ Claim(q) \/ Die(q),
                 NEW p \in Procs, NEW e \in selected'[p]
          PROVE  row[e].status # "none"
      <4>1. \A f \in Events : Due(f) => row[f].status # "none"
        BY DEF Due
      <4>2. \/ selected'[p] = selected[p]
            \/ selected'[p] = {}
            \/ selected'[p] = {f \in Events : Due(f)}
        BY <3>1 DEF Select, Claim, Die, TypeOK
      <4>3. e \in selected[p] => row[e].status # "none"
        BY DEF RowsExist
      <4> QED BY <3>1, <4>1, <4>2, <4>3
    <3>2. CASE UNCHANGED selected
      BY <3>2 DEF RowsExist
    <3>3. \/ \E q \in Procs : Select(q) \/ Claim(q) \/ Die(q)
          \/ UNCHANGED selected
      BY NextCases, Frames
    <3> QED BY <3>1, <3>2, <3>3
  <2> QED BY <1>1, <2>1, NextType DEF TypeOK
<1>4. \A p \in Procs, d \in Dispatches :
          d.stored /\ queued'[p][d] > 0 => row'[d.event].status # "none"
  <2>1. \A d \in Dispatches : d.event \in Events
    BY DEF Dispatches
  <2>2. ASSUME NEW q \in Procs, NEW e \in Events, Emit(q, e),
               NEW p \in Procs, NEW d \in Dispatches, d.stored, queued'[p][d] > 0
        PROVE  row'[d.event].status # "none"
    <3>1. CASE queued'[p][d] = queued[p][d]
      BY <1>1, <2>1, <2>2, <3>1 DEF RowsExist
    <3>2. CASE queued'[p][d] # queued[p][d]
      <4>1. \A c \in Dispatches : Submit(q, c) => d = c
        BY <3>2 DEF Submit, TypeOK
      <4>2. [event |-> e, stored |-> TRUE] \in Dispatches /\ [event |-> e, stored |-> FALSE] \in Dispatches
        BY DEF Dispatches
      <4>3. d = [event |-> e, stored |-> TRUE] /\ row' = [row EXCEPT ![e] = NewRow]
        BY <2>2, <3>2, <4>1, <4>2 DEF Emit
      <4> QED BY <4>3 DEF NewRow, NoRow, TypeOK
    <3> QED BY <3>1, <3>2
  <2>3. ASSUME NEW q \in Procs, Claim(q),
               NEW p \in Procs, NEW d \in Dispatches, d.stored, queued'[p][d] > 0
        PROVE  row'[d.event].status # "none"
    BY <1>1, <2>1, <2>3 DEF Claim, RowsExist, TypeOK
  <2>4. ASSUME NEW q \in Procs, NEW t \in Threads, NEW c \in Dispatches, Begin(q, t, c),
               NEW p \in Procs, NEW d \in Dispatches, d.stored, queued'[p][d] > 0
        PROVE  row'[d.event].status # "none"
    BY <1>1, <2>1, <2>4 DEF Begin, RowsExist, TypeOK
  <2>5. ASSUME NEW q \in Procs, Die(q),
               NEW p \in Procs, NEW d \in Dispatches, d.stored, queued'[p][d] > 0
        PROVE  row'[d.event].status # "none"
    BY <1>1, <2>1, <2>5 DEF Die, RowsExist, TypeOK, NoJobs
  <2>6. CASE UNCHANGED queued
    BY <1>1, <2>1, <2>6 DEF RowsExist
  <2> QED
    BY <2>2, <2>3, <2>4, <2>5, <2>6
       DEF Next, PoolStep, Subscribe, RunHandler, Finish, Select, LeaseExpires,
           RetryFallsDue, Restart, vars
<1>5. \A p \in Procs, t \in Threads :
          worker'[p][t].on => \/ ~worker'[p][t].job.stored
                              \/ row'[worker'[p][t].job.event].status # "none"
  <2>1. \A p \in Procs, t \in Threads :
            \/ ~worker'[p][t].on
            \/ worker[p][t] \in Running /\ worker'[p][t].job = worker[p][t].job
            \/ \E d \in Dispatches : queued[p][d] > 0 /\ worker'[p][t].job = d
    <3>1. ASSUME NEW q \in Procs, NEW u \in Threads, NEW d \in Dispatches, Begin(q, u, d),
                 NEW p \in Procs, NEW t \in Threads, worker'[p][t].on
          PROVE  \/ worker[p][t] \in Running /\ worker'[p][t].job = worker[p][t].job
                 \/ queued[p][d] > 0 /\ worker'[p][t].job = d
      BY <3>1 DEF Begin, TypeOK, Idle
    <3>2. ASSUME NEW q \in Procs, NEW u \in Threads, NEW h \in Handlers, RunHandler(q, u, h),
                 NEW p \in Procs, NEW t \in Threads, worker'[p][t].on
          PROVE  worker[p][t] \in Running /\ worker'[p][t].job = worker[p][t].job
      <4>1. worker[q][u] \in Running
        BY <3>2 DEF RunHandler, TypeOK, Idle
      <4>2. CASE p = q /\ t = u
        <5>1. \/ worker'[p][t] = [worker[p][t] EXCEPT !.todo = @ \ {h}]
              \/ worker'[p][t] = [worker[p][t] EXCEPT !.todo = @ \ {h}, !.err = TRUE]
          <6>1. CASE worker' = [worker EXCEPT ![q][u].todo = @ \ {h}]
            BY <4>2, <6>1 DEF TypeOK
          <6>2. CASE worker' = [worker EXCEPT ![q][u] = [worker[q][u] EXCEPT !.todo = @ \ {h}, !.err = TRUE]]
            BY <4>2, <6>2 DEF TypeOK
          <6> QED BY <3>2, <6>1, <6>2 DEF RunHandler
        <5>2. worker'[p][t].job = worker[p][t].job
          BY <4>1, <4>2, <5>1 DEF Running
        <5> QED BY <4>1, <4>2, <5>2
      <4>3. CASE ~(p = q /\ t = u)
        BY <3>2, <4>3 DEF RunHandler, TypeOK, Idle
      <4> QED BY <4>2, <4>3
    <3>3. ASSUME NEW q \in Procs, Die(q) \/ \E u \in Threads : Finish(q, u),
                 NEW p \in Procs, NEW t \in Threads, worker'[p][t].on
          PROVE  worker[p][t] \in Running /\ worker'[p][t].job = worker[p][t].job
      <4>1. \/ worker' = [worker EXCEPT ![q] = [u \in Threads |-> Idle]]
            \/ \E u \in Threads : worker' = [worker EXCEPT ![q][u] = Idle]
        BY <3>3 DEF Die, Finish
      <4>2. worker'[p][t] = worker[p][t] \/ worker'[p][t] = Idle
        <5>1. CASE worker' = [worker EXCEPT ![q] = [u \in Threads |-> Idle]]
          BY <5>1 DEF TypeOK
        <5>2. ASSUME NEW u \in Threads, worker' = [worker EXCEPT ![q][u] = Idle]
              PROVE  worker'[p][t] = worker[p][t] \/ worker'[p][t] = Idle
          BY <5>2 DEF TypeOK
        <5> QED BY <4>1, <5>1, <5>2
      <4> QED BY <3>3, <4>2 DEF Idle, TypeOK
    <3>4. ASSUME UNCHANGED worker, NEW p \in Procs, NEW t \in Threads, worker'[p][t].on
          PROVE  worker[p][t] \in Running /\ worker'[p][t].job = worker[p][t].job
      BY <3>4 DEF TypeOK, Idle
    <3>5. \/ \E q \in Procs, u \in Threads, d \in Dispatches :
                Begin(q, u, d) /\ queued[q][d] > 0 /\ q \in Procs
          \/ \E q \in Procs, u \in Threads, h \in Handlers : RunHandler(q, u, h)
          \/ \E q \in Procs : Die(q) \/ \E u \in Threads : Finish(q, u)
          \/ UNCHANGED worker
      BY DEF Next, PoolStep, Begin, Subscribe, Emit, Select, Claim, LeaseExpires,
             RetryFallsDue, Restart, vars
    <3> QED BY <3>1, <3>2, <3>3, <3>4, <3>5
  <2>2. \A d \in Dispatches : d.event \in Events /\ d.stored \in BOOLEAN
    BY DEF Dispatches
  <2>3. \A p \in Procs, t \in Threads :
            worker[p][t] \in Running => worker[p][t].on /\ worker[p][t].job \in Dispatches
    BY DEF Running
  <2> QED BY <1>1, <2>1, <2>2, <2>3 DEF RowsExist
<1> QED BY <1>2, <1>3, <1>4, <1>5 DEF RowsExist

LEMMA FreshStep ==
  ASSUME OutboxAssumption, TypeOK, FreshRows, [Next]_vars
  PROVE  FreshRows'
<1>1. \A e \in Events : row[e] \in Rows
  BY DEF TypeOK
<1>2. ASSUME NEW p \in Procs, NEW t \in Threads, Finish(p, t) PROVE FreshRows'
  <2>1. \/ row' = row
        \/ row' = [row EXCEPT ![worker[p][t].job.event] =
                      Finished(row[worker[p][t].job.event], worker[p][t].err)]
    BY <1>2 DEF Finish
  <2>2. \A e \in Events : row'[e] = row[e] \/ row'[e] = Finished(row[e], worker[p][t].err)
    BY <2>1 DEF TypeOK
  <2>3. \A e \in Events : Finished(row[e], worker[p][t].err).status # "none"
    BY <1>1 DEF Finished, Rows
  <2> QED BY <2>2, <2>3 DEF FreshRows
<1>3. ASSUME NEW p \in Procs, NEW f \in Events, Emit(p, f) PROVE FreshRows'
  BY <1>3 DEF Emit, NewRow, NoRow, TypeOK, FreshRows
<1>4. ASSUME NEW p \in Procs, Claim(p) PROVE FreshRows'
  BY <1>1, <1>4 DEF Claim, Rows, FreshRows
<1>5. ASSUME NEW f \in Events, LeaseExpires(f) \/ RetryFallsDue(f) PROVE FreshRows'
  <2>1. \A e \in Events : \/ row'[e] = row[e]
                           \/ row'[e] = [row[e] EXCEPT !.leased = FALSE]
                           \/ row'[e] = [row[e] EXCEPT !.waiting = FALSE]
    BY <1>5 DEF LeaseExpires, RetryFallsDue, TypeOK
  <2> QED BY <1>1, <2>1 DEF FreshRows, Rows
<1>6. CASE UNCHANGED row
  BY <1>6 DEF FreshRows
<1> QED BY <1>2, <1>3, <1>4, <1>5, <1>6, NextCases, Frames

THEOREM Inductive == ASSUME OutboxAssumption PROVE Spec => []IInv
<1>1. Init => IInv
  <2>1. Init => DispatchServed /\ DoneWasServed /\ RowsExist /\ FreshRows
    BY DEF Init, DispatchServed, DoneWasServed, RowsExist, FreshRows,
           NoRow, NoJobs, Idle
  <2> QED BY <2>1, InitType DEF IInv
<1>2. IInv /\ [Next]_vars => IInv'
  BY NextType, ServedStep, DoneStep, RowsExistStep, FreshStep DEF IInv
<1> QED BY <1>1, <1>2, PTL DEF Spec

\* No row is marked done that a subscribed handler has not accepted, unless
\* a dispatch of it began in a process that lacked one.
THEOREM DoneCorrect == ASSUME OutboxAssumption PROVE Spec => []DoneWasServed
<1>1. IInv => DoneWasServed
  BY DEF IInv
<1> QED BY <1>1, Inductive, PTL

-----------------------------------------------------------------------------
\* A step that keeps the status and the attempts of every row leaves the
\* promise's view of the rows alone.
LEMMA SameView ==
  ASSUME \A e \in Events : row'[e].status = row[e].status /\ row'[e].attempts = row[e].attempts
  PROVE  Standings' = Standings /\ Rounds' = Rounds
  BY DEF Standings, Rounds

\* A write-back is a closing, or a failed round, of its event.
LEMMA FinishSimulates ==
  ASSUME OutboxAssumption, IInv, NEW p \in Procs, NEW t \in Threads, Finish(p, t)
  PROVE  [Promise!Next]_Promise!vars
<1> DEFINE w == worker[p][t]
           e == w.job.event
<1>1. w \in Running
  BY DEF Finish, IInv, TypeOK, Idle
<1>2. e \in Events /\ w.err \in BOOLEAN /\ row[e] \in Rows /\ row \in [Events -> Rows]
  BY <1>1 DEF Running, Dispatches, IInv, TypeOK
<1>3. served' = served /\ blind' = blind
  BY DEF Finish
<1>4. CASE row' = row
  <2>1. Standings' = Standings /\ Rounds' = Rounds
    BY <1>4, SameView
  <2> QED BY <1>3, <2>1 DEF Promise!vars
<1>5. CASE w.job.stored /\ row' = [row EXCEPT ![e] = Finished(row[e], w.err)]
  <2>1. row[e].status # "none"
    BY <1>5 DEF Finish, IInv, RowsExist
  <2>2. Standings[e] # "unsent" /\ Rounds[e] = row[e].attempts
    BY <1>2, <2>1 DEF Standings, Standing, Rounds
  <2>3. CASE w.err
    <3>1. Rounds' = [Rounds EXCEPT ![e] = @ + 1]
      BY <1>2, <1>5, <2>3 DEF Rounds, Finished
    <3>2. Standings' = [Standings EXCEPT ![e] =
                          IF Rounds[e] + 1 >= MaxAttempts THEN "given up" ELSE "open"]
      BY <1>2, <1>5, <2>2, <2>3 DEF Standings, Standing, Finished
    <3>3. Promise!FailRound(e)
      BY <1>3, <2>2, <3>1, <3>2 DEF Promise!FailRound
    <3> QED BY <1>2, <3>3 DEF Promise!Next
  <2>4. CASE ~w.err
    <3>1. Rounds' = Rounds
      BY <1>2, <1>5, <2>4 DEF Rounds, Finished, Rows
    <3>2. Standings' = [Standings EXCEPT ![e] = "closed"]
      BY <1>2, <1>5, <2>4 DEF Standings, Standing, Finished, Rows
    <3>3. \A h \in Handlers : h \in served[e] \/ e \in blind
      BY <2>4 DEF Finish, IInv, DispatchServed
    <3>4. served[e] = Handlers \/ e \in blind
      BY <1>2, <3>3 DEF IInv, TypeOK
    <3>5. Promise!Close(e)
      BY <1>3, <2>2, <3>1, <3>2, <3>4 DEF Promise!Close
    <3> QED BY <1>2, <3>5 DEF Promise!Next
  <2> QED BY <2>3, <2>4
<1> QED BY <1>4, <1>5 DEF Finish

\* Every step of the outbox is a step of the promise or leaves it alone.
LEMMA StepSimulates ==
  ASSUME OutboxAssumption, IInv, [Next]_vars
  PROVE  [Promise!Next]_Promise!vars
<1>1. \A e \in Events : row[e] \in Rows
  BY DEF IInv, TypeOK
<1>2. ASSUME NEW p \in Procs, NEW e \in Events, Emit(p, e) PROVE [Promise!Next]_Promise!vars
  <2>1. served' = served /\ blind' = blind
    BY <1>2 DEF Emit
  <2>2. CASE row' = row
    BY <2>1, <2>2, SameView DEF Promise!vars
  <2>3. CASE row' = [row EXCEPT ![e] = NewRow]
    <3>1. row[e].status = "none" /\ row[e].attempts = 0
      BY <1>2 DEF Emit, IInv, RowsExist, FreshRows
    <3>2. Rounds' = Rounds
      BY <2>3, <3>1 DEF Rounds, NewRow, NoRow, IInv, TypeOK
    <3>3. Standings' = [Standings EXCEPT ![e] = "open"] /\ Standings[e] = "unsent"
      BY <2>3, <3>1 DEF Standings, Standing, NewRow, NoRow, IInv, TypeOK
    <3>4. Promise!Record(e)
      BY <2>1, <3>2, <3>3 DEF Promise!Record
    <3> QED BY <3>4 DEF Promise!Next
  <2> QED BY <1>2, <2>2, <2>3 DEF Emit
<1>3. ASSUME NEW p \in Procs, NEW t \in Threads, NEW d \in Dispatches, Begin(p, t, d)
      PROVE  [Promise!Next]_Promise!vars
  <2>1. Standings' = Standings /\ Rounds' = Rounds /\ served' = served
    BY <1>3, SameView DEF Begin
  <2>2. blind' = blind \/ blind' = blind \union {d.event}
    BY <1>3 DEF Begin
  <2>3. d.event \in Events
    BY DEF Dispatches
  <2> QED BY <2>1, <2>2, <2>3 DEF Promise!Next, Promise!HandOutShort, Promise!vars
<1>4. ASSUME NEW p \in Procs, NEW t \in Threads, NEW h \in Handlers, RunHandler(p, t, h)
      PROVE  [Promise!Next]_Promise!vars
  <2>1. Standings' = Standings /\ Rounds' = Rounds /\ blind' = blind
    BY <1>4, SameView DEF RunHandler
  <2>2. worker[p][t].job.event \in Events
    <3>1. worker[p][t] \in Running
      BY <1>4 DEF RunHandler, IInv, TypeOK, Idle
    <3> QED BY <3>1 DEF Running, Dispatches
  <2>3. \/ served' = served
        \/ served' = [served EXCEPT ![worker[p][t].job.event] = @ \union {h}]
    BY <1>4 DEF RunHandler
  <2> QED BY <2>1, <2>2, <2>3 DEF Promise!Next, Promise!Take, Promise!vars
<1>5. ASSUME NEW p \in Procs, Claim(p) PROVE [Promise!Next]_Promise!vars
  <2>1. \A e \in Events : row'[e].status = row[e].status /\ row'[e].attempts = row[e].attempts
    BY <1>1, <1>5 DEF Claim, Rows
  <2> QED BY <1>5, <2>1, SameView DEF Claim, Promise!vars
<1>6. ASSUME NEW f \in Events, LeaseExpires(f) \/ RetryFallsDue(f)
      PROVE  [Promise!Next]_Promise!vars
  <2>1. \A e \in Events : \/ row'[e] = row[e]
                           \/ row'[e] = [row[e] EXCEPT !.leased = FALSE]
                           \/ row'[e] = [row[e] EXCEPT !.waiting = FALSE]
    BY <1>6 DEF LeaseExpires, RetryFallsDue, IInv, TypeOK
  <2>2. \A e \in Events : row'[e].status = row[e].status /\ row'[e].attempts = row[e].attempts
    BY <1>1, <2>1 DEF Rows
  <2> QED BY <1>6, <2>2, SameView DEF LeaseExpires, RetryFallsDue, Promise!vars
<1>7. CASE UNCHANGED <<row, served, blind>>
  BY <1>7, SameView DEF Promise!vars
<1>8. \/ \E p \in Procs, e \in Events : Emit(p, e)
      \/ \E p \in Procs, t \in Threads, d \in Dispatches : Begin(p, t, d)
      \/ \E p \in Procs, t \in Threads, h \in Handlers : RunHandler(p, t, h)
      \/ \E p \in Procs, t \in Threads : Finish(p, t)
      \/ \E p \in Procs : Claim(p)
      \/ \E e \in Events : LeaseExpires(e) \/ RetryFallsDue(e)
      \/ UNCHANGED <<row, served, blind>>
  BY DEF Next, PoolStep, Subscribe, Select, Die, Restart, vars
<1> QED BY <1>2, <1>3, <1>4, <1>5, <1>6, <1>7, <1>8, FinishSimulates

\* The outbox implements the safety part of the promise for any number of
\* processes, threads and events: the detailed specification's steps are
\* recordings, takings, closings and failed rounds of AtLeastOnce.
THEOREM Implements == ASSUME OutboxAssumption PROVE Spec => Promise!SafeSpec
<1>1. Init => Promise!Init
  BY DEF Init, Promise!Init, Standings, Standing, Rounds, NoRow
<1>2. IInv /\ [Next]_vars => [Promise!Next]_Promise!vars
  BY StepSimulates
<1> QED BY <1>1, <1>2, Inductive, PTL DEF Spec, Promise!SafeSpec
=============================================================================
