----------------------- MODULE SchedulerProofs ----------------------------
(***************************************************************************)
(* Proofs about the scheduler of the site: the election of the process     *)
(* that runs the jobs (SchedulerLeader), for every set of processes and of *)
(* jobs and every TTL, Gap and Span, and the executions of the jobs        *)
(* (CronJobs), for every set of jobs and threads, every graph of           *)
(* dependencies and every limit.  The two share no variable.               *)
(***************************************************************************)
EXTENDS SchedulerLeader, CronJobs, FiniteSetTheorems, SequenceTheorems, TLAPS

(* The actions of one process, by the variables of the election they touch.*)
Querying(p) == TryAcquire(p) \/ ElectionOff(p) \/ ProbeFails(p)

Registering(p) ==
    \/ \E j \in Job : EditJob(p, j) \/ DeleteJob(p, j)
    \/ \E j \in Plugin : AddPluginJob(p, j)
    \/ RemovePluginJobs(p)
    \/ RequestGoesOn(p)

Step(p) ==
    \/ Start(p) \/ Querying(p) \/ ApplyLeadership(p) \/ ListJobs(p) \/ SwitchJob(p)
    \/ Registering(p) \/ PauseScheduler(p) \/ ResumeScheduler(p) \/ Die(p)

LEMMA NextIsStep ==
    ASSUME Next
    PROVE  (\E p \in Process : Step(p)) \/ FlipElection \/ Tick
BY ProcessAssumption
   DEF Next, Step, Querying, Registering, Heartbeat, RequestArrives

-----------------------------------------------------------------------------
(* Type correctness.                                                       *)

LEMMA SuspensionType ==
    ASSUME NEW p \in Process, NEW js,
           jobs \in [Process -> SUBSET AnyJob], susp \in [Process -> SUBSET AnyJob],
           \A q \in Process : susp[q] \subseteq jobs[q],
           Paused(p, js) \/ Resumed(p, js)
    PROVE  /\ susp' \in [Process -> SUBSET AnyJob]
           /\ \A q \in Process : susp'[q] \subseteq jobs[q]
<1>1. CASE Paused(p, js)
    BY <1>1 DEF Paused
<1>2. CASE Resumed(p, js)
    BY <1>2 DEF Resumed
<1>3. QED
    BY <1>1, <1>2

HbType == [Process -> {"new", "boot", "idle", "apply", "list", "switch", "dead"}]

LEMMA BeatType ==
    ASSUME NEW p \in Process, NEW over, NEW state \in {"list", "switch"},
           hb \in HbType, stale \in [Process -> BOOLEAN], BeatUnless(p, over, state)
    PROVE  hb' \in HbType /\ stale' \in [Process -> BOOLEAN]
<1> DEFINE b == ~running[p] \/ leader'[p] = "switch"
<1>1. CASE over
    <2>1. b \in BOOLEAN /\ stale' = [stale EXCEPT ![p] = b] /\ Beat(p, "idle")
        BY <1>1 DEF BeatUnless
    <2> HIDE DEF b
    <2>2. stale' \in [Process -> BOOLEAN]
        BY <2>1
    <2>3. QED
        BY <2>1, <2>2 DEF Beat, HbType
<1>2. CASE ~over
    BY <1>2 DEF BeatUnless, Beat, HbType
<1>3. QED
    BY <1>1, <1>2

LEMMA StepType ==
    ASSUME TypeOK, NEW p \in Process, Step(p)
    PROVE  TypeOK'
<1> USE JobAssumption, TimeAssumption
    DEF TypeOK, Verdict, AnyJob, row, aps, beating, serving, bounds, Untouched
<1>1. CASE Start(p)
    BY <1>1 DEF Start, Beat, Serve
<1>2. CASE TryAcquire(p)
    <2>1. CASE Obtainable(p)
        BY <1>2, <2>1 DEF TryAcquire, Queried, Taken, Beat
    <2>2. CASE ~Obtainable(p)
        BY <1>2, <2>2 DEF TryAcquire, Queried, Beat
    <2>3. QED
        BY <2>1, <2>2
<1>3. CASE ElectionOff(p)
    BY <1>3 DEF ElectionOff, Queried, MayProbe, Beat
<1>4. CASE ProbeFails(p)
    BY <1>4 DEF ProbeFails, Obtainable, Queried, Taken, MayProbe, Beat
<1>5. CASE ApplyLeadership(p)
    <2>1. hb' \in HbType /\ stale' \in [Process -> BOOLEAN]
        BY <1>5, BeatType DEF ApplyLeadership, HbType
    <2>2. QED
        BY <1>5, <2>1 DEF ApplyLeadership, HbType
<1>6. CASE ListJobs(p)
    <2>1. hb' \in HbType /\ stale' \in [Process -> BOOLEAN]
        BY <1>6, BeatType DEF ListJobs, HbType
    <2>2. QED
        BY <1>6, <2>1 DEF ListJobs, HbType
<1>7. CASE SwitchJob(p)
    <2>1. PICK j \in todo[p] :
              /\ IF leader[p] = "no" THEN Paused(p, {j}) ELSE Resumed(p, {j})
              /\ todo' = [todo EXCEPT ![p] = @ \ {j}]
              /\ BeatUnless(p, todo[p] = {j}, "switch")
        BY <1>7 DEF SwitchJob
    <2>2. UNCHANGED <<row, election, active, won, leader, beat, running, jobs, serving, bounds>>
        BY <1>7 DEF SwitchJob
    <2>3. hb' \in HbType /\ stale' \in [Process -> BOOLEAN]
        BY <2>1, BeatType DEF HbType
    <2>4. /\ susp' \in [Process -> SUBSET AnyJob]
          /\ \A q \in Process : susp'[q] \subseteq jobs[q]
        <3>1. /\ jobs \in [Process -> SUBSET AnyJob] /\ susp \in [Process -> SUBSET AnyJob]
              /\ \A q \in Process : susp[q] \subseteq jobs[q]
            OBVIOUS
        <3>2. Paused(p, {j}) \/ Resumed(p, {j})
            BY <2>1
        <3>3. QED
            BY ONLY <3>1, <3>2, SuspensionType, p \in Process
    <2>5. todo' \in [Process -> SUBSET AnyJob]
        BY <2>1
    <2>6. QED
        BY <2>2, <2>3, <2>4, <2>5 DEF HbType
<1>8. CASE RemovePluginJobs(p)
    BY <1>8 DEF RemovePluginJobs, MayServe, Removed
<1>9. CASE PauseScheduler(p)
    BY <1>9 DEF PauseScheduler, MayServe
<1>10. CASE ResumeScheduler(p)
    BY <1>10 DEF ResumeScheduler, MayServe, Serve
<1>11. CASE SyncJobs(p)
    BY <1>11 DEF SyncJobs, Removed, Serve
<1>12. CASE ScheduleJob(p)
    BY <1>12 DEF ScheduleJob, Registered, Serve
<1>13. CASE CheckLeadership(p)
    BY <1>13 DEF CheckLeadership, NextJob, Serve
<1>14. CASE PauseNewJob(p)
    BY <1>14 DEF PauseNewJob, Paused, NextJob, Serve
<1>15. CASE DropJob(p)
    BY <1>15 DEF DropJob, Removed, Serve
<1>16. CASE ResumeChecks(p)
    BY <1>16 DEF ResumeChecks, Serve
<1>17. CASE Resuspend(p)
    BY <1>17 DEF Resuspend, Paused, Serve
<1>18. CASE Die(p)
    BY <1>18 DEF Die, Up, Beat, Serve
<1>19. ASSUME NEW j \in Job, EditJob(p, j) PROVE TypeOK'
    BY <1>19 DEF EditJob, MayServe, Serve
<1>20. ASSUME NEW j \in Job, DeleteJob(p, j) PROVE TypeOK'
    BY <1>20 DEF DeleteJob, MayServe, Serve
<1>21. ASSUME NEW j \in Plugin, AddPluginJob(p, j) PROVE TypeOK'
    BY <1>21 DEF AddPluginJob, MayServe, Registered, Serve
<1>22. QED
    BY <1>1, <1>2, <1>3, <1>4, <1>5, <1>6, <1>7, <1>8, <1>9, <1>10, <1>11, <1>12, <1>13, <1>14, <1>15, <1>16, <1>17, <1>18, <1>19, <1>20, <1>21
    DEF Step, Querying, Registering, RequestGoesOn

(* Every reachable state is well typed, and no scheduler holds a paused    *)
(* job that is not registered with it.                                     *)
THEOREM TypeCorrect == Spec => []TypeOK
<1>1. Init => TypeOK
    BY TimeAssumption, JobAssumption DEF Init, TypeOK, Verdict, AnyJob
<1>2. TypeOK /\ [Next]_vars => TypeOK'
    <2> SUFFICES ASSUME TypeOK, [Next]_vars PROVE TypeOK'
        OBVIOUS
    <2>1. CASE \E p \in Process : Step(p)
        BY <2>1, StepType
    <2>2. CASE FlipElection
        BY <2>2 DEF FlipElection, TypeOK, row, aps, beating, serving
    <2>3. CASE Tick
        BY <2>3, TimeAssumption DEF Tick, TypeOK, aps, serving, bounds
    <2>4. CASE UNCHANGED vars
        BY <2>4 DEF vars, TypeOK
    <2>5. QED
        BY <2>1, <2>2, <2>3, <2>4, NextIsStep
<1>3. QED
    BY <1>1, <1>2, PTL DEF Spec

-----------------------------------------------------------------------------
(* Leadership.  A process that acts on a lease is the holder of the row,   *)
(* and the age of the row is bounded by the time since its last queries.   *)

Timely == Gap + Span <= TTL

Holds(p, limit) == holder = p /\ age <= limit

(* hb[p] and leader[p] say how far p has got; a bound is written for each. *)
LeaseOf(p) ==
    /\ hb[p] \in {"new", "boot", "dead"} => leader[p] = "unset"
    /\ hb[p] = "apply" => beat[p] <= Span
    /\ hb[p] = "apply" /\ won[p] = "lease" => Holds(p, beat[p])
    /\ hb[p] = "apply" /\ leader[p] = "lease" /\ ~stale[p] => Holds(p, Gap + beat[p])
    /\ hb[p] \in {"list", "switch"} => beat[p] <= Span /\ leader[p] # "unset"
    /\ hb[p] \in {"list", "switch"} /\ leader[p] = "lease" => Holds(p, beat[p])
    /\ hb[p] \in {"list", "switch"} /\ leader[p] = "no" /\ ~stale[p] => Holds(p, Gap + beat[p])
    /\ hb[p] = "idle" /\ ~stale[p] => running[p]
    /\ hb[p] = "idle" /\ leader[p] = "lease" /\ ~stale[p] => Holds(p, beat[p]) /\ beat[p] <= Gap
    /\ leader[p] \in {"unset", "switch"} => stale[p] \/ hb[p] \in {"list", "switch"}

LeaseInv == \A p \in Process : LeaseOf(p)

(* What LeaseOf says of a process depends on the row and on what the       *)
(* process knows.                                                          *)
Knowledge(p) == <<hb[p], won[p], leader[p], beat[p], running[p], stale[p]>>

LEMMA LeaseUnchanged ==
    ASSUME NEW p \in Process, LeaseOf(p), UNCHANGED row, Knowledge(p)' = Knowledge(p)
    PROVE  LeaseOf(p)'
BY DEF LeaseOf, Holds, Knowledge, row

(* A step changes what its own process knows, and only a query the row.    *)
LEMMA StepIsLocal ==
    ASSUME TypeOK, NEW p \in Process, Step(p)
    PROVE  /\ \A q \in Process \ {p} : Knowledge(q)' = Knowledge(q)
           /\ Querying(p) \/ UNCHANGED row
<1> USE DEF TypeOK, Knowledge, row, aps, beating, serving, bounds, Untouched
<1>1. CASE Start(p)
    BY <1>1 DEF Start, Beat
<1>2. CASE Querying(p)
    BY <1>2 DEF Querying, TryAcquire, ElectionOff, ProbeFails, Queried, Beat
<1>3. CASE ApplyLeadership(p)
    BY <1>3 DEF ApplyLeadership, BeatUnless, Beat
<1>4. CASE ListJobs(p)
    BY <1>4 DEF ListJobs, BeatUnless, Beat
<1>5. CASE SwitchJob(p)
    BY <1>5 DEF SwitchJob, BeatUnless, Beat
<1>6. CASE Registering(p)
    BY <1>6 DEF Registering, EditJob, DeleteJob, AddPluginJob, RemovePluginJobs, MayServe,
       RequestGoesOn, SyncJobs, ScheduleJob, CheckLeadership, PauseNewJob, DropJob,
       ResumeChecks, Resuspend
<1>7. CASE PauseScheduler(p) \/ ResumeScheduler(p)
    BY <1>7 DEF PauseScheduler, ResumeScheduler, MayServe
<1>8. CASE Die(p)
    BY <1>8 DEF Die, Beat
<1>9. QED
    BY <1>1, <1>2, <1>3, <1>4, <1>5, <1>6, <1>7, <1>8 DEF Step

(* A process that takes the row cannot take it from one that holds it: by  *)
(* then the former holder has noticed.                                     *)
LEMMA LeaseNotTaken ==
    ASSUME TypeOK, Timely, NEW p \in Process, NEW q \in Process, p # q, LeaseOf(p),
           Obtainable(q), Taken(q), Knowledge(p)' = Knowledge(p)
    PROVE  LeaseOf(p)'
<1>1. beat[p] \in Nat /\ age \in Nat
    BY TimeAssumption DEF TypeOK
<1>2. \A n \in Nat : n <= Gap + Span => ~Holds(p, n)
    BY <1>1, TimeAssumption DEF Obtainable, Holds, Timely
<1>3. beat[p] <= Span => /\ ~Holds(p, beat[p])
                        /\ ~Holds(p, Gap + beat[p])
    BY <1>1, <1>2, TimeAssumption
<1>4. beat[p] <= Gap => ~Holds(p, beat[p])
    BY <1>1, <1>2, TimeAssumption
<1>5. QED
    BY <1>3, <1>4 DEF LeaseOf, Knowledge

(* The query: the answer "lease" comes with a fresh row, and any other     *)
(* answer leaves the querying process the lease it had.                    *)
LEMMA LeaseQueried ==
    ASSUME TypeOK, Timely, LeaseInv, NEW p \in Process, Querying(p)
    PROVE  LeaseInv'
<1>1. PICK v \in Verdict : Queried(p, v) /\ (v = "lease" => Obtainable(p) /\ Taken(p))
    BY DEF Querying, TryAcquire, ElectionOff, ProbeFails, Verdict
<1>2. (Obtainable(p) /\ Taken(p)) \/ UNCHANGED row
    BY DEF Querying, TryAcquire, ElectionOff, ProbeFails, row
<1>3. ASSUME NEW q \in Process, q # p PROVE LeaseOf(q)'
    <2>1. LeaseOf(q) /\ Knowledge(q)' = Knowledge(q)
        BY <1>3, StepIsLocal DEF LeaseInv, Step
    <2>2. QED
        BY <1>2, <1>3, <2>1, LeaseUnchanged, LeaseNotTaken
<1>4. LeaseOf(p)'
    <2>1. /\ hb'[p] = "apply" /\ won'[p] = v /\ beat'[p] = 0
          /\ leader'[p] = leader[p] /\ stale'[p] = stale[p]
        BY <1>1 DEF Queried, Beat, TypeOK
    <2>2. hb[p] \in {"boot", "idle"} /\ LeaseOf(p)
        BY <1>1 DEF Queried, MayProbe, LeaseInv
    <2>3. leader[p] = "lease" /\ ~stale[p] => Holds(p, Gap)
        BY <2>2, TimeAssumption DEF LeaseOf, Holds, TypeOK
    <2>4. leader[p] = "lease" /\ ~stale[p] => holder' = p /\ age' <= Gap
        BY <1>2, <2>3, TimeAssumption DEF Taken, Holds, row
    <2>5. v = "lease" => holder' = p /\ age' = 0
        BY <1>1 DEF Taken
    <2>6. leader[p] \in {"unset", "switch"} => stale[p]
        BY <2>2 DEF LeaseOf
    <2>7. QED
        BY <2>1, <2>4, <2>5, <2>6, TimeAssumption DEF LeaseOf, Holds
<1>5. QED
    BY <1>3, <1>4 DEF LeaseInv

(* A step that leaves the row alone and tells only p something new.        *)
LEMMA LeaseOfOthers ==
    ASSUME LeaseInv, UNCHANGED row, NEW p \in Process, LeaseOf(p)',
           \A q \in Process \ {p} : Knowledge(q)' = Knowledge(q)
    PROVE  LeaseInv'
BY LeaseUnchanged DEF LeaseInv

LEMMA LeaseApplied ==
    ASSUME TypeOK, LeaseInv, NEW p \in Process, ApplyLeadership(p)
    PROVE  LeaseInv'
<1>1. /\ hb[p] = "apply" /\ UNCHANGED row /\ LeaseOf(p)
      /\ beat' = beat /\ running' = running /\ beat[p] \in Nat /\ age \in Nat
    BY TimeAssumption DEF ApplyLeadership, LeaseInv, TypeOK, aps
<1>2. leader'[p] = won[p] /\ won'[p] = "no" /\ won[p] \in Verdict
    BY DEF ApplyLeadership, TypeOK
<1>3. \/ hb'[p] = "list" /\ stale'[p] = stale[p] /\ (won[p] = "no" => leader[p] # "no")
      \/ /\ hb'[p] = "idle" /\ (stale'[p] <=> (~running[p] \/ won[p] = "switch"))
         /\ leader[p] # "unset" /\ (leader[p] = "no" <=> won[p] = "no")
    BY <1>2 DEF ApplyLeadership, BeatUnless, Beat, TypeOK
<1>4. LeaseOf(p)'
    <2>1. CASE hb'[p] = "list"
        <3>1. stale'[p] = stale[p] /\ (won[p] = "no" => leader[p] # "no")
            BY <1>3, <2>1
        <3>2. won[p] = "no" /\ ~stale[p] => leader[p] = "lease"
            BY <1>1, <3>1 DEF LeaseOf, TypeOK, Verdict
        <3>3. QED
            BY <1>1, <1>2, <2>1, <3>1, <3>2 DEF LeaseOf, Holds, row, Verdict
    <2>2. CASE hb'[p] = "idle"
        <3>1. /\ stale'[p] <=> (~running[p] \/ won[p] = "switch")
              /\ leader[p] # "unset" /\ (leader[p] = "no" <=> won[p] = "no")
            BY <1>3, <2>2
        <3>2. beat[p] <= Gap
            BY <1>1, TimeAssumption DEF LeaseOf
        <3>3. QED
            BY <1>1, <1>2, <2>2, <3>1, <3>2 DEF LeaseOf, Holds, row, Verdict
    <2>3. QED
        BY <1>3, <2>1, <2>2
<1>5. \A q \in Process \ {p} : Knowledge(q)' = Knowledge(q)
    BY StepIsLocal DEF Step
<1>6. QED
    BY <1>1, <1>4, <1>5, LeaseOfOthers

LEMMA LeaseSwitched ==
    ASSUME TypeOK, LeaseInv, NEW p \in Process, ListJobs(p) \/ SwitchJob(p)
    PROVE  LeaseInv'
<1>1. /\ hb[p] \in {"list", "switch"} /\ UNCHANGED <<row, won, leader, beat, running>>
      /\ LeaseOf(p) /\ beat[p] \in Nat /\ age \in Nat
    BY TimeAssumption DEF ListJobs, SwitchJob, LeaseInv, TypeOK, aps
<1>2. PICK over \in BOOLEAN : BeatUnless(p, over, "switch")
    BY DEF ListJobs, SwitchJob
<1>3. \/ hb'[p] = "switch" /\ stale'[p] = stale[p]
      \/ hb'[p] = "idle" /\ (stale'[p] <=> (~running[p] \/ leader[p] = "switch"))
    BY <1>1, <1>2 DEF BeatUnless, Beat, TypeOK
<1>4. LeaseOf(p)'
    <2>1. beat[p] <= Gap
        BY <1>1, TimeAssumption DEF LeaseOf
    <2>2. QED
        BY <1>1, <1>3, <2>1 DEF LeaseOf, Holds, row
<1>5. \A q \in Process \ {p} : Knowledge(q)' = Knowledge(q)
    BY StepIsLocal DEF Step
<1>6. QED
    BY <1>1, <1>4, <1>5, LeaseOfOthers

LEMMA LeaseStarted ==
    ASSUME TypeOK, LeaseInv, NEW p \in Process,
           Start(p) \/ Die(p) \/ PauseScheduler(p) \/ ResumeScheduler(p)
    PROVE  LeaseInv'
<1>1. UNCHANGED row /\ LeaseOf(p) /\ beat[p] \in Nat
    BY DEF Start, Die, PauseScheduler, ResumeScheduler, MayServe, LeaseInv, TypeOK
<1>2. \A q \in Process \ {p} : Knowledge(q)' = Knowledge(q)
    BY StepIsLocal DEF Step
<1>3. CASE Start(p)
    <2>1. /\ hb[p] = "new" /\ hb'[p] = "boot" /\ UNCHANGED <<leader, won, beat, stale, running>>
        BY <1>3 DEF Start, Beat, TypeOK, aps
    <2>2. QED
        BY <1>1, <1>2, <2>1, LeaseOfOthers DEF LeaseOf
<1>4. CASE Die(p)
    <2>1. hb'[p] = "dead" /\ leader'[p] = "unset" /\ stale'[p] = TRUE
        BY <1>4 DEF Die, Beat, TypeOK
    <2>2. QED
        BY <1>1, <1>2, <2>1, LeaseOfOthers DEF LeaseOf
<1>5. CASE PauseScheduler(p)
    <2>1. stale'[p] = TRUE /\ UNCHANGED <<hb, won, leader, beat>>
        BY <1>5 DEF PauseScheduler, MayServe, TypeOK
    <2>2. QED
        BY <1>1, <1>2, <2>1, LeaseOfOthers DEF LeaseOf, Holds, row
<1>6. CASE ResumeScheduler(p)
    <2>1. /\ ~running[p] /\ running'[p] = TRUE /\ UNCHANGED <<hb, won, leader, stale>>
          /\ hb[p] # "idle" => beat'[p] = beat[p]
        BY <1>6 DEF ResumeScheduler, MayServe, TypeOK
    <2>2. hb[p] = "idle" => stale[p]
        BY <1>1, <2>1 DEF LeaseOf
    <2>3. QED
        BY <1>1, <1>2, <2>1, <2>2, LeaseOfOthers DEF LeaseOf, Holds, row
<1>7. QED
    BY <1>3, <1>4, <1>5, <1>6

(* Time: the row ages no faster than the time since the query grows.       *)
LEMMA LeaseAges ==
    ASSUME TypeOK, LeaseInv, Tick
    PROVE  LeaseInv'
<1>1. SUFFICES ASSUME NEW p \in Process PROVE LeaseOf(p)'
    BY DEF LeaseInv
<1>2. /\ LeaseOf(p) /\ beat[p] \in Nat /\ age \in Nat /\ {Gap, Span, TTL} \subseteq Nat
      /\ holder' = holder /\ age' \in Nat /\ age' <= age + 1
    BY TimeAssumption DEF Tick, LeaseInv, TypeOK
<1>3. UNCHANGED <<hb[p], won[p], leader[p], running[p], stale[p]>>
    BY DEF Tick, aps
<1>4. CASE hb[p] \in {"apply", "list", "switch"}
    <2>1. beat[p] < Span /\ beat'[p] = beat[p] + 1
        BY <1>2, <1>4 DEF Tick, OnTime, Up
    <2>2. QED
        BY <1>2, <1>3, <1>4, <2>1 DEF LeaseOf, Holds
<1>5. CASE hb[p] = "idle"
    <2>1. CASE running[p]
        <3>1. beat[p] < Gap /\ beat'[p] = beat[p] + 1
            BY <1>2, <1>5, <2>1 DEF Tick, OnTime, Up
        <3>2. QED
            BY <1>2, <1>3, <1>5, <3>1 DEF LeaseOf, Holds
    <2>2. CASE ~running[p]
        BY <1>2, <1>3, <1>5, <2>2 DEF LeaseOf
    <2>3. QED
        BY <2>1, <2>2
<1>6. CASE hb[p] \in {"new", "boot", "dead"}
    BY <1>2, <1>3, <1>6 DEF LeaseOf
<1>7. QED
    BY <1>4, <1>5, <1>6 DEF TypeOK

LEMMA LeaseInvariant == ASSUME Timely PROVE Spec => []LeaseInv
<1>1. Init => LeaseInv
    BY DEF Init, LeaseInv, LeaseOf
<1>2. TypeOK /\ LeaseInv /\ [Next]_vars => LeaseInv'
    <2> SUFFICES ASSUME TypeOK, LeaseInv, [Next]_vars PROVE LeaseInv'
        OBVIOUS
    <2>1. ASSUME NEW p \in Process, Step(p) PROVE LeaseInv'
        <3>1. CASE Registering(p)
            <4>1. UNCHANGED <<row, hb, won, leader, beat, running, stale>>
                BY <3>1 DEF Registering, EditJob, DeleteJob, AddPluginJob, RemovePluginJobs,
                    MayServe, RequestGoesOn, SyncJobs, ScheduleJob, CheckLeadership,
                    PauseNewJob, DropJob, ResumeChecks, Resuspend, Untouched, beating, aps
            <4>2. QED
                BY <4>1, LeaseUnchanged DEF LeaseInv, Knowledge
        <3>2. QED
            BY <2>1, <3>1, LeaseQueried, LeaseApplied, LeaseSwitched, LeaseStarted DEF Step
    <2>2. CASE FlipElection
        BY <2>2, LeaseUnchanged DEF FlipElection, LeaseInv, Knowledge, beating, aps
    <2>3. CASE Tick
        BY <2>3, LeaseAges
    <2>4. CASE UNCHANGED vars
        BY <2>4, LeaseUnchanged DEF vars, LeaseInv, Knowledge, row
    <2>5. QED
        BY <2>1, <2>2, <2>3, <2>4, NextIsStep
<1>3. QED
    BY <1>1, <1>2, TypeCorrect, PTL DEF Spec

(* At most one process acts on a lease, as long as a heartbeat's query     *)
(* follows the one before within Gap and is acted on within Span, and the  *)
(* lease lasts for both.                                                   *)
THEOREM LeaderExclusion == ASSUME Timely PROVE Spec => []OneLeader
<1>1. TypeOK /\ LeaseInv => OneLeader
    BY DEF TypeOK, LeaseInv, LeaseOf, OneLeader, Leads, Up, Holds
<1>2. QED
    BY <1>1, TypeCorrect, LeaseInvariant, PTL

-----------------------------------------------------------------------------
(* The election implements the lease of module Lease.                      *)

LeaderIsOwner == \A p \in Process : Leads(p) => Owner = p

(* A process that leads holds the row, and the row has not expired.        *)
LEMMA LeaderOwns == ASSUME Timely PROVE Spec => []LeaderIsOwner
<1>1. TypeOK /\ LeaseInv => LeaderIsOwner
    <2> SUFFICES ASSUME TypeOK, LeaseInv, NEW p \in Process, Leads(p) PROVE Owner = p
        BY DEF LeaderIsOwner
    <2>1. /\ LeaseOf(p) /\ leader[p] = "lease" /\ ~stale[p]
          /\ beat[p] \in Nat /\ age \in Nat
        BY TimeAssumption DEF LeaseInv, Leads, TypeOK
    <2>2. hb[p] \in {"idle", "apply", "list", "switch"}
        BY DEF Leads, Up, TypeOK, LeaseInv, LeaseOf
    <2>3. holder = p /\ age <= Gap + Span
        BY <2>1, <2>2, TimeAssumption DEF LeaseOf, Holds
    <2>4. age <= TTL
        BY <2>1, <2>3, TimeAssumption DEF Timely
    <2>5. QED
        BY <2>1, <2>3, <2>4, TimeAssumption DEF Owner
<1>2. QED
    BY <1>1, TypeCorrect, LeaseInvariant, PTL

(* A query that takes the row is a grant: nobody is deprived.              *)
LEMMA QueryGrants ==
    ASSUME TypeOK, NEW p \in Process, Querying(p)
    PROVE  [Granted!Next]_Granted!vars
<1>1. \A q \in Process : Leads(q)' <=> Leads(q)
    <2>1. leader' = leader /\ stale' = stale /\ hb' = [hb EXCEPT ![p] = "apply"]
          /\ hb[p] \in {"boot", "idle"}
        BY DEF Querying, TryAcquire, ElectionOff, ProbeFails, Queried, MayProbe, Beat
    <2>2. QED
        BY <2>1 DEF Leads, Up, TypeOK
<1>2. Acting' = Acting
    BY <1>1 DEF Acting
<1>3. CASE Obtainable(p) /\ Taken(p)
    <2>1. Owner \in {None, p} /\ Owner' = p
        BY <1>3, TimeAssumption DEF Obtainable, Taken, Owner
    <2>2. QED
        BY <1>2, <2>1 DEF Granted!Next, Granted!Grant
<1>4. CASE UNCHANGED row
    BY <1>2, <1>4 DEF row, Owner, Granted!vars
<1>5. QED
    BY <1>3, <1>4 DEF Querying, TryAcquire, ElectionOff, ProbeFails, row

(* Any other step of a process makes it act, or cease to act.              *)
LEMMA StepActs ==
    ASSUME TypeOK, LeaderIsOwner', NEW p \in Process, Step(p), UNCHANGED row
    PROVE  [Granted!Next]_Granted!vars
<1>1. \A q \in Process \ {p} : Leads(q)' <=> Leads(q)
    BY StepIsLocal DEF Knowledge, Leads, Up
<1>2. Owner' = Owner
    BY DEF row, Owner
<1>3. CASE Leads(p)'
    <2>1. Owner = p
        BY <1>2, <1>3 DEF LeaderIsOwner
    <2>2. Acting' = Acting \union {p}
        BY <1>1, <1>3 DEF Acting
    <2>3. QED
        BY <1>2, <2>1, <2>2 DEF Granted!Next, Granted!Act
<1>4. CASE ~Leads(p)'
    <2>1. Acting' = Acting \ {p}
        BY <1>1, <1>4 DEF Acting
    <2>2. QED
        BY <1>2, <2>1 DEF Granted!Next, Granted!Leave
<1>5. QED
    BY <1>3, <1>4

(* Time runs out only for a process that does not act any more.            *)
LEMMA TickRunsOut ==
    ASSUME TypeOK, LeaderIsOwner', Tick
    PROVE  [Granted!Next]_Granted!vars
<1>1. Acting' = Acting
    BY DEF Tick, Acting, Leads, Up
<1>2. holder' = holder /\ (age > TTL => age' > TTL)
    BY TimeAssumption DEF Tick, TypeOK
<1>3. Owner' \in {Owner, None}
    BY <1>2 DEF Owner
<1>4. CASE Owner' = None
    <2>1. \A q \in Process : ~Leads(q)'
        BY <1>4, ProcessAssumption DEF LeaderIsOwner
    <2>2. Acting = {}
        BY <1>1, <2>1 DEF Acting
    <2>3. QED
        BY <1>1, <1>4, <2>2 DEF Granted!Next, Granted!RunOut
<1>5. QED
    BY <1>1, <1>3, <1>4 DEF Granted!vars

(* The election implements the lease: whatever the heartbeats, requests,   *)
(* failed queries, pauses and deaths, the row passes on only when it has   *)
(* run out, and it never runs out while its holder still acts on it.       *)
THEOREM LeaseImplemented == ASSUME Timely PROVE Spec => ImplementsLease
<1>1. Init => Granted!Init
    BY TimeAssumption DEF Init, Owner, Acting, Leads, Up, Granted!Init
<1>2. TypeOK /\ LeaderIsOwner' /\ [Next]_vars => [Granted!Next]_Granted!vars
    <2> SUFFICES ASSUME TypeOK, LeaderIsOwner', [Next]_vars
                 PROVE  [Granted!Next]_Granted!vars
        OBVIOUS
    <2>1. ASSUME NEW p \in Process, Step(p) PROVE [Granted!Next]_Granted!vars
        BY <2>1, StepIsLocal, QueryGrants, StepActs
    <2>2. CASE FlipElection
        BY <2>2 DEF FlipElection, row, beating, Owner, Acting, Leads, Up, Granted!vars
    <2>3. CASE Tick
        BY <2>3, TickRunsOut
    <2>4. CASE UNCHANGED vars
        BY <2>4 DEF vars, Owner, Acting, Leads, Up, Granted!vars
    <2>5. QED
        BY <2>1, <2>2, <2>3, <2>4, NextIsStep
<1>3. QED
    BY <1>1, <1>2, TypeCorrect, LeaderOwns, PTL DEF Spec, ImplementsLease, Granted!Spec

-----------------------------------------------------------------------------
(* Suspension.  A job that can fire in a process without leadership is     *)
(* still to be met by the heartbeat that switches the jobs over, or is     *)
(* being registered by a request that has yet to look at the leadership.   *)

Covered(p, j) ==
    \/ hb[p] = "list"
    \/ hb[p] = "switch" /\ j \in todo[p]
    \/ req[p] \in {"added", "pause"} /\ rjob[p] = j

SuspendedAt(p) ==
    /\ hb[p] = "new" => leader[p] = "unset"
    /\ leader[p] = "no" => \A j \in jobs[p] \ susp[p] : Covered(p, j)

SuspInv == \A p \in Process : SuspendedAt(p)

LEMMA SuspendedElsewhere ==
    ASSUME NEW q \in Process, SuspendedAt(q),
           UNCHANGED <<hb[q], leader[q], jobs[q], susp[q], todo[q], req[q], rjob[q]>>
    PROVE  SuspendedAt(q)'
BY DEF SuspendedAt, Covered

LEMMA SuspStep ==
    ASSUME TypeOK, SuspInv, NEW p \in Process, Step(p)
    PROVE  SuspInv'
<1> USE DEF row, aps, beating, serving, bounds, Untouched
<1>1. \A q \in Process \ {p} :
          UNCHANGED <<hb[q], leader[q], jobs[q], susp[q], todo[q], req[q], rjob[q]>>
    <2>1. CASE Start(p)
        BY <2>1 DEF TypeOK, Start, Beat, Serve
    <2>2. CASE Die(p)
        BY <2>2 DEF TypeOK, Die, Beat, Serve
    <2>3. CASE Querying(p)
        BY <2>3 DEF TypeOK, Querying, TryAcquire, ElectionOff, ProbeFails, Queried, Beat
    <2>4. CASE ApplyLeadership(p)
        BY <2>4 DEF TypeOK, ApplyLeadership, BeatUnless, Beat
    <2>5. CASE ListJobs(p)
        BY <2>5 DEF TypeOK, ListJobs, BeatUnless, Beat
    <2>6. CASE SwitchJob(p)
        BY <2>6 DEF TypeOK, SwitchJob, BeatUnless, Beat, Paused, Resumed
    <2>7. CASE PauseScheduler(p) \/ ResumeScheduler(p)
        BY <2>7 DEF TypeOK, PauseScheduler, ResumeScheduler, MayServe, Serve
    <2>8. CASE Registering(p)
        BY <2>8 DEF TypeOK, Registering, EditJob, DeleteJob, AddPluginJob, RemovePluginJobs, MayServe, RequestGoesOn,
           SyncJobs, ScheduleJob, CheckLeadership, PauseNewJob, DropJob, ResumeChecks, Resuspend,
           Registered, Removed, Paused, NextJob, Serve
    <2>9. QED
        BY <2>1, <2>2, <2>3, <2>4, <2>5, <2>6, <2>7, <2>8 DEF Step
<1>2. SuspendedAt(p)'
    <2> USE DEF TypeOK, SuspendedAt, Covered
    <2>0. SuspendedAt(p)
        BY DEF SuspInv
    <2>1. CASE Start(p)
        BY <2>0, <2>1 DEF Start, Beat, Serve
    <2>2. CASE Die(p)
        BY <2>0, <2>2 DEF Die, Beat, Serve
    <2>3. CASE Querying(p)
        BY <2>0, <2>3 DEF Querying, TryAcquire, ElectionOff, ProbeFails, Queried, MayProbe, Beat
    <2>4. CASE ApplyLeadership(p)
        BY <2>0, <2>4 DEF ApplyLeadership, BeatUnless, Beat
    <2>5. CASE ListJobs(p)
        BY <2>0, <2>5 DEF ListJobs, BeatUnless, Beat
    <2>6. CASE SwitchJob(p)
        BY <2>0, <2>6 DEF SwitchJob, BeatUnless, Beat, Paused, Resumed
    <2>7. CASE RemovePluginJobs(p)
        BY <2>0, <2>7 DEF RemovePluginJobs, MayServe, Removed
    <2>8. CASE PauseScheduler(p)
        BY <2>0, <2>8 DEF PauseScheduler, MayServe
    <2>9. CASE ResumeScheduler(p)
        BY <2>0, <2>9 DEF ResumeScheduler, MayServe, Serve
    <2>10. CASE SyncJobs(p)
        BY <2>0, <2>10 DEF SyncJobs, Removed, Serve
    <2>11. CASE ScheduleJob(p)
        BY <2>0, <2>11 DEF ScheduleJob, Registered, Serve
    <2>12. CASE CheckLeadership(p)
        BY <2>0, <2>12 DEF CheckLeadership, NextJob, Serve
    <2>13. CASE PauseNewJob(p)
        BY <2>0, <2>13 DEF PauseNewJob, Paused, NextJob, Serve
    <2>14. CASE DropJob(p)
        BY <2>0, <2>14 DEF DropJob, Removed, Serve
    <2>15. CASE ResumeChecks(p)
        BY <2>0, <2>15 DEF ResumeChecks, Serve
    <2>16. CASE Resuspend(p)
        BY <2>0, <2>16 DEF Resuspend, Paused, Serve
    <2>17. ASSUME NEW j \in Job, EditJob(p, j) PROVE SuspendedAt(p)'
        BY <2>0, <2>17 DEF EditJob, MayServe, Serve
    <2>18. ASSUME NEW j \in Job, DeleteJob(p, j) PROVE SuspendedAt(p)'
        BY <2>0, <2>18 DEF DeleteJob, MayServe, Serve
    <2>19. ASSUME NEW j \in Plugin, AddPluginJob(p, j) PROVE SuspendedAt(p)'
        BY <2>0, <2>19 DEF AddPluginJob, MayServe, Registered, Serve
    <2>20. QED
        BY <2>1, <2>2, <2>3, <2>4, <2>5, <2>6, <2>7, <2>8, <2>9, <2>10, <2>11, <2>12, <2>13, <2>14, <2>15, <2>16, <2>17, <2>18, <2>19
        DEF Step, Registering, RequestGoesOn
<1>3. QED
    BY <1>1, <1>2, SuspendedElsewhere DEF SuspInv

LEMMA SuspInvariant == Spec => []SuspInv
<1>1. Init => SuspInv
    BY DEF Init, SuspInv, SuspendedAt
<1>2. TypeOK /\ SuspInv /\ [Next]_vars => SuspInv'
    <2> SUFFICES ASSUME TypeOK, SuspInv, [Next]_vars PROVE SuspInv'
        OBVIOUS
    <2>1. CASE \E p \in Process : Step(p)
        BY <2>1, SuspStep
    <2>2. CASE FlipElection \/ Tick \/ UNCHANGED vars
        BY <2>2, SuspendedElsewhere
        DEF SuspInv, FlipElection, Tick, vars, beating, aps, serving
    <2>3. QED
        BY <2>1, <2>2, NextIsStep
<1>3. QED
    BY <1>1, <1>2, TypeCorrect, PTL DEF Spec

(* Between two heartbeats and outside requests, a process without          *)
(* leadership has every job suspended.  No timing is assumed.              *)
THEOREM SuspendedWithoutLeadership == Spec => []NonLeaderSuspended
<1>1. TypeOK /\ SuspInv => NonLeaderSuspended
    BY DEF TypeOK, SuspInv, SuspendedAt, Covered, NonLeaderSuspended
<1>2. QED
    BY <1>1, TypeCorrect, SuspInvariant, PTL

(* No job fires in two settled processes: the one that lost its leadership *)
(* and is still suspending its jobs holds the row until it is done.        *)
THEOREM FiringExclusion == ASSUME Timely PROVE Spec => []FiresOnce
<1>1. TypeOK /\ LeaseInv /\ SuspInv => FiresOnce
    <2> SUFFICES ASSUME TypeOK, LeaseInv, SuspInv PROVE FiresOnce
        OBVIOUS
    <2>1. ASSUME NEW p \in Process, NEW j \in AnyJob, Settled(p), Fires(p, j)
          PROVE  holder = p
        <3>1. hb[p] \in {"idle", "apply", "list", "switch"} /\ LeaseOf(p) /\ ~stale[p]
            BY <2>1 DEF TypeOK, LeaseInv, LeaseOf, Settled, Fires, Up
        <3>2. CASE leader[p] = "lease"
            BY <3>1, <3>2 DEF LeaseOf, Holds
        <3>3. CASE leader[p] = "no"
            <4>1. hb[p] \in {"list", "switch"}
                BY <2>1, <3>3 DEF SuspInv, SuspendedAt, Covered, Settled, Fires
            <4>2. QED
                BY <3>1, <3>3, <4>1 DEF LeaseOf, Holds
        <3>4. QED
            BY <2>1, <3>2, <3>3 DEF Settled
    <2>2. QED
        BY <2>1 DEF FiresOnce
<1>2. QED
    BY <1>1, TypeCorrect, LeaseInvariant, SuspInvariant, PTL

-----------------------------------------------------------------------------
(* The executions of the jobs (CronJobs).  Type correctness.               *)

Threading == [Threads -> {Idle} \union Working]
Stacked(th) == \A t \in Threads : th[t].pc # "idle" => th[t].todo # <<>>

(* What a thread that is not idle looks like.                              *)
LEMMA WorkingThread ==
    ASSUME CronTypeOK, NEW t \in Threads, thread[t].pc # "idle"
    PROVE  /\ thread[t] \in Working
           /\ thread[t].todo \in Seq(Jobs) /\ thread[t].todo # <<>>
           /\ Current(t) \in Jobs
<1>1. thread[t] \in Working /\ thread[t].todo # <<>>
    BY DEF CronTypeOK, Idle
<1>2. thread[t].todo \in Seq(Jobs)
    BY <1>1 DEF Working
<1>3. QED
    BY <1>1, <1>2, HeadTailProperties DEF Current

(* A step that changes one thread to a state of its type.                  *)
LEMMA ThreadChanged ==
    ASSUME CronTypeOK, NEW t \in Threads, NEW w \in {Idle} \union Working,
           w.pc # "idle" => w.todo # <<>>,
           thread' = [thread EXCEPT ![t] = w]
    PROVE  thread' \in Threading /\ Stacked(thread')
<1>1. thread \in Threading /\ Stacked(thread)
    BY DEF CronTypeOK, Threading, Stacked
<1>2. \A u \in Threads : thread'[u] = IF u = t THEN w ELSE thread[u]
    BY <1>1 DEF Threading
<1>3. QED
    BY <1>1, <1>2 DEF Threading, Stacked

LEMMA GotoType ==
    ASSUME CronTypeOK, NEW t \in Threads, thread[t].pc # "idle",
           NEW step \in {"mark", "limit", "attempt", "finish", "count", "depend"},
           Goto(t, step)
    PROVE  thread' \in Threading /\ Stacked(thread')
<1> DEFINE w == [thread[t] EXCEPT !.pc = step]
<1>1. thread[t] \in Working /\ thread[t].todo # <<>>
    BY WorkingThread
<1>2. w \in Working /\ w.todo # <<>>
    BY <1>1 DEF Working
<1>3. thread' = [thread EXCEPT ![t] = w]
    BY DEF Goto
<1>4. QED
    BY <1>2, <1>3, ThreadChanged

LEMMA CallType ==
    ASSUME CronTypeOK, NEW t \in Threads, thread[t].pc # "idle",
           NEW calls \in Seq(Jobs), calls # <<>>
    PROVE  Call(t, calls) \in Working /\ Call(t, calls).todo # <<>>
<1>1. thread[t] \in Working
    BY WorkingThread
<1>2. QED
    BY <1>1 DEF Call, Working

LEMMA ReturnType ==
    ASSUME CronTypeOK, NEW t \in Threads, thread[t].pc # "idle", Return(t)
    PROVE  thread' \in Threading /\ Stacked(thread')
<1> DEFINE stack == thread[t].todo
<1>1. stack \in Seq(Jobs) /\ stack # <<>>
    BY WorkingThread
<1>2. CASE Len(stack) = 1
    <2>1. thread' = [thread EXCEPT ![t] = Idle] /\ Idle.pc = "idle"
        BY <1>2 DEF Return, Idle
    <2>2. QED
        BY <2>1, ThreadChanged
<1>3. CASE Len(stack) # 1
    <2>1. Tail(stack) \in Seq(Jobs) /\ Tail(stack) # <<>>
        <3>1. Tail(stack) \in Seq(Jobs) /\ Len(Tail(stack)) = Len(stack) - 1
            BY <1>1, HeadTailProperties
        <3>2. Len(stack) \in Nat
            BY <1>1, LenProperties
        <3>3. Len(Tail(stack)) # 0
            BY <1>3, <3>1, <3>2
        <3>4. QED
            BY <3>1, <3>3, EmptySeq
    <2>2. thread' = [thread EXCEPT ![t] = Call(t, Tail(stack))]
        BY <1>3 DEF Return
    <2>3. QED
        BY <2>1, <2>2, CallType, ThreadChanged
<1>4. QED
    BY <1>2, <1>3

(* The dependents of a job, in whatever order they are read.               *)
LEMMA ArrangementsAreSequences ==
    ASSUME NEW S \in SUBSET Jobs, S # {}, NEW q \in Arrangements(S)
    PROVE  q \in Seq(Jobs) /\ q # <<>>
<1>1. IsFiniteSet(S)
    BY FS_Subset, CronAssumption
<1>2. Cardinality(S) \in Nat /\ Cardinality(S) # 0
    BY <1>1, FS_CardinalityType, FS_EmptySet
<1>3. q \in [1 .. Cardinality(S) -> S]
    BY DEF Arrangements
<1>4. q \in Seq(S) /\ Len(q) = Cardinality(S)
    BY <1>2, <1>3
<1>5. QED
    BY <1>2, <1>4, SeqMonotonic, EmptySeq

LEMMA DependType ==
    ASSUME CronTypeOK, NEW t \in Threads, Depend(t)
    PROVE  thread' \in Threading /\ Stacked(thread')
<1> DEFINE next == {j \in present : job[j].active /\ <<j, Current(t)>> \in depends}
           stack == thread[t].todo
<1>1. thread[t].pc # "idle"
    BY DEF Depend, At
<1>2. stack \in Seq(Jobs) /\ stack # <<>>
    BY <1>1, WorkingThread
<1>3. CASE next = {}
    BY <1>1, <1>3, ReturnType DEF Depend
<1>4. CASE next # {}
    <2>1. PICK q \in Arrangements(next) :
              thread' = [thread EXCEPT ![t] = Call(t, q \o Tail(stack))]
        BY <1>4 DEF Depend
    <2>2. next \in SUBSET Jobs
        BY DEF CronTypeOK
    <2>3. q \in Seq(Jobs) /\ q # <<>>
        BY <1>4, <2>2, ArrangementsAreSequences
    <2>4. Tail(stack) \in Seq(Jobs)
        BY <1>2, HeadTailProperties
    <2>5. q \o Tail(stack) \in Seq(Jobs) /\ q \o Tail(stack) # <<>>
        BY <2>3, <2>4, ConcatProperties, ConcatEqualIffEmpty
    <2>6. QED
        BY <1>1, <2>1, <2>5, CallType, ThreadChanged
<1>5. QED
    BY <1>3, <1>4

Rows == [active : BOOLEAN, runs : Nat, status : {"none", "running", "success", "failed"}]

LEMMA WriteType ==
    ASSUME CronTypeOK, NEW j \in Jobs, NEW r \in Rows, Write(j, r)
    PROVE  job' \in [Jobs -> Rows]
BY DEF CronTypeOK, Write, Rows

LEMMA StepTypes ==
    ASSUME CronTypeOK, NEW t \in Threads, CronStep(t)
    PROVE  CronTypeOK'
<1> DEFINE c == Current(t)
<1>0. thread[t].pc # "idle"
    BY DEF CronStep, Begin, Mark, Limit, Attempt, Finish, Count, Depend, At
<1>1. thread[t] \in Working /\ c \in Jobs /\ thread[t].todo # <<>>
    BY <1>0, WorkingThread
<1>2. job[c] \in Rows /\ job \in [Jobs -> Rows]
    BY <1>1 DEF CronTypeOK, Rows
<1>3. ASSUME thread' \in Threading, Stacked(thread'), job' \in [Jobs -> Rows],
             abandoned' \subseteq Jobs, UNCHANGED <<present, depends, starts, events, stopped>>
      PROVE  CronTypeOK'
    BY <1>3 DEF CronTypeOK, Threading, Stacked, Rows
<1>4. abandoned \subseteq Jobs
    BY DEF CronTypeOK
<1>5. CASE Begin(t)
    BY <1>0, <1>2, <1>3, <1>4, <1>5, GotoType, ReturnType DEF Begin
<1>6. CASE Mark(t)
    <2>1. [job[c] EXCEPT !.status = "running"] \in Rows
        BY <1>2 DEF Rows
    <2>2. job' \in [Jobs -> Rows]
        BY <1>1, <1>6, <2>1, WriteType DEF Mark
    <2>3. QED
        BY <1>0, <1>3, <1>4, <1>6, <2>2, GotoType DEF Mark
<1>7. CASE Limit(t)
    <2>1. Return(t) \/ Goto(t, "attempt")
        BY <1>7 DEF Limit, Goto
    <2>2. abandoned' \subseteq Jobs
        BY <1>1, <1>4, <1>7 DEF Limit
    <2>3. QED
        BY <1>0, <1>2, <1>3, <1>7, <2>1, <2>2, GotoType, ReturnType DEF Limit
<1>8. CASE Attempt(t)
    <2>1. \E w \in Working : w.todo # <<>> /\ thread' = [thread EXCEPT ![t] = w]
        <3>1. ASSUME NEW ok \in BOOLEAN, Ended(t, ok)
              PROVE  \E w \in Working : w.todo # <<>> /\ thread' = [thread EXCEPT ![t] = w]
            <4> DEFINE w == [thread[t] EXCEPT !.pc = "finish", !.tries = 0, !.ok = ok]
            <4>1. w \in Working /\ w.todo # <<>>
                BY <1>1 DEF Working
            <4>2. thread' = [thread EXCEPT ![t] = w]
                BY <3>1 DEF Ended
            <4>3. QED
                BY <4>1, <4>2
        <3>2. ASSUME thread' = [thread EXCEPT ![t].tries = @ + 1]
              PROVE  \E w \in Working : w.todo # <<>> /\ thread' = [thread EXCEPT ![t] = w]
            <4> DEFINE w == [thread[t] EXCEPT !.tries = @ + 1]
            <4>1. w \in Working /\ w.todo # <<>>
                BY <1>1 DEF Working
            <4>2. thread' = [thread EXCEPT ![t] = w]
                BY <3>2
            <4>3. QED
                BY <4>1, <4>2
        <3>3. QED
            BY <1>8, <3>1, <3>2 DEF Attempt
    <2>2. thread' \in Threading /\ Stacked(thread')
        BY <2>1, ThreadChanged
    <2>3. QED
        BY <1>2, <1>3, <1>4, <1>8, <2>2 DEF Attempt
<1>9. CASE Finish(t)
    <2>1. [job[c] EXCEPT !.status = IF thread[t].ok THEN "success" ELSE "failed"] \in Rows
        BY <1>2 DEF Rows
    <2>2. job' \in [Jobs -> Rows]
        BY <1>1, <1>9, <2>1, WriteType DEF Finish
    <2>3. QED
        BY <1>0, <1>3, <1>4, <1>9, <2>2, GotoType DEF Finish
<1>10. CASE Count(t)
    BY <1>0, <1>2, <1>3, <1>4, <1>10, GotoType, ReturnType DEF Count
<1>11. CASE Depend(t)
    BY <1>2, <1>3, <1>4, <1>11, DependType DEF Depend
<1>12. QED
    BY <1>5, <1>6, <1>7, <1>8, <1>9, <1>10, <1>11 DEF CronStep

LEMMA StartType ==
    ASSUME CronTypeOK, NEW t \in Threads, NEW p \in Processes,
           NEW kind \in {"due", "now"}, NEW j \in Jobs, StartRun(t, p, kind, j)
    PROVE  CronTypeOK'
<1> DEFINE slot == [proc |-> p, kind |-> kind, job |-> j]
           w == [pc |-> "begin", at |-> slot, todo |-> <<j>>, tries |-> 0, ok |-> FALSE]
<1>1. <<j>> \in Seq(Jobs) /\ <<j>> # <<>>
    OBVIOUS
<1>2. slot \in Slots
    BY DEF Slots
<1>3. w \in Working /\ w.todo # <<>>
    BY <1>1, <1>2 DEF Working
<1>4. thread' = [thread EXCEPT ![t] = w] /\ starts' = starts + 1 /\ stopped' = stopped \ {t}
      /\ UNCHANGED <<job, present, depends, events, abandoned>>
    BY DEF StartRun
<1>5. thread' \in Threading /\ Stacked(thread')
    BY <1>3, <1>4, ThreadChanged
<1>6. QED
    BY <1>4, <1>5 DEF CronTypeOK, Threading, Stacked

LEMMA StopType ==
    ASSUME CronTypeOK, NEW T \in SUBSET Threads, Stop(T)
    PROVE  CronTypeOK'
<1>1. \A t \in Threads : thread'[t] = Idle \/ thread'[t] = thread[t]
    BY DEF Stop
<1>2. thread' \in Threading /\ Stacked(thread')
    <2>1. DOMAIN thread' = Threads /\ thread' = [t \in Threads |-> thread'[t]]
        BY DEF Stop
    <2>2. Idle.pc = "idle"
        BY DEF Idle
    <2>3. QED
        BY <1>1, <2>1, <2>2 DEF CronTypeOK, Threading, Stacked
<1>3. /\ abandoned' \subseteq Jobs /\ stopped' \subseteq Threads /\ events' \in Nat
      /\ UNCHANGED <<job, present, depends, starts>>
    BY DEF Stop, CronTypeOK
<1>4. QED
    BY <1>2, <1>3 DEF CronTypeOK, Threading, Stacked

LEMMA EditType ==
    ASSUME CronTypeOK, NEW j \in Jobs,
           (\E on \in BOOLEAN : Toggle(j, on)) \/ RemoveJob(j)
    PROVE  CronTypeOK'
<1>1. CASE \E on \in BOOLEAN : Toggle(j, on)
    <2>1. PICK on \in BOOLEAN : job' = [job EXCEPT ![j] = [@ EXCEPT !.active = on]]
        BY <1>1 DEF Toggle
    <2>2. events' \in Nat /\ UNCHANGED <<present, depends, thread, starts, abandoned, stopped>>
        BY <1>1 DEF Toggle, CronTypeOK
    <2>3. job \in [Jobs -> Rows] /\ [job[j] EXCEPT !.active = on] \in Rows
        BY DEF CronTypeOK, Rows
    <2>4. job' \in [Jobs -> Rows]
        BY <2>1, <2>3
    <2>5. QED
        BY <2>2, <2>4 DEF CronTypeOK, Rows
<1>2. CASE RemoveJob(j)
    <2>1. \A d \in depends' : d \in depends /\ d[1] # j /\ d[2] # j
        BY <1>2 DEF RemoveJob
    <2>2. \A d \in depends' : d \in DependsOn /\ d \in present' \X present'
        BY <1>2, <2>1 DEF RemoveJob, CronTypeOK
    <2>3. QED
        BY <1>2, <2>2 DEF RemoveJob, CronTypeOK
<1>3. QED
    BY <1>1, <1>2

(* What a step of the executions is.                                       *)
LEMMA CronNextIs ==
    ASSUME CronNext
    PROVE  \/ \E t \in Threads : CronStep(t)
           \/ \E t \in Threads, p \in Processes, kind \in {"due", "now"}, j \in Jobs :
                  StartRun(t, p, kind, j)
           \/ \E T \in SUBSET Threads : Stop(T)
           \/ \E j \in Jobs : (\E on \in BOOLEAN : Toggle(j, on)) \/ RemoveJob(j)
BY CronAssumption DEF CronNext, Due, RunNow, StatementFails, Recycle

(* Rows, threads and stacks are what they seem; a thread that executes     *)
(* always has a job on its stack, however calls are nested and return.     *)
THEOREM CronTypeCorrect == CronSpec => []CronTypeOK
<1>1. CronInit => CronTypeOK
    BY CronAssumption DEF CronInit, CronTypeOK, Idle
<1>2. CronTypeOK /\ [CronNext]_cronVars => CronTypeOK'
    <2> SUFFICES ASSUME CronTypeOK, [CronNext]_cronVars PROVE CronTypeOK'
        OBVIOUS
    <2>1. CASE UNCHANGED cronVars
        BY <2>1 DEF cronVars, CronTypeOK
    <2>2. CASE CronNext
        BY <2>2, CronNextIs, StepTypes, StartType, StopType, EditType
    <2>3. QED
        BY <2>1, <2>2
<1>3. QED
    BY <1>1, <1>2, PTL DEF CronSpec

-----------------------------------------------------------------------------
(* What last_status shows.  Executes alone is not inductive: a thread that *)
(* has yet to mark its job, or that is past the end of it, does not        *)
(* account for the status.  Leaves names the steps in between.             *)

RunInv ==
    \A j \in present : job[j].status = "running" =>
        j \in abandoned \/ \E t \in Threads : Leaves(t, j)

(* A step of one thread that leaves the rows alone, and does not drop a    *)
(* job between its two writes.                                             *)
LEMMA RunKept ==
    ASSUME CronTypeOK, RunInv, NEW t \in Threads, NEW w,
           thread' = [thread EXCEPT ![t] = w], UNCHANGED <<job, present>>,
           abandoned \subseteq abandoned',
           \A j \in Jobs : Leaves(t, j) => Leaves(t, j)' \/ j \in abandoned'
    PROVE  RunInv'
<1>1. \A u \in Threads \ {t} : thread'[u] = thread[u]
    BY DEF CronTypeOK
<1>2. \A u \in Threads \ {t}, j \in Jobs : Leaves(u, j) => Leaves(u, j)'
    BY <1>1 DEF Leaves, Executes, Current
<1>3. present \subseteq Jobs
    BY DEF CronTypeOK
<1>4. QED
    BY <1>2, <1>3 DEF RunInv

LEMMA RunMarked ==
    ASSUME CronTypeOK, RunInv, NEW t \in Threads, Mark(t)
    PROVE  RunInv'
<1>0. PICK c : c = Current(t)
    OBVIOUS
<1>1. thread[t].pc = "mark" /\ thread[t] \in Working /\ c \in Jobs
    BY <1>0, WorkingThread DEF Mark, At
<1>2. thread'[t] = [thread[t] EXCEPT !.pc = "limit"]
    BY DEF Mark, Goto, CronTypeOK
<1>3. thread'[t].pc = "limit" /\ thread'[t].todo = thread[t].todo
    BY <1>1, <1>2 DEF Working
<1>4. Leaves(t, c)'
    BY <1>0, <1>3 DEF Leaves, Executes, Current
<1>5. \A u \in Threads \ {t}, j \in Jobs : Leaves(u, j) => Leaves(u, j)'
    BY DEF Mark, Goto, CronTypeOK, Leaves, Executes, Current
<1>6. \A j \in Jobs : ~Leaves(t, j)
    BY <1>1 DEF Leaves
<1>7. \A j \in Jobs \ {c} : job'[j] = job[j]
    BY <1>0 DEF Mark, Write, CronTypeOK
<1>8. present' = present /\ abandoned' = abandoned /\ present \subseteq Jobs
    BY DEF Mark, CronTypeOK
<1>9. QED
    BY <1>4, <1>5, <1>6, <1>7, <1>8 DEF RunInv

LEMMA RunFinished ==
    ASSUME CronTypeOK, RunInv, NEW t \in Threads, Finish(t)
    PROVE  RunInv'
<1> DEFINE c == Current(t)
           status == IF thread[t].ok THEN "success" ELSE "failed"
<1>1. thread[t].pc = "finish" /\ c \in Jobs
    BY WorkingThread DEF Finish, At
<1>2. \A u \in Threads \ {t}, j \in Jobs : Leaves(u, j) => Leaves(u, j)'
    BY DEF Finish, Goto, CronTypeOK, Leaves, Executes, Current
<1>3. \A j \in Jobs : Leaves(t, j) => j = c
    BY DEF Leaves, Executes
<1>4. \A j \in Jobs \ {c} : job'[j] = job[j]
    BY DEF Finish, Write, CronTypeOK
<1>5. c \in present => job'[c].status # "running"
    <2>1. job' = IF c \in present THEN [job EXCEPT ![c] = [job[c] EXCEPT !.status = status]]
                 ELSE job
        BY DEF Finish, Write
    <2>2. job \in [Jobs -> Rows]
        BY DEF CronTypeOK, Rows
    <2>3. c \in present => job'[c] = [job[c] EXCEPT !.status = status]
        BY <1>1, <2>1, <2>2
    <2>4. [job[c] EXCEPT !.status = status].status = status
        BY <1>1, <2>2 DEF Rows
    <2>5. status # "running"
        OBVIOUS
    <2>6. QED
        BY <2>3, <2>4, <2>5
<1>6. present' = present /\ abandoned' = abandoned /\ present \subseteq Jobs
    BY DEF Finish, CronTypeOK
<1>7. QED
    BY <1>2, <1>3, <1>4, <1>5, <1>6 DEF RunInv

LEMMA RunStep ==
    ASSUME CronTypeOK, RunInv, NEW t \in Threads, CronStep(t)
    PROVE  RunInv'
<1> DEFINE c == Current(t)
<1>0. thread[t].pc # "idle"
    BY DEF CronStep, Begin, Mark, Limit, Attempt, Finish, Count, Depend, At
<1>1. thread[t] \in Working
    BY <1>0, WorkingThread
<1>2. ASSUME thread[t].pc \in {"begin", "count", "depend"},
             \E w : thread' = [thread EXCEPT ![t] = w],
             UNCHANGED <<job, present, abandoned>>
      PROVE  RunInv'
    <2>1. \A j \in Jobs : ~Leaves(t, j)
        BY <1>2 DEF Leaves
    <2>2. QED
        BY <1>2, <2>1, RunKept
<1>3. \A step : Goto(t, step) => \E w : thread' = [thread EXCEPT ![t] = w]
    BY DEF Goto
<1>4. Return(t) => \E w : thread' = [thread EXCEPT ![t] = w]
    BY DEF Return
<1>5. CASE Begin(t)
    BY <1>2, <1>3, <1>4, <1>5 DEF Begin, At
<1>6. CASE Mark(t)
    BY <1>6, RunMarked
<1>7. CASE Limit(t)
    <2>1. thread[t].pc = "limit" /\ UNCHANGED <<job, present>>
        BY <1>7 DEF Limit, At
    <2>2. CASE Return(t) /\ abandoned' = abandoned \union {c}
        <3>1. \A j \in Jobs : Leaves(t, j) => j \in abandoned'
            BY <2>2 DEF Leaves, Executes
        <3>2. QED
            BY <1>4, <2>1, <2>2, <3>1, RunKept
    <2>3. CASE /\ thread' = [thread EXCEPT ![t] = [@ EXCEPT !.pc = "attempt"]]
               /\ UNCHANGED abandoned
        <3>1. thread'[t] = [thread[t] EXCEPT !.pc = "attempt"]
            BY <2>3 DEF CronTypeOK
        <3>2. thread'[t].pc = "attempt" /\ thread'[t].todo = thread[t].todo
            BY <1>1, <3>1 DEF Working
        <3>3. \A j \in Jobs : Leaves(t, j) => Leaves(t, j)'
            BY <3>2 DEF Leaves, Executes, Current
        <3>4. QED
            BY <2>1, <2>3, <3>3, RunKept
    <2>4. QED
        BY <1>7, <2>2, <2>3 DEF Limit
<1>8. CASE Attempt(t)
    <2>1. PICK w : /\ thread' = [thread EXCEPT ![t] = w]
                   /\ w.todo = thread[t].todo /\ w.pc \in {"attempt", "finish"}
        <3>1. ASSUME NEW ok \in BOOLEAN, Ended(t, ok)
              PROVE  \E w : /\ thread' = [thread EXCEPT ![t] = w]
                            /\ w.todo = thread[t].todo /\ w.pc \in {"attempt", "finish"}
            <4> DEFINE w == [thread[t] EXCEPT !.pc = "finish", !.tries = 0, !.ok = ok]
            <4>1. w.todo = thread[t].todo /\ w.pc = "finish"
                BY <1>1 DEF Working
            <4>2. thread' = [thread EXCEPT ![t] = w]
                BY <3>1 DEF Ended
            <4>3. QED
                BY <4>1, <4>2
        <3>2. ASSUME thread' = [thread EXCEPT ![t].tries = @ + 1]
              PROVE  \E w : /\ thread' = [thread EXCEPT ![t] = w]
                            /\ w.todo = thread[t].todo /\ w.pc \in {"attempt", "finish"}
            <4> DEFINE w == [thread[t] EXCEPT !.tries = @ + 1]
            <4>1. w.todo = thread[t].todo /\ w.pc = "attempt"
                BY <1>1, <1>8 DEF Working, Attempt, At
            <4>2. thread' = [thread EXCEPT ![t] = w]
                BY <3>2
            <4>3. QED
                BY <4>1, <4>2
        <3>3. QED
            BY <1>8, <3>1, <3>2 DEF Attempt
    <2>2. thread'[t] = w
        BY <2>1 DEF CronTypeOK
    <2>3. \A j \in Jobs : Leaves(t, j) => Leaves(t, j)'
        BY <2>1, <2>2 DEF Leaves, Executes, Current
    <2>4. QED
        BY <1>8, <2>1, <2>3, RunKept DEF Attempt
<1>9. CASE Finish(t)
    BY <1>9, RunFinished
<1>10. CASE Count(t)
    BY <1>2, <1>3, <1>4, <1>10 DEF Count, At
<1>11. CASE Depend(t)
    <2>1. \E w : thread' = [thread EXCEPT ![t] = w]
        BY <1>4, <1>11 DEF Depend
    <2>2. QED
        BY <1>2, <1>11, <2>1 DEF Depend, At
<1>12. QED
    BY <1>5, <1>6, <1>7, <1>8, <1>9, <1>10, <1>11 DEF CronStep

LEMMA RunStarted ==
    ASSUME CronTypeOK, RunInv, NEW t \in Threads, NEW p \in Processes,
           NEW kind \in {"due", "now"}, NEW j \in Jobs, StartRun(t, p, kind, j)
    PROVE  RunInv'
<1>1. \A i \in Jobs : ~Leaves(t, i)
    BY DEF StartRun, At, Leaves
<1>2. QED
    BY <1>1, RunKept DEF StartRun

(* Threads that stop leave behind what Stop adds to `abandoned`.           *)
LEMMA RunStopped ==
    ASSUME CronTypeOK, RunInv, NEW T, Stop(T)
    PROVE  RunInv'
<1>1. /\ UNCHANGED <<job, present>> /\ present \subseteq Jobs
      /\ abandoned' = abandoned \union {j \in Jobs : \E t \in T : Leaves(t, j)}
    BY DEF Stop, CronTypeOK
<1>2. \A u \in Threads : u \notin T => thread'[u] = thread[u]
    BY DEF Stop
<1>3. \A u \in Threads, j \in Jobs : u \notin T /\ Leaves(u, j) => Leaves(u, j)'
    BY <1>2 DEF Leaves, Executes, Current
<1>4. QED
    BY <1>1, <1>3 DEF RunInv

LEMMA RunEdited ==
    ASSUME CronTypeOK, RunInv, NEW j \in Jobs,
           (\E on \in BOOLEAN : Toggle(j, on)) \/ RemoveJob(j)
    PROVE  RunInv'
<1>1. UNCHANGED <<thread, abandoned>> /\ present' \subseteq present /\ present \subseteq Jobs
    BY DEF Toggle, RemoveJob, CronTypeOK
<1>2. \A i \in Jobs : job'[i].status = job[i].status
    <2>1. ASSUME NEW on \in BOOLEAN, Toggle(j, on)
          PROVE  \A i \in Jobs : job'[i].status = job[i].status
        <3>1. job \in [Jobs -> Rows]
            BY DEF CronTypeOK, Rows
        <3>2. job' = [job EXCEPT ![j] = [job[j] EXCEPT !.active = on]]
            BY <2>1 DEF Toggle
        <3>3. [job[j] EXCEPT !.active = on].status = job[j].status
            BY <3>1 DEF Rows
        <3>4. QED
            BY <3>1, <3>2, <3>3
    <2>2. QED
        BY <2>1 DEF RemoveJob
<1>3. \A i \in Jobs, u \in Threads : Leaves(u, i) <=> Leaves(u, i)'
    BY <1>1 DEF Leaves, Executes, Current
<1>4. QED
    BY <1>1, <1>2, <1>3 DEF RunInv

LEMMA RunInvariant == CronSpec => []RunInv
<1>1. CronInit => RunInv
    BY DEF CronInit, RunInv
<1>2. CronTypeOK /\ RunInv /\ [CronNext]_cronVars => RunInv'
    <2> SUFFICES ASSUME CronTypeOK, RunInv, [CronNext]_cronVars PROVE RunInv'
        OBVIOUS
    <2>1. CASE UNCHANGED cronVars
        BY <2>1 DEF cronVars, RunInv, Leaves, Executes, Current
    <2>2. CASE CronNext
        BY <2>2, CronNextIs, RunStep, RunStarted, RunStopped, RunEdited
    <2>3. QED
        BY <2>1, <2>2
<1>3. QED
    BY <1>1, <1>2, CronTypeCorrect, PTL DEF CronSpec

(* A job that is shown as running is executed by some thread, or has been  *)
(* left behind, for any number of overlapping executions of the same row.  *)
THEOREM RunningCorrect == CronSpec => []RunningIsExecuted
<1>1. RunInv => RunningIsExecuted
    BY DEF RunInv, RunningIsExecuted, Leaves
<1>2. QED
    BY <1>1, RunInvariant, PTL

(* The early return of Limit never happens, since no run is ever counted:  *)
(* only a fault or an edit leaves a job behind.                            *)
NothingCounted == \A j \in Jobs : job[j].runs = 0
OnlyFaultsAbandon == NothingCounted /\ (events = 0 => abandoned = {})

(* RunningIsExecuted without its exception, as long as nothing fails and   *)
(* nobody edits a job.                                                     *)
RunningIsTrue ==
    events = 0 => \A j \in present : job[j].status = "running" =>
                      \E t \in Threads : Executes(t, j)

LEMMA AbandonStep ==
    ASSUME CronTypeOK, OnlyFaultsAbandon, CronNext
    PROVE  OnlyFaultsAbandon'
<1>1. ASSUME NEW t \in Threads, CronStep(t) PROVE OnlyFaultsAbandon'
    <2> DEFINE c == Current(t)
    <2>0. thread[t].pc # "idle"
        BY <1>1 DEF CronStep, Begin, Mark, Limit, Attempt, Finish, Count, Depend, At
    <2>1. c \in Jobs /\ job \in [Jobs -> Rows]
        BY <2>0, WorkingThread DEF CronTypeOK, Rows
    <2>2. events' = events /\ abandoned' = abandoned
        <3>1. CASE Limit(t)
            <4>1. job[c].runs = 0
                BY <2>1 DEF OnlyFaultsAbandon, NothingCounted
            <4>2. ~(MaxRuns > 0 /\ job[c].runs >= MaxRuns)
                BY <4>1, CronAssumption
            <4>3. QED
                BY <3>1, <4>2 DEF Limit
        <3>2. QED
            BY <1>1, <3>1 DEF CronStep, Begin, Mark, Attempt, Finish, Count, Depend
    <2>3. \A j \in Jobs : job'[j].runs = job[j].runs
        <3>1. ASSUME NEW s, Write(c, [job[c] EXCEPT !.status = s])
              PROVE  \A j \in Jobs : job'[j].runs = job[j].runs
            <4>1. [job[c] EXCEPT !.status = s].runs = job[c].runs
                BY <2>1 DEF Rows
            <4>2. QED
                BY <2>1, <3>1, <4>1 DEF Write
        <3>2. CASE Mark(t)
            BY <3>1, <3>2 DEF Mark
        <3>3. CASE Finish(t)
            BY <3>1, <3>3 DEF Finish
        <3>4. QED
            BY <1>1, <3>2, <3>3 DEF CronStep, Begin, Limit, Attempt, Count, Depend
    <2>4. QED
        BY <2>2, <2>3 DEF OnlyFaultsAbandon, NothingCounted
<1>2. ASSUME NEW t \in Threads, NEW p \in Processes, NEW kind \in {"due", "now"},
             NEW j \in Jobs, StartRun(t, p, kind, j)
      PROVE  OnlyFaultsAbandon'
    BY <1>2 DEF StartRun, OnlyFaultsAbandon, NothingCounted
<1>3. ASSUME NEW T, Stop(T) PROVE OnlyFaultsAbandon'
    <2>1. events' # 0
        BY <1>3 DEF Stop, CronTypeOK
    <2>2. QED
        BY <1>3, <2>1 DEF Stop, OnlyFaultsAbandon, NothingCounted
<1>4. ASSUME NEW j \in Jobs, (\E on \in BOOLEAN : Toggle(j, on)) \/ RemoveJob(j)
      PROVE  OnlyFaultsAbandon'
    <2>1. events' # 0
        BY <1>4 DEF Toggle, RemoveJob, CronTypeOK
    <2>2. \A i \in Jobs : job'[i].runs = job[i].runs
        <3>1. ASSUME NEW on \in BOOLEAN, Toggle(j, on)
              PROVE  \A i \in Jobs : job'[i].runs = job[i].runs
            <4>1. job \in [Jobs -> Rows]
                BY DEF CronTypeOK, Rows
            <4>2. job' = [job EXCEPT ![j] = [job[j] EXCEPT !.active = on]]
                BY <3>1 DEF Toggle
            <4>3. [job[j] EXCEPT !.active = on].runs = job[j].runs
                BY <4>1 DEF Rows
            <4>4. QED
                BY <4>1, <4>2, <4>3
        <3>2. QED
            BY <1>4, <3>1 DEF RemoveJob
    <2>3. QED
        BY <2>1, <2>2 DEF OnlyFaultsAbandon, NothingCounted
<1>5. QED
    BY <1>1, <1>2, <1>3, <1>4, CronNextIs

(* Without a fault or an edit, what is shown as running is executed: the   *)
(* exception RunningIsExecuted makes for jobs left behind is for faults    *)
(* only, however often jobs run over their max_runs.                       *)
THEOREM RunningIsTrueHolds == CronSpec => []RunningIsTrue
<1>1. CronInit => OnlyFaultsAbandon
    BY DEF CronInit, OnlyFaultsAbandon, NothingCounted
<1>2. CronTypeOK /\ OnlyFaultsAbandon /\ [CronNext]_cronVars => OnlyFaultsAbandon'
    BY AbandonStep DEF cronVars, OnlyFaultsAbandon, NothingCounted
<1>3. RunInv /\ OnlyFaultsAbandon => RunningIsTrue
    BY DEF RunInv, OnlyFaultsAbandon, RunningIsTrue, Leaves
<1>4. QED
    BY <1>1, <1>2, <1>3, CronTypeCorrect, RunInvariant, PTL DEF CronSpec

=============================================================================
