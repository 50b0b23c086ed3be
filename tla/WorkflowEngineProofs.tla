------------------------ MODULE WorkflowEngineProofs ------------------------
(***************************************************************************)
(* Proofs about WorkflowEngine, for every definition, number of requests,  *)
(* operators and processes.                                                *)
(***************************************************************************)
EXTENDS WorkflowEngine, TLAPS, FiniteSetTheorems, SequenceTheorems

(* A listing of a finite set is a sequence over the set.                   *)
LEMMA ListingIsSeq ==
    ASSUME NEW S, IsFiniteSet(S), NEW s \in SetToSeqs(S)
    PROVE  s \in Seq(S)
<1>1. Cardinality(S) \in Nat
    BY FS_CardinalityType
<1>2. s \in [1..Cardinality(S) -> S]
    BY DEF SetToSeqs
<1>3. QED
    BY <1>1, <1>2

(* What an executor appends to its queue for node n: targets of edges that *)
(* leave n.                                                                *)
LEMMA TargetsAreSuccessors ==
    ASSUME NEW n \in Node, NEW t \in Targets(n)
    PROVE  /\ t \in Seq(Node)
           /\ \A i \in 1..Len(t) : \E e \in Edge : e.from = n /\ e.to = t[i]
<1>1. Outgoing(n) \subseteq Edge /\ IsFiniteSet(Outgoing(n))
    BY DefinitionAssumption, FS_Subset DEF Outgoing
<1>2. PICK s \in SetToSeqs(Outgoing(n)) : t = [i \in DOMAIN s |-> s[i].to]
    BY DEF Targets
<1>3. s \in Seq(Outgoing(n))
    BY <1>1, ListingIsSeq
<1>4. /\ Len(s) \in Nat /\ DOMAIN s = 1..Len(s)
      /\ \A i \in 1..Len(s) : s[i] \in Outgoing(n)
    BY <1>3
<1>5. \A i \in 1..Len(s) : s[i] \in Edge /\ s[i].from = n /\ s[i].to \in Node
    BY <1>1, <1>4, DefinitionAssumption DEF Outgoing
<1>6. t \in [1..Len(s) -> Node]
    BY <1>2, <1>4, <1>5
<1>7. t \in Seq(Node) /\ Len(t) = Len(s)
    BY <1>4, <1>6
<1>8. \A i \in 1..Len(t) : t[i] = s[i].to
    BY <1>2, <1>4, <1>7
<1>9. QED
    BY <1>5, <1>7, <1>8

LEMMA StartNodesListed ==
    ASSUME NEW s \in SetToSeqs(StartNodes)
    PROVE  s \in Seq(StartNodes) /\ s \in Seq(Node)
<1>1. StartNodes \subseteq Node /\ IsFiniteSet(StartNodes)
    BY DefinitionAssumption, FS_Subset DEF StartNodes
<1>2. QED
    BY <1>1, ListingIsSeq, SeqMonotonic

-----------------------------------------------------------------------------
(* The two ways a thread's queue changes.                                  *)

LEMMA PopNodeType ==
    ASSUME TypeOK, NEW x \in Thread, queue[x] # <<>>, PopNode(x)
    PROVE  TypeOK'
<1>1. Head(queue[x]) \in Node /\ Tail(queue[x]) \in Seq(Node)
    BY HeadTailProperties DEF TypeOK
<1>2. UNCHANGED <<inst, cur, nstat, out, snap, lock, op, did>>
    BY DEF PopNode, rows
<1>3. queue' \in [Thread -> Seq(Node)]
    BY <1>1 DEF TypeOK, PopNode
<1>4. CASE Head(queue[x]) \in visited[x]
    BY <1>2, <1>3, <1>4 DEF TypeOK, PopNode
<1>5. CASE Head(queue[x]) \notin visited[x]
    <2>1. /\ pc' = [pc EXCEPT ![x] = "begin"]
          /\ item' = [item EXCEPT ![x] = Head(queue[x])]
          /\ visited' = [visited EXCEPT ![x] = @ \cup {Head(queue[x])}]
        BY <1>5 DEF PopNode, Goto
    <2>2. /\ pc' \in [Thread -> PC] /\ item' \in [Thread -> Node \cup {None}]
          /\ visited' \in [Thread -> SUBSET Node]
        BY <1>1, <2>1 DEF TypeOK, PC
    <2>3. QED
        BY <1>2, <1>3, <2>2 DEF TypeOK
<1>6. QED
    BY <1>4, <1>5

LEMMA EnqueueType ==
    ASSUME TypeOK, NEW x \in Thread, item[x] \in Node, Enqueue(x)
    PROVE  queue' \in [Thread -> Seq(Node)]
<1>1. PICK t \in Targets(item[x]) : queue' = [queue EXCEPT ![x] = @ \o t]
    BY DEF Enqueue
<1>2. t \in Seq(Node) /\ queue[x] \in Seq(Node)
    BY TargetsAreSuccessors DEF TypeOK
<1>3. queue[x] \o t \in Seq(Node)
    BY <1>2, ConcatProperties
<1>4. QED
    BY <1>1, <1>3 DEF TypeOK

(* While a thread is at a node, or a review is under way, it has one.      *)
ItemOK == \A x \in Thread :
    pc[x] \in {"begin", "handler", "approve", "deny"} => item[x] \in Node

TInv == TypeOK /\ ItemOK

LEMMA InitTInv == Init => TInv
<1> SUFFICES ASSUME Init PROVE TInv
    OBVIOUS
<1>1. PICK s \in SetToSeqs(StartNodes) :
         queue = [x \in Thread |-> IF x = Main THEN s ELSE <<>>]
    BY DEF Init
<1>2. queue \in [Thread -> Seq(Node)]
    BY <1>1, StartNodesListed, EmptySeq
<1>3. QED
    BY <1>2 DEF Init, TInv, TypeOK, ItemOK, InstStatus, NodeStatus, PC, Event

(* The steps of a thread that the executor and the resume threads share.   *)
LEMMA ExecuteTInv ==
    ASSUME TInv, NEW x \in Thread, Execute(x)
    PROVE  TInv'
<1> USE DEF TInv, ItemOK, Goto, SetNode, Record, locals
<1>1. CASE RunNode(x)
    <2>1. item[x] \in Node
        BY <1>1 DEF RunNode
    <2>2. QED
        BY <1>1, <2>1 DEF RunNode, MarkCurrent, TypeOK, NodeStatus, PC, Event
<1>2. CASE PassOver(x)
    <2>1. item[x] \in Node
        BY <1>2 DEF PassOver
    <2>2. QED
        BY <1>2, <2>1 DEF PassOver, MarkCurrent, TypeOK, NodeStatus, PC
<1>3. CASE HandlerCompletes(x)
    <2>1. item[x] \in Node
        BY <1>3 DEF HandlerCompletes
    <2>2. queue' \in [Thread -> Seq(Node)]
        BY <1>3, <2>1, EnqueueType DEF HandlerCompletes
    <2>3. QED
        BY <1>3, <2>1, <2>2 DEF HandlerCompletes, TypeOK, NodeStatus, PC, Event
<1>4. CASE HandlerFails(x)
    <2>1. item[x] \in Node
        BY <1>4 DEF HandlerFails
    <2>2. queue' \in [Thread -> Seq(Node)]
        BY <1>4, <2>1, EnqueueType DEF HandlerFails, TypeOK
    <2>3. pc' \in [Thread -> PC]
        BY <1>4, DefinitionAssumption DEF HandlerFails, TypeOK, PC
    <2>4. \A y \in Thread : pc'[y] \in {"begin", "handler", "approve", "deny"} => pc'[y] = pc[y]
        BY <1>4, DefinitionAssumption DEF HandlerFails, TypeOK
    <2>5. QED
        BY <1>4, <2>1, <2>2, <2>3, <2>4 DEF HandlerFails, TypeOK, NodeStatus, Event
<1>5. CASE HandlerAsksApproval(x)
    <2>1. item[x] \in Node
        BY <1>5 DEF HandlerAsksApproval
    <2>2. QED
        BY <1>5, <2>1 DEF HandlerAsksApproval, TypeOK, NodeStatus, PC
<1>6. CASE Close(x)
    <2>1. CloseStatus[pc[x]] \in InstStatus
        BY <1>6 DEF Close, CloseStatus, InstStatus
    <2>2. lock' \in [Proc -> Request \cup {None}]
        BY <1>6 DEF Close, Release, TypeOK
    <2>3. QED
        BY <1>6, <2>1, <2>2 DEF Close, TypeOK, PC
<1>7. QED
    BY <1>1, <1>2, <1>3, <1>4, <1>5, <1>6 DEF Execute

LEMMA MainTInv ==
    ASSUME TInv, MainStep
    PROVE  TInv'
<1> USE DEF TInv, ItemOK, Goto, locals, rows
<1>1. Main \in Thread
    BY DEF Thread
<1>2. CASE LeaveMainLoop
    BY <1>1, <1>2 DEF LeaveMainLoop, TypeOK, PC
<1>3. CASE MainTimesOut
    BY <1>1, <1>3 DEF MainTimesOut, TypeOK, PC
<1>4. CASE PopMain
    <2>1. TypeOK'
        BY <1>1, <1>4, PopNodeType DEF PopMain
    <2>2. Head(queue[Main]) \in Node
        BY <1>1, <1>4, HeadTailProperties DEF PopMain, TypeOK
    <2>3. QED
        BY <1>1, <1>4, <2>1, <2>2 DEF PopMain, PopNode, TypeOK
<1>5. CASE Execute(Main)
    BY <1>1, <1>5, ExecuteTInv
<1>6. QED
    BY <1>2, <1>3, <1>4, <1>5 DEF MainStep

LEMMA RequestTInv ==
    ASSUME TInv, NEW r \in Request, RequestStep(r)
    PROVE  TInv'
<1> USE DEF TInv, ItemOK, Goto, SetNode, Record, Release, locals, rows
<1>1. r \in Thread /\ Home[r] \in Proc
    BY ThreadAssumption DEF Thread
<1>2. CASE Approve(r)
    BY <1>1, <1>2 DEF Approve, TypeOK, PC, NodeStatus, Event
<1>3. CASE ResumeReads(r)
    BY <1>1, <1>3 DEF ResumeReads, TypeOK, PC
<1>4. CASE ResumeWrites(r)
    BY <1>1, <1>4 DEF ResumeWrites, TypeOK, PC, InstStatus
<1>5. CASE TakeResumeLock(r)
    BY <1>1, <1>5 DEF TakeResumeLock, TypeOK, PC
<1>6. CASE ResumeFindsCancelled(r)
    BY <1>1, <1>6 DEF ResumeFindsCancelled, TypeOK, PC
<1>7. CASE ApprovalTooLate(r)
    BY <1>1, <1>7 DEF ApprovalTooLate, TypeOK, PC
<1>8. CASE ResumeLoads(r)
    <2>1. (IF cur \in Node THEN <<cur>> ELSE <<>>) \in Seq(Node)
        BY EmptySeq
    <2>2. QED
        BY <1>1, <1>8, <2>1 DEF ResumeLoads, TypeOK, PC
<1>9. CASE PopResumed(r)
    <2>1. TypeOK'
        BY <1>1, <1>9, PopNodeType DEF PopResumed
    <2>2. Head(queue[r]) \in Node
        BY <1>1, <1>9, HeadTailProperties DEF PopResumed, TypeOK
    <2>3. QED
        BY <1>1, <1>9, <2>1, <2>2 DEF PopResumed, PopNode, TypeOK
<1>10. CASE LeaveResumedLoop(r)
    BY <1>1, <1>10 DEF LeaveResumedLoop, TypeOK, PC
<1>11. CASE Tally(r)
    BY <1>1, <1>11 DEF Tally, TypeOK, PC
<1>12. CASE Deny(r)
    BY <1>1, <1>12 DEF Deny, TypeOK, PC, NodeStatus, Event
<1>13. CASE SkipPending(r)
    BY <1>1, <1>13 DEF SkipPending, TypeOK, PC, NodeStatus
<1>14. CASE Execute(r)
    BY <1>1, <1>14, ExecuteTInv
<1>15. QED
    BY <1>2, <1>3, <1>4, <1>5, <1>6, <1>7, <1>8, <1>9, <1>10, <1>11, <1>12, <1>13,
       <1>14 DEF RequestStep

LEMMA NextTInv == TInv /\ [Next]_vars => TInv'
<1> SUFFICES ASSUME TInv, [Next]_vars PROVE TInv'
    OBVIOUS
<1> USE DEF TInv, ItemOK, Goto, rows, locals
<1>1. CASE MainStep
    BY <1>1, MainTInv
<1>2. ASSUME NEW r \in Request, RequestStep(r) PROVE TInv'
    BY <1>2, RequestTInv
<1>3. ASSUME NEW r \in Request, NEW n \in Node, NEW v \in {"approve", "deny"}, Review(r, n, v)
      PROVE  TInv'
    BY <1>3 DEF Review, Thread, TypeOK, PC
<1>4. ASSUME NEW o \in Operator, NEW k \in DOMAIN ControlFrom, ControlReads(o, k) PROVE TInv'
    BY <1>4 DEF ControlReads, ControlFrom, TypeOK
<1>5. ASSUME NEW o \in Operator, ControlWrites(o) PROVE TInv'
    BY <1>5 DEF ControlWrites, ControlTo, TypeOK, InstStatus
<1>6. ASSUME NEW p \in Mortal, WorkerDies(p) PROVE TInv'
    BY <1>6, ThreadAssumption DEF WorkerDies, TypeOK, PC
<1>7. CASE UNCHANGED vars
    BY <1>7 DEF vars, TypeOK
<1>8. QED
    BY <1>1, <1>2, <1>3, <1>4, <1>5, <1>6, <1>7 DEF Next

LEMMA TInvHolds == Spec => []TInv
BY InitTInv, NextTInv, PTL DEF Spec

(* Every reachable state is well typed: in particular a queue only ever    *)
(* holds nodes of the definition, whatever the edge list says.             *)
THEOREM TypeCorrect == Spec => []TypeOK
<1>1. TInv => TypeOK
    BY DEF TInv
<1>2. QED
    BY <1>1, TInvHolds, PTL


-----------------------------------------------------------------------------
(* Exclusion of executors.  The executor of run_workflow is past its loop  *)
(* from the moment a node waits for approval, a review starts only from    *)
(* such a node, and a resume thread past its first step holds the lock of  *)
(* its process until its last step.                                        *)

Returned == pc[Main] \in {"suspend", "done"}

Holding == {"load", "loop", "begin", "handler", "tally", "complete", "expire"}

ExclusionInv ==
    /\ \A n \in Node : nstat[n] = "waiting_approval" => Returned
    /\ \A r \in Request : pc[r] # "idle" => Returned
    /\ \A r \in Request : pc[r] \in Holding => lock[Home[r]] = r

LEMMA InitExclusion == Init => ExclusionInv
BY ThreadAssumption DEF Init, ExclusionInv, Returned, Holding, Thread

LEMMA MainExclusion ==
    ASSUME TInv, ExclusionInv, MainStep
    PROVE  ExclusionInv'
<1> USE DEF TInv, ExclusionInv, Returned, Holding, Goto, SetNode, locals, rows
<1>1. Main \in Thread /\ Main \notin Request /\ Request \subseteq Thread
    BY ThreadAssumption DEF Thread
<1>2. CASE LeaveMainLoop \/ MainTimesOut
    BY <1>1, <1>2 DEF LeaveMainLoop, MainTimesOut, TypeOK
<1>3. CASE PopMain
    BY <1>1, <1>3 DEF PopMain, PopNode, TypeOK
<1>4. CASE RunNode(Main) \/ PassOver(Main)
    BY <1>1, <1>4 DEF RunNode, PassOver, TypeOK
<1>5. CASE HandlerCompletes(Main)
    BY <1>1, <1>5 DEF HandlerCompletes, TypeOK
<1>6. CASE HandlerFails(Main)
    BY <1>1, <1>6 DEF HandlerFails, TypeOK
<1>7. CASE HandlerAsksApproval(Main)
    BY <1>1, <1>7 DEF HandlerAsksApproval, TypeOK
<1>8. CASE Close(Main)
    <2>1. pc' = [pc EXCEPT ![Main] = "done"] /\ nstat' = nstat
        BY <1>8 DEF Close
    <2>2. \A r \in Request : lock[Home[r]] = r => lock'[Home[r]] = r
        BY <1>1, <1>8, ThreadAssumption DEF Close, Release
    <2>3. QED
        BY <1>1, <2>1, <2>2 DEF TypeOK
<1>9. QED
    BY <1>2, <1>3, <1>4, <1>5, <1>6, <1>7, <1>8 DEF MainStep, Execute

LEMMA RequestExclusion ==
    ASSUME TInv, ExclusionInv, NEW r \in Request, RequestStep(r)
    PROVE  ExclusionInv'
<1> USE DEF TInv, ExclusionInv, Returned, Holding, Goto, SetNode, locals, rows
<1>1. /\ Main \in Thread /\ Main \notin Request /\ Request \subseteq Thread
      /\ r # Main /\ \A q \in Request : Home[q] \in Proc
      /\ None \notin Request
    BY ThreadAssumption DEF Thread
<1>2. pc[r] # "idle"
    BY DEF RequestStep, Execute, Approve, ResumeReads, ResumeWrites, TakeResumeLock,
       ResumeFindsCancelled, ApprovalTooLate, ResumeLoads, PopResumed, LeaveResumedLoop,
       Tally, Deny, SkipPending, RunNode, PassOver, HandlerCompletes, HandlerFails,
       HandlerAsksApproval, Close, CloseStatus
<1>3. Returned
    BY <1>2
<1>4. SUFFICES /\ pc'[Main] = pc[Main]
               /\ \A q \in Request : pc'[q] \in Holding => lock'[Home[q]] = q
    BY <1>3
<1>5. CASE Approve(r) \/ ResumeReads(r) \/ ResumeWrites(r) \/ Deny(r)
    BY <1>1, <1>5 DEF Approve, ResumeReads, ResumeWrites, Deny, TypeOK
<1>6. CASE TakeResumeLock(r)
    BY <1>1, <1>6 DEF TakeResumeLock, TypeOK
<1>7. CASE ResumeFindsCancelled(r)
    BY <1>1, <1>7 DEF ResumeFindsCancelled, Release, TypeOK
<1>8. CASE ApprovalTooLate(r) \/ ResumeLoads(r) \/ LeaveResumedLoop(r)
    BY <1>1, <1>8 DEF ApprovalTooLate, ResumeLoads, LeaveResumedLoop, TypeOK
<1>9. CASE PopResumed(r)
    BY <1>1, <1>9 DEF PopResumed, PopNode, TypeOK
<1>10. CASE Tally(r)
    BY <1>1, <1>10 DEF Tally, Release, TypeOK
<1>11. CASE SkipPending(r)
    BY <1>1, <1>11 DEF SkipPending, TypeOK
<1>12. CASE RunNode(r) \/ PassOver(r) \/ HandlerCompletes(r) \/ HandlerAsksApproval(r)
    BY <1>1, <1>12 DEF RunNode, PassOver, HandlerCompletes, HandlerAsksApproval, TypeOK
<1>13. CASE HandlerFails(r)
    BY <1>1, <1>13 DEF HandlerFails, TypeOK
<1>14. CASE Close(r)
    BY <1>1, <1>14 DEF Close, Release, TypeOK
<1>15. QED
    BY <1>5, <1>6, <1>7, <1>8, <1>9, <1>10, <1>11, <1>12, <1>13, <1>14
       DEF RequestStep, Execute

LEMMA NextExclusion == TInv /\ ExclusionInv /\ [Next]_vars => ExclusionInv'
<1> SUFFICES ASSUME TInv, ExclusionInv, [Next]_vars PROVE ExclusionInv'
    OBVIOUS
<1> USE DEF TInv, ExclusionInv, Returned, Holding, Goto, rows, locals
<1>1. Main \in Thread /\ Main \notin Request /\ Request \subseteq Thread
    BY ThreadAssumption DEF Thread
<1>2. CASE MainStep
    BY <1>2, MainExclusion
<1>3. ASSUME NEW r \in Request, RequestStep(r) PROVE ExclusionInv'
    BY <1>3, RequestExclusion
<1>4. ASSUME NEW r \in Request, NEW n \in Node, NEW v \in {"approve", "deny"}, Review(r, n, v)
      PROVE  ExclusionInv'
    BY <1>1, <1>4 DEF Review, TypeOK
<1>5. ASSUME NEW o \in Operator, NEW k \in DOMAIN ControlFrom, ControlReads(o, k)
      PROVE  ExclusionInv'
    BY <1>5 DEF ControlReads
<1>6. ASSUME NEW o \in Operator, ControlWrites(o) PROVE ExclusionInv'
    BY <1>6 DEF ControlWrites
<1>7. ASSUME NEW p \in Mortal, WorkerDies(p) PROVE ExclusionInv'
    <2>1. /\ \A x \in Thread : pc'[x] = (IF Home[x] = p /\ pc[x] # "idle" THEN "done" ELSE pc[x])
          /\ lock' = [lock EXCEPT ![p] = None]
          /\ nstat' = nstat
        BY <1>7 DEF WorkerDies
    <2>2. Returned => Returned'
        BY <1>1, <2>1
    <2>3. \A r \in Request : pc'[r] \in Holding => lock'[Home[r]] = r
        BY <1>1, <2>1, ThreadAssumption DEF TypeOK
    <2>4. QED
        BY <1>1, <2>1, <2>2, <2>3
<1>8. CASE UNCHANGED vars
    BY <1>8 DEF vars
<1>9. QED
    BY <1>2, <1>3, <1>4, <1>5, <1>6, <1>7, <1>8 DEF Next

(* At most one thread of a process walks an instance's graph, and none     *)
(* does while the executor of run_workflow is still in its loop, however   *)
(* reviews, operator calls and worker deaths interleave.                   *)
THEOREM Exclusion == Spec => []ExecutorExclusion
<1>1. TInv /\ ExclusionInv => ExecutorExclusion
    BY DEF TInv, ExclusionInv, ExecutorExclusion, Executing, Returned, Holding, Thread
<1>2. QED
    BY <1>1, InitExclusion, NextExclusion, TInvHolds, PTL DEF Spec


-----------------------------------------------------------------------------
(* Entering the graph through its edges.  Everything a thread is about to  *)
(* work on (its queue, its node, current_node_id) is a start node or lies  *)
(* below a node whose handler ended or that was approved; the history only *)
(* grows.                                                                  *)

Reached(h, n) ==
    n \in StartNodes \/ \E e \in Incoming(n) : h[e.from] \cap {"completed", "failed", "approved"} # {}

ReachedInv ==
    /\ \A n \in Node : "started" \in did[n] => Reached(did, n)
    /\ \A x \in Thread : \A i \in 1..Len(queue[x]) : Reached(did, queue[x][i])
    /\ \A x \in Thread : pc[x] \in {"begin", "handler"} => Reached(did, item[x])
    /\ cur \in Node => Reached(did, cur)

History == \A n \in Node : did[n] \subseteq did'[n]

LEMMA ReachedStays ==
    ASSUME History, NEW n, Reached(did, n)
    PROVE  Reached(did', n)
BY DefinitionAssumption DEF History, Reached, Incoming, StartNodes

LEMMA InitReached == Init => ReachedInv
<1> SUFFICES ASSUME Init PROVE ReachedInv
    OBVIOUS
<1>1. PICK s \in SetToSeqs(StartNodes) :
         queue = [x \in Thread |-> IF x = Main THEN s ELSE <<>>]
    BY DEF Init
<1>2. s \in Seq(StartNodes)
    BY StartNodesListed
<1>3. \A x \in Thread : \A i \in 1..Len(queue[x]) : queue[x][i] \in StartNodes
    BY <1>1, <1>2
<1>4. QED
    BY <1>3, DefinitionAssumption DEF Init, ReachedInv, Reached

LEMMA PopNodeReached ==
    ASSUME TInv, ReachedInv, NEW x \in Thread, queue[x] # <<>>, PopNode(x)
    PROVE  ReachedInv'
<1>1. did' = did /\ cur' = cur
    BY DEF PopNode, rows
<1>2. \A n : Reached(did, n) => Reached(did', n)
    BY <1>1 DEF Reached
<1>3. /\ queue[x] \in Seq(Node) /\ Len(queue[x]) \in Nat \ {0}
      /\ Tail(queue[x]) \in Seq(Node) /\ Len(Tail(queue[x])) = Len(queue[x]) - 1
      /\ \A i \in 1..Len(Tail(queue[x])) : Tail(queue[x])[i] = queue[x][i + 1]
    BY HeadTailProperties, EmptySeq DEF TInv, TypeOK
<1>4. Head(queue[x]) = queue[x][1] /\ Reached(did, Head(queue[x]))
    BY <1>3 DEF ReachedInv
<1>5. \A y \in Thread : \A i \in 1..Len(queue'[y]) : Reached(did, queue'[y][i])
    <2>1. queue' = [queue EXCEPT ![x] = Tail(@)]
        BY DEF PopNode
    <2>2. \A i \in 1..Len(Tail(queue[x])) : Reached(did, Tail(queue[x])[i])
        BY <1>3 DEF ReachedInv
    <2>3. QED
        BY <2>1, <2>2 DEF ReachedInv, TInv, TypeOK
<1>6. \A y \in Thread : pc'[y] \in {"begin", "handler"} => Reached(did, item'[y])
    BY <1>4 DEF PopNode, Goto, ReachedInv, TInv, TypeOK
<1>7. QED
    BY <1>1, <1>2, <1>5, <1>6 DEF ReachedInv

(* After a handler of node n ended, the targets of n's edges are reached.  *)
LEMMA EnqueueReached ==
    ASSUME TInv, ReachedInv, NEW x \in Thread, item[x] \in Node, Enqueue(x), History,
           did'[item[x]] \cap {"completed", "failed", "approved"} # {}
    PROVE  \A y \in Thread : \A i \in 1..Len(queue'[y]) : Reached(did', queue'[y][i])
<1>1. PICK t \in Targets(item[x]) : queue' = [queue EXCEPT ![x] = @ \o t]
    BY DEF Enqueue
<1>2. /\ t \in Seq(Node) /\ queue[x] \in Seq(Node)
      /\ \A i \in 1..Len(t) : \E e \in Edge : e.from = item[x] /\ e.to = t[i]
    BY <1>1, TargetsAreSuccessors DEF TInv, TypeOK
<1>3. \A i \in 1..Len(t) : Reached(did', t[i])
    BY <1>2 DEF Reached, Incoming
<1>4. \A y \in Thread : \A i \in 1..Len(queue[y]) : Reached(did', queue[y][i])
    BY ReachedStays DEF ReachedInv
<1>5. /\ Len(queue[x] \o t) = Len(queue[x]) + Len(t)
      /\ Len(queue[x]) \in Nat /\ Len(t) \in Nat
      /\ \A i \in 1..(Len(queue[x]) + Len(t)) :
            (queue[x] \o t)[i] = IF i <= Len(queue[x]) THEN queue[x][i] ELSE t[i - Len(queue[x])]
    BY <1>2, ConcatProperties
<1>6. \A i \in 1..Len(queue[x] \o t) : Reached(did', (queue[x] \o t)[i])
    <2> SUFFICES ASSUME NEW i \in 1..Len(queue[x] \o t)
                 PROVE  Reached(did', (queue[x] \o t)[i])
        OBVIOUS
    <2>1. CASE i <= Len(queue[x])
        <3>1. (queue[x] \o t)[i] = queue[x][i] /\ i \in 1..Len(queue[x])
            BY <1>5, <2>1
        <3>2. QED
            BY <1>4, <3>1 DEF Reached
    <2>2. CASE ~(i <= Len(queue[x]))
        <3>1. /\ (queue[x] \o t)[i] = t[i - Len(queue[x])]
              /\ i - Len(queue[x]) \in 1..Len(t)
            BY <1>5, <2>2
        <3>2. QED
            BY <1>3, <3>1 DEF Reached
    <2>3. QED
        BY <2>1, <2>2
<1>7. \A y \in Thread : queue'[y] = IF y = x THEN queue[x] \o t ELSE queue[y]
    BY <1>1 DEF TInv, TypeOK
<1>8. QED
    BY <1>4, <1>6, <1>7 DEF Reached

LEMMA ExecuteReached ==
    ASSUME TInv, ReachedInv, NEW x \in Thread, Execute(x)
    PROVE  ReachedInv'
<1> USE DEF Goto, SetNode, locals
<1>1. CASE RunNode(x)
    <2>1. item[x] \in Node /\ Reached(did, item[x])
        BY <1>1 DEF RunNode, TInv, ItemOK, ReachedInv
    <2>2. did' = [did EXCEPT ![item[x]] = @ \cup {"started"}]
        BY <1>1 DEF RunNode, Record
    <2>3. History
        BY <2>1, <2>2 DEF History, TInv, TypeOK
    <2>4. \A n : Reached(did, n) => Reached(did', n)
        BY <2>3, ReachedStays
    <2>5. \A n \in Node : "started" \in did'[n] => Reached(did, n)
        BY <2>1, <2>2 DEF ReachedInv, TInv, TypeOK
    <2>6. /\ item' = item /\ queue' = queue /\ cur' \in {cur, item[x]}
          /\ pc' = [pc EXCEPT ![x] = "handler"]
        BY <1>1 DEF RunNode, MarkCurrent
    <2>7. QED
        BY <2>1, <2>4, <2>5, <2>6 DEF ReachedInv, TInv, TypeOK
<1>2. CASE PassOver(x)
    <2>1. Reached(did, item[x]) /\ did' = did
        BY <1>2 DEF PassOver, ReachedInv
    <2>2. \A n : Reached(did, n) => Reached(did', n)
        BY <2>1 DEF Reached
    <2>3. /\ item' = item /\ queue' = queue /\ cur' \in {cur, item[x]}
          /\ pc' = [pc EXCEPT ![x] = "loop"]
        BY <1>2 DEF PassOver, MarkCurrent
    <2>4. QED
        BY <2>1, <2>2, <2>3 DEF ReachedInv, TInv, TypeOK
<1>3. CASE HandlerCompletes(x)
    <2>1. item[x] \in Node /\ did' = [did EXCEPT ![item[x]] = @ \cup {"completed"}]
        BY <1>3 DEF HandlerCompletes, Record, TInv, ItemOK
    <2>2. History /\ did'[item[x]] \cap {"completed", "failed", "approved"} # {}
        BY <2>1 DEF History, TInv, TypeOK
    <2>3. \A n : Reached(did, n) => Reached(did', n)
        BY <2>2, ReachedStays
    <2>4. \A y \in Thread : \A i \in 1..Len(queue'[y]) : Reached(did', queue'[y][i])
        BY <1>3, <2>1, <2>2, EnqueueReached DEF HandlerCompletes
    <2>5. item' = item /\ cur' = cur /\ pc' = [pc EXCEPT ![x] = "loop"]
        BY <1>3 DEF HandlerCompletes
    <2>6. \A n \in Node : "started" \in did'[n] => "started" \in did[n]
        BY <2>1 DEF TInv, TypeOK
    <2>7. QED
        BY <2>3, <2>4, <2>5, <2>6 DEF ReachedInv, TInv, TypeOK
<1>4. CASE HandlerFails(x)
    <2>1. item[x] \in Node /\ did' = [did EXCEPT ![item[x]] = @ \cup {"failed"}]
        BY <1>4 DEF HandlerFails, Record, TInv, ItemOK
    <2>2. History /\ did'[item[x]] \cap {"completed", "failed", "approved"} # {}
        BY <2>1 DEF History, TInv, TypeOK
    <2>3. \A n : Reached(did, n) => Reached(did', n)
        BY <2>2, ReachedStays
    <2>4. \A y \in Thread : \A i \in 1..Len(queue'[y]) : Reached(did', queue'[y][i])
        <3>1. CASE UNCHANGED queue
            BY <2>3, <3>1 DEF ReachedInv, Reached
        <3>2. CASE Enqueue(x)
            BY <2>1, <2>2, <3>2, EnqueueReached
        <3>3. QED
            BY <1>4, <3>1, <3>2 DEF HandlerFails
    <2>5. /\ item' = item /\ cur' = cur
          /\ \A y \in Thread : pc'[y] \in {"begin", "handler"} => pc'[y] = pc[y]
        BY <1>4, DefinitionAssumption DEF HandlerFails, TInv, TypeOK
    <2>6. \A n \in Node : "started" \in did'[n] => "started" \in did[n]
        BY <2>1 DEF TInv, TypeOK
    <2>7. QED
        BY <2>3, <2>4, <2>5, <2>6 DEF ReachedInv
<1>5. CASE HandlerAsksApproval(x) \/ Close(x)
    <2>1. /\ did' = did /\ item' = item /\ cur' = cur /\ queue' = queue
          /\ \A y \in Thread : pc'[y] \in {"begin", "handler"} => pc'[y] = pc[y]
        BY <1>5 DEF HandlerAsksApproval, Close, TInv, TypeOK
    <2>2. QED
        BY <2>1 DEF ReachedInv, Reached
<1>6. QED
    BY <1>1, <1>2, <1>3, <1>4, <1>5 DEF Execute

(* A step that leaves the queues alone, puts no thread at a node and lets  *)
(* the history of starts alone keeps the invariant.                        *)
LEMMA QuietReached ==
    ASSUME ReachedInv, History, UNCHANGED <<cur, queue>>,
           \A n \in Node : "started" \in did'[n] => "started" \in did[n],
           \A y \in Thread : pc'[y] \in {"begin", "handler"} => pc'[y] = pc[y] /\ item'[y] = item[y]
    PROVE  ReachedInv'
<1>1. \A n : Reached(did, n) => Reached(did', n)
    BY ReachedStays
<1>2. QED
    BY <1>1 DEF ReachedInv

LEMMA RequestReached ==
    ASSUME TInv, ReachedInv, NEW r \in Request, RequestStep(r)
    PROVE  ReachedInv'
<1> USE DEF Goto, SetNode, Record, locals, rows
<1>1. r \in Thread
    BY DEF Thread
<1>2. CASE Approve(r) \/ Deny(r)
    <2>1. item[r] \in Node
        BY <1>1, <1>2 DEF Approve, Deny, TInv, ItemOK
    <2>2. PICK v \in {"approved", "rejected"} : did' = [did EXCEPT ![item[r]] = @ \cup {v}]
        BY <1>2 DEF Approve, Deny
    <2>3. /\ History /\ UNCHANGED <<cur, queue, item>>
          /\ \A n \in Node : "started" \in did'[n] => "started" \in did[n]
        BY <1>2, <2>1, <2>2 DEF Approve, Deny, History, TInv, TypeOK
    <2>4. \A y \in Thread : pc'[y] \in {"begin", "handler"} => pc'[y] = pc[y]
        BY <1>1, <1>2 DEF Approve, Deny, TInv, TypeOK
    <2>5. QED
        BY <2>3, <2>4, QuietReached
<1>3. CASE \/ ResumeReads(r) \/ ResumeWrites(r) \/ TakeResumeLock(r) \/ ResumeFindsCancelled(r)
           \/ ApprovalTooLate(r) \/ LeaveResumedLoop(r) \/ Tally(r) \/ SkipPending(r)
    <2>1. UNCHANGED <<cur, queue, item, did>>
        BY <1>3 DEF ResumeReads, ResumeWrites, TakeResumeLock, ResumeFindsCancelled,
           ApprovalTooLate, LeaveResumedLoop, Tally, SkipPending
    <2>2. \A y \in Thread : pc'[y] \in {"begin", "handler"} => pc'[y] = pc[y]
        BY <1>1, <1>3 DEF ResumeReads, ResumeWrites, TakeResumeLock, ResumeFindsCancelled,
           ApprovalTooLate, LeaveResumedLoop, Tally, SkipPending, TInv, TypeOK
    <2>3. QED
        BY <2>1, <2>2, QuietReached DEF History
<1>4. CASE ResumeLoads(r)
    <2>1. /\ did' = did /\ cur' = cur /\ item' = item
          /\ pc' = [pc EXCEPT ![r] = "loop"]
          /\ queue' = [queue EXCEPT ![r] = IF cur \in Node THEN <<cur>> ELSE <<>>]
        BY <1>4 DEF ResumeLoads
    <2>2. \A n : Reached(did, n) => Reached(did', n)
        BY <2>1 DEF Reached
    <2>3. \A y \in Thread : \A i \in 1..Len(queue'[y]) : Reached(did, queue'[y][i])
        BY <1>1, <2>1 DEF ReachedInv, TInv, TypeOK
    <2>4. QED
        BY <1>1, <2>1, <2>2, <2>3 DEF ReachedInv, TInv, TypeOK
<1>5. CASE PopResumed(r)
    BY <1>1, <1>5, PopNodeReached DEF PopResumed
<1>6. CASE Execute(r)
    BY <1>1, <1>6, ExecuteReached
<1>7. QED
    BY <1>2, <1>3, <1>4, <1>5, <1>6 DEF RequestStep

LEMMA NextReached == TInv /\ ReachedInv /\ [Next]_vars => ReachedInv'
<1> SUFFICES ASSUME TInv, ReachedInv, [Next]_vars PROVE ReachedInv'
    OBVIOUS
<1> USE DEF Goto, rows, locals
<1>1. Main \in Thread /\ Request \subseteq Thread
    BY DEF Thread
<1>2. CASE LeaveMainLoop \/ MainTimesOut
    <2>1. /\ UNCHANGED <<cur, queue, item, did>>
          /\ \A y \in Thread : pc'[y] \in {"begin", "handler"} => pc'[y] = pc[y]
        BY <1>1, <1>2 DEF LeaveMainLoop, MainTimesOut, TInv, TypeOK
    <2>2. QED
        BY <2>1, QuietReached DEF History
<1>3. CASE PopMain
    BY <1>1, <1>3, PopNodeReached DEF PopMain
<1>4. CASE Execute(Main)
    BY <1>1, <1>4, ExecuteReached
<1>5. ASSUME NEW r \in Request, RequestStep(r) PROVE ReachedInv'
    BY <1>5, RequestReached
<1>6. ASSUME NEW r \in Request, NEW n \in Node, NEW v \in {"approve", "deny"}, Review(r, n, v)
      PROVE  ReachedInv'
    <2>1. /\ UNCHANGED <<cur, queue, did>>
          /\ \A y \in Thread : pc'[y] \in {"begin", "handler"} =>
                pc'[y] = pc[y] /\ item'[y] = item[y]
        BY <1>1, <1>6 DEF Review, TInv, TypeOK
    <2>2. QED
        BY <2>1, QuietReached DEF History
<1>7. ASSUME NEW o \in Operator, NEW k \in DOMAIN ControlFrom, ControlReads(o, k)
      PROVE  ReachedInv'
    BY <1>7, QuietReached DEF ControlReads, History
<1>8. ASSUME NEW o \in Operator, ControlWrites(o) PROVE ReachedInv'
    BY <1>8, QuietReached DEF ControlWrites, History
<1>9. ASSUME NEW p \in Mortal, WorkerDies(p) PROVE ReachedInv'
    BY <1>9, QuietReached DEF WorkerDies, History
<1>10. CASE UNCHANGED vars
    BY <1>10, QuietReached DEF vars, History
<1>11. QED
    BY <1>2, <1>3, <1>4, <1>5, <1>6, <1>7, <1>8, <1>9, <1>10 DEF Next, MainStep

(* No thread ever enters the graph in the middle: a handler runs only for  *)
(* a start node or below a node whose handler ended or that was approved.  *)
THEOREM EntryThroughEdges == Spec => []EnteredThroughEdges
<1>1. ReachedInv => EnteredThroughEdges
    BY DEF ReachedInv, EnteredThroughEdges, Reached
<1>2. QED
    BY <1>1, InitReached, NextReached, TInvHolds, PTL DEF Spec

-----------------------------------------------------------------------------
(* The executor's walk is complete: what it lists, in its visited set or   *)
(* its queue, contains every successor of a node it completed, and what it *)
(* visited it has run, skipped, or left behind an edge for failures.  Until*)
(* it returned nobody else writes a node.                                  *)

Listed == visited[Main] \cup {queue[Main][i] : i \in 1..Len(queue[Main])}

OnFailure(n) == \E f \in Incoming(n) : f.cond = "failure"

DrainInv == ~Returned =>
    /\ \A e \in Edge : nstat[e.from] = "completed" => e.to \in Listed
    /\ \A n \in visited[Main] : nstat[n] = "pending" =>
          (pc[Main] = "begin" /\ item[Main] = n) \/ OnFailure(n)

(* A listing of a finite set lists all of it.                              *)
LEMMA ListingIsComplete ==
    ASSUME NEW S, IsFiniteSet(S), NEW s \in SetToSeqs(S)
    PROVE  \A v \in S : \E i \in 1..Len(s) : s[i] = v
<1> DEFINE D == 1..Cardinality(S)
<1>1. Cardinality(S) \in Nat
    BY FS_CardinalityType
<1>2. IsFiniteSet(D) /\ Cardinality(D) = Cardinality(S)
    <2>1. /\ IsFiniteSet(1..Cardinality(S))
          /\ Cardinality(1..Cardinality(S)) =
                IF 1 > Cardinality(S) THEN 0 ELSE Cardinality(S) - 1 + 1
        BY <1>1, FS_Interval
    <2>2. QED
        BY <1>1, <2>1
<1>3. s \in [D -> S] /\ \A i, j \in D : i # j => s[i] # s[j]
    BY DEF SetToSeqs
<1> HIDE DEF D
<1>4. s \in Injection(D, S)
    BY <1>3 DEF Injection, IsInjective
<1>5. s \in Surjection(D, S)
    BY <1>2, <1>4, FS_Injection
<1>6. Len(s) = Cardinality(S)
    BY <1>1, <1>3 DEF D
<1>7. QED
    BY <1>5, <1>6 DEF Surjection, D

LEMMA TargetsAreAll ==
    ASSUME NEW n \in Node, NEW t \in Targets(n), NEW e \in Edge, e.from = n
    PROVE  \E i \in 1..Len(t) : t[i] = e.to
<1>1. Outgoing(n) \subseteq Edge /\ IsFiniteSet(Outgoing(n)) /\ e \in Outgoing(n)
    BY DefinitionAssumption, FS_Subset DEF Outgoing
<1>2. PICK s \in SetToSeqs(Outgoing(n)) : t = [i \in DOMAIN s |-> s[i].to]
    BY DEF Targets
<1>3. s \in Seq(Outgoing(n)) /\ \E i \in 1..Len(s) : s[i] = e
    BY <1>1, ListingIsSeq, ListingIsComplete
<1>4. Len(s) \in Nat /\ DOMAIN s = 1..Len(s)
    BY <1>3
<1>5. DOMAIN t = 1..Len(s) /\ Len(t) = Len(s)
    BY <1>2, <1>4
<1>6. QED
    BY <1>2, <1>3, <1>4, <1>5

LEMMA PopDrain ==
    ASSUME TInv, DrainInv, PopMain
    PROVE  DrainInv'
<1> DEFINE q == queue[Main]
           n == Head(q)
<1>1. Main \in Thread /\ pc[Main] = "loop" /\ q # <<>> /\ PopNode(Main)
    BY DEF PopMain, Thread
<1>2. /\ q \in Seq(Node) /\ Len(q) \in Nat \ {0} /\ n = q[1]
      /\ Len(Tail(q)) = Len(q) - 1
      /\ \A i \in 1..Len(Tail(q)) : Tail(q)[i] = q[i + 1]
    BY <1>1, HeadTailProperties, EmptySeq DEF TInv, TypeOK
<1>3. nstat' = nstat /\ queue'[Main] = Tail(q)
    BY <1>1 DEF PopNode, rows, TInv, TypeOK
<1>4. \A i \in 1..Len(q) : q[i] = n \/ \E j \in 1..Len(Tail(q)) : Tail(q)[j] = q[i]
    <2>1. \A i \in 1..Len(q) : i = 1 \/ (i - 1 \in 1..Len(Tail(q)) /\ Tail(q)[i - 1] = q[i])
        BY <1>2
    <2>2. QED
        BY <1>2, <2>1
<1>5. \/ n \in visited[Main] /\ UNCHANGED <<pc, item, visited>>
      \/ /\ n \notin visited[Main] /\ pc'[Main] = "begin" /\ item'[Main] = n
         /\ visited'[Main] = visited[Main] \cup {n}
    BY <1>1 DEF PopNode, Goto, TInv, TypeOK
<1> HIDE DEF q, n
<1>6. Listed \subseteq Listed'
    <2>1. n \in Listed' /\ visited[Main] \subseteq Listed'
        BY <1>5 DEF Listed
    <2>2. \A i \in 1..Len(q) : q[i] \in Listed'
        BY <1>3, <1>4, <2>1 DEF Listed
    <2>3. QED
        BY <2>1, <2>2 DEF Listed, q
<1>7. ~Returned
    BY <1>1 DEF Returned
<1>8. QED
    BY <1>1, <1>3, <1>5, <1>6, <1>7 DEF DrainInv, OnFailure

(* Whatever a handler ends with, the queue keeps what it lists; where the  *)
(* targets are queued, they are listed.                                    *)
LEMMA EnqueueListed ==
    ASSUME TInv, item[Main] \in Node, Enqueue(Main), visited' = visited
    PROVE  /\ Listed \subseteq Listed'
           /\ \A e \in Edge : e.from = item[Main] => e.to \in Listed'
<1> DEFINE q == queue[Main]
<1>1. PICK t \in Targets(item[Main]) : queue' = [queue EXCEPT ![Main] = @ \o t]
    BY DEF Enqueue
<1>2. q \in Seq(Node) /\ t \in Seq(Node) /\ queue'[Main] = q \o t
    BY <1>1, TargetsAreSuccessors DEF TInv, TypeOK, Thread
<1>3. /\ Len(q \o t) = Len(q) + Len(t) /\ Len(q) \in Nat /\ Len(t) \in Nat
      /\ \A i \in 1..(Len(q) + Len(t)) :
            (q \o t)[i] = IF i <= Len(q) THEN q[i] ELSE t[i - Len(q)]
    BY <1>2, ConcatProperties
<1>4. \A i \in 1..Len(q) : i \in 1..Len(q \o t) /\ (q \o t)[i] = q[i]
    BY <1>3
<1>5. \A i \in 1..Len(t) : i + Len(q) \in 1..Len(q \o t) /\ (q \o t)[i + Len(q)] = t[i]
    BY <1>3
<1>6. \A e \in Edge : e.from = item[Main] => \E i \in 1..Len(t) : t[i] = e.to
    BY <1>1, TargetsAreAll
<1> HIDE DEF q
<1>7. Listed \subseteq Listed'
    <2>1. \A i \in 1..Len(q) : q[i] \in Listed'
        BY <1>2, <1>4 DEF Listed
    <2>2. Listed = visited[Main] \cup {q[i] : i \in 1..Len(q)}
        BY DEF Listed, q
    <2>3. QED
        BY <2>1, <2>2 DEF Listed
<1>8. \A i \in 1..Len(t) : t[i] \in Listed'
    BY <1>2, <1>5 DEF Listed
<1>9. QED
    BY <1>6, <1>7, <1>8

LEMMA MainDrain ==
    ASSUME TInv, DrainInv, MainStep
    PROVE  DrainInv'
<1> USE DEF Goto, SetNode, locals, rows
<1>1. Main \in Thread
    BY DEF Thread
<1>2. CASE LeaveMainLoop \/ MainTimesOut
    <2>1. UNCHANGED <<nstat, visited, queue, item>> /\ pc[Main] = "loop"
        BY <1>2 DEF LeaveMainLoop, MainTimesOut
    <2>2. QED
        BY <2>1 DEF DrainInv, Returned, Listed, OnFailure
<1>3. CASE PopMain
    BY <1>3, PopDrain
<1>4. CASE RunNode(Main)
    <2>1. /\ UNCHANGED <<visited, queue, item>> /\ pc[Main] = "begin"
          /\ nstat' = [nstat EXCEPT ![item[Main]] = "running"] /\ item[Main] \in Node
        BY <1>1, <1>4 DEF RunNode, TInv, ItemOK
    <2>2. /\ \A m \in Node : nstat'[m] = "pending" => m # item[Main] /\ nstat[m] = "pending"
          /\ \A m \in Node : nstat'[m] = "completed" => nstat[m] = "completed"
        BY <2>1 DEF TInv, TypeOK
    <2>3. /\ \A e \in Edge : e.from \in Node
          /\ \A m \in visited[Main] : m \in Node
        BY <1>1, DefinitionAssumption DEF TInv, TypeOK
    <2>4. QED
        BY <2>1, <2>2, <2>3 DEF DrainInv, Returned, Listed, OnFailure
<1>5. CASE PassOver(Main)
    <2> DEFINE blocking == {e \in Incoming(item[Main]) : ~Satisfied(Main, e)}
    <2>1. /\ UNCHANGED <<visited, queue, item>> /\ pc[Main] = "begin"
          /\ blocking # {} /\ item[Main] \in Node
          /\ IF \E e \in blocking : e.cond = "success"
             THEN nstat' = [nstat EXCEPT ![item[Main]] = "skipped"] ELSE nstat' = nstat
        BY <1>1, <1>5 DEF PassOver, TInv, ItemOK
    <2>2. nstat'[item[Main]] = "pending" => OnFailure(item[Main])
        <3>1. CASE \E e \in blocking : e.cond = "success"
            BY <2>1, <3>1 DEF TInv, TypeOK
        <3>2. CASE ~ \E e \in blocking : e.cond = "success"
            <4>1. PICK f \in blocking : f.cond # "success"
                BY <2>1, <3>2
            <4>2. f \in Edge /\ f.cond \in Condition
                BY <4>1, DefinitionAssumption DEF Incoming
            <4>3. f.cond = "failure"
                BY <4>1, <4>2 DEF Satisfied, Condition
            <4>4. QED
                BY <4>1, <4>3 DEF OnFailure
        <3>3. QED
            BY <3>1, <3>2
    <2>3. /\ \A m \in Node : nstat'[m] = "pending" => nstat[m] = "pending"
          /\ \A m \in Node : nstat'[m] = "completed" => nstat[m] = "completed"
        BY <2>1 DEF TInv, TypeOK
    <2>4. /\ \A e \in Edge : e.from \in Node
          /\ \A m \in visited[Main] : m \in Node
        BY <1>1, DefinitionAssumption DEF TInv, TypeOK
    <2>5. QED
        BY <2>1, <2>2, <2>3, <2>4 DEF DrainInv, Returned, Listed, OnFailure
<1>6. CASE HandlerCompletes(Main)
    <2>1. /\ UNCHANGED <<visited, item>> /\ pc[Main] = "handler" /\ Enqueue(Main)
          /\ nstat' = [nstat EXCEPT ![item[Main]] = "completed"] /\ item[Main] \in Node
        BY <1>1, <1>6 DEF HandlerCompletes, TInv, ItemOK
    <2>2. /\ Listed \subseteq Listed'
          /\ \A e \in Edge : e.from = item[Main] => e.to \in Listed'
        BY <2>1, EnqueueListed
    <2>3. /\ \A m \in Node : nstat'[m] = "pending" => nstat[m] = "pending"
          /\ \A m \in Node : nstat'[m] = "completed" => m = item[Main] \/ nstat[m] = "completed"
        BY <2>1 DEF TInv, TypeOK
    <2>4. /\ \A e \in Edge : e.from \in Node
          /\ \A m \in visited[Main] : m \in Node
        BY <1>1, DefinitionAssumption DEF TInv, TypeOK
    <2>5. QED
        BY <2>1, <2>2, <2>3, <2>4 DEF DrainInv, Returned, OnFailure
<1>7. CASE HandlerFails(Main)
    <2>1. /\ UNCHANGED <<visited, item>> /\ pc[Main] = "handler"
          /\ (UNCHANGED queue \/ Enqueue(Main))
          /\ nstat' = [nstat EXCEPT ![item[Main]] = "failed"] /\ item[Main] \in Node
        BY <1>1, <1>7 DEF HandlerFails, TInv, ItemOK
    <2>2. Listed \subseteq Listed'
        BY <2>1, EnqueueListed DEF Listed
    <2>3. /\ \A m \in Node : nstat'[m] = "pending" => nstat[m] = "pending"
          /\ \A m \in Node : nstat'[m] = "completed" => nstat[m] = "completed"
        BY <2>1 DEF TInv, TypeOK
    <2>4. /\ \A e \in Edge : e.from \in Node
          /\ \A m \in visited[Main] : m \in Node
        BY <1>1, DefinitionAssumption DEF TInv, TypeOK
    <2>5. QED
        BY <2>1, <2>2, <2>3, <2>4 DEF DrainInv, Returned, OnFailure
<1>8. CASE HandlerAsksApproval(Main) \/ Close(Main)
    BY <1>1, <1>8 DEF HandlerAsksApproval, Close, DrainInv, Returned, TInv, TypeOK
<1>9. QED
    BY <1>2, <1>3, <1>4, <1>5, <1>6, <1>7, <1>8 DEF MainStep, Execute

LEMMA NextDrain == TInv /\ ExclusionInv /\ DrainInv /\ [Next]_vars => DrainInv'
<1> SUFFICES ASSUME TInv, ExclusionInv, DrainInv, [Next]_vars PROVE DrainInv'
    OBVIOUS
<1> USE DEF Goto, rows, locals
<1>1. Main \in Thread /\ Main \notin Request /\ Request \subseteq Thread
    BY ThreadAssumption DEF Thread
<1>2. CASE MainStep
    BY <1>2, MainDrain
<1>3. ASSUME NEW r \in Request, RequestStep(r) PROVE DrainInv'
    <2>1. pc[r] # "idle"
        BY <1>3 DEF RequestStep, Execute, Approve, ResumeReads, ResumeWrites, TakeResumeLock,
           ResumeFindsCancelled, ApprovalTooLate, ResumeLoads, PopResumed, LeaveResumedLoop,
           Tally, Deny, SkipPending, RunNode, PassOver, HandlerCompletes, HandlerFails,
           HandlerAsksApproval, Close, CloseStatus
    <2>2. Returned
        BY <2>1 DEF ExclusionInv
    <2>3. pc'[Main] = pc[Main]
        BY <1>1, <1>3 DEF RequestStep, Execute, Approve, ResumeReads, ResumeWrites, TakeResumeLock,
           ResumeFindsCancelled, ApprovalTooLate, ResumeLoads, PopResumed, PopNode, LeaveResumedLoop,
           Tally, Deny, SkipPending, RunNode, PassOver, HandlerCompletes, HandlerFails,
           HandlerAsksApproval, Close, TInv, TypeOK
    <2>4. QED
        BY <2>2, <2>3 DEF DrainInv, Returned
<1>4. ASSUME NEW r \in Request, NEW n \in Node, NEW v \in {"approve", "deny"}, Review(r, n, v)
      PROVE  DrainInv'
    <2>1. Returned /\ pc'[Main] = pc[Main]
        BY <1>1, <1>4 DEF Review, ExclusionInv, TInv, TypeOK
    <2>2. QED
        BY <2>1 DEF DrainInv, Returned
<1>5. ASSUME NEW o \in Operator, NEW k \in DOMAIN ControlFrom, ControlReads(o, k)
      PROVE  DrainInv'
    BY <1>5 DEF ControlReads, DrainInv, Returned, Listed, OnFailure
<1>6. ASSUME NEW o \in Operator, ControlWrites(o) PROVE DrainInv'
    BY <1>6 DEF ControlWrites, DrainInv, Returned, Listed, OnFailure
<1>7. ASSUME NEW p \in Mortal, WorkerDies(p) PROVE DrainInv'
    <2>1. UNCHANGED <<nstat, visited, queue, item>> /\ pc'[Main] \in {pc[Main], "done"}
        BY <1>1, <1>7 DEF WorkerDies
    <2>2. QED
        BY <2>1 DEF DrainInv, Returned, Listed, OnFailure
<1>8. CASE UNCHANGED vars
    BY <1>8 DEF vars, DrainInv, Returned, Listed, OnFailure
<1>9. QED
    BY <1>2, <1>3, <1>4, <1>5, <1>6, <1>7, <1>8 DEF Next

(* When the executor leaves its loop with an empty queue, every successor  *)
(* of a completed node was run or skipped, or is behind a failure edge.    *)
THEOREM DrainedRunCompletes == Spec => []DrainedRunIsComplete
<1>1. Init => DrainInv
    BY DefinitionAssumption DEF Init, DrainInv, Thread
<1>2. TInv /\ DrainInv => DrainedRunIsComplete
    <2>1. SUFFICES ASSUME TInv, DrainInv, pc[Main] = "finish", queue[Main] = <<>>,
                          NEW e \in Edge, nstat[e.from] = "completed", nstat[e.to] = "pending"
                   PROVE  OnFailure(e.to)
        BY DEF DrainedRunIsComplete, OnFailure
    <2>2. e.to \in visited[Main]
        BY <2>1 DEF DrainInv, Returned, Listed
    <2>3. QED
        BY <2>1, <2>2 DEF DrainInv, Returned
<1>3. QED
    BY <1>1, <1>2, InitExclusion, NextExclusion, NextDrain, TInvHolds, PTL DEF Spec

-----------------------------------------------------------------------------
(* The node state machine.  approve_node reads the status in one           *)
(* transaction and writes in a later one, so reviews of one node overlap:  *)
(* any number of them may be between the two, here and in other processes. *)
(* As long as they do not contradict each other, no schedule, death,       *)
(* timeout or operator call breaks the state machine; once they did, the   *)
(* history says so for good.                                               *)

Reviewing == {"approve", "deny"}

Resuming == {"resume", "unpause", "spawned", "load", "loop", "tally", "complete"}

(* the node the executor stopped at has been decided on                    *)
Approved == cur \in Node /\ nstat[cur] = "completed" /\ "approved" \in did[cur]
Rejected == cur \in Node /\ nstat[cur] = "failed" /\ "rejected" \in did[cur]

(* The executor begins what it has not visited, and whatever left          *)
(* 'pending' it has visited.                                               *)
Walks ==
    /\ Executing(Main) => \A n \in Node : nstat[n] # "pending" => n \in visited[Main]
    /\ pc[Main] = "begin" => nstat[item[Main]] = "pending" /\ item[Main] \in visited[Main]
    /\ pc[Main] = "handler" => nstat[item[Main]] = "running" /\ cur = item[Main]

(* All reviews decide on the node the executor stopped at, and the resume  *)
(* thread finds everything it loaded visited.                              *)
Reviews ==
    \A r \in Request :
        /\ pc[r] \notin {"begin", "handler"}
        /\ pc[r] \in Reviewing =>
              cur \in Node /\ item[r] = cur
                /\ (nstat[cur] = "waiting_approval" \/ Approved \/ Rejected)
        /\ pc[r] \in {"deny", "skipRest"} => \A n \in snap[r] : nstat[n] \in {"pending", "skipped"}
        /\ pc[r] \in Resuming => Approved
        /\ pc[r] = "skipRest" => Rejected
        /\ pc[r] = "loop" => \A i \in 1..Len(queue[r]) : queue[r][i] \in visited[r]

StopsThere == \A n \in Node : nstat[n] = "waiting_approval" => cur = n

LifeInv == Walks /\ Reviews /\ StopsThere

(* What NodeLifecycle says of one step.                                    *)
After(status) ==
    CASE status = "pending"          -> {"running", "skipped"}
      [] status = "running"          -> {"completed", "failed", "waiting_approval"}
      [] status = "waiting_approval" -> {"completed", "failed"}
      [] OTHER                       -> {}

Forward == \A n \in Node : nstat'[n] # nstat[n] => nstat'[n] \in After(nstat[n])

LEMMA ContestStays ==
    ASSUME History, Contested
    PROVE  Contested'
BY DEF History, Contested

LEMMA InitLife == Init => LifeInv
<1> SUFFICES ASSUME Init PROVE LifeInv
    OBVIOUS
<1>1. /\ pc[Main] = "loop" /\ \A r \in Request : pc[r] = "idle"
      /\ \A n \in Node : nstat[n] = "pending"
    BY ThreadAssumption DEF Init, Thread
<1>2. QED
    BY <1>1 DEF LifeInv, Walks, Reviews, StopsThere, Reviewing, Resuming

LEMMA MainLife ==
    ASSUME TInv, ExclusionInv, LifeInv, MainStep
    PROVE  LifeInv' /\ Forward
<1> USE DEF Goto, SetNode, locals, rows
<1>1. Main \in Thread /\ Main \notin Request /\ Request \subseteq Thread
    BY ThreadAssumption DEF Thread
<1>2. CASE Close(Main)
    <2>1. /\ UNCHANGED <<cur, nstat, item, queue, visited, snap, did>>
          /\ pc' = [pc EXCEPT ![Main] = "done"]
        BY <1>2 DEF Close
    <2>2. pc'[Main] = "done" /\ \A r \in Request : pc'[r] = pc[r]
        BY <1>1, <2>1 DEF TInv, TypeOK
    <2>3. QED
        BY <2>1, <2>2 DEF LifeInv, Walks, Executing, Reviews, Approved, Rejected, StopsThere,
       Forward
<1>3. SUFFICES ASSUME Executing(Main), LeaveMainLoop \/ MainTimesOut \/ PopMain
                         \/ RunNode(Main) \/ PassOver(Main) \/ HandlerCompletes(Main)
                         \/ HandlerFails(Main) \/ HandlerAsksApproval(Main)
               PROVE  LifeInv' /\ Forward
    BY <1>2 DEF MainStep, Execute, Executing, LeaveMainLoop, MainTimesOut, PopMain, RunNode,
       PassOver, HandlerCompletes, HandlerFails, HandlerAsksApproval
<1>4. /\ \A r \in Request : pc[r] = "idle"
      /\ \A n \in Node : nstat[n] # "waiting_approval"
    BY <1>3 DEF ExclusionInv, Returned, Executing
<1>5. \A r \in Request : pc'[r] = "idle"
    BY <1>1, <1>3, <1>4 DEF LeaveMainLoop, MainTimesOut, PopMain, PopNode, RunNode, PassOver,
       HandlerCompletes, HandlerFails, HandlerAsksApproval, TInv, TypeOK
<1>6. Reviews'
    BY <1>5 DEF Reviews, Reviewing, Resuming
<1>7. SUFFICES Walks' /\ StopsThere' /\ Forward
    BY <1>6 DEF LifeInv
<1>8. \A n \in Node : nstat[n] # "pending" => n \in visited[Main]
    BY <1>3 DEF LifeInv, Walks
<1>9. CASE LeaveMainLoop \/ MainTimesOut
    <2>1. nstat' = nstat /\ pc'[Main] \notin {"loop", "begin", "handler"}
        BY <1>1, <1>9 DEF LeaveMainLoop, MainTimesOut, TInv, TypeOK
    <2>2. QED
        BY <1>4, <2>1 DEF Walks, Executing, StopsThere, Forward
<1>10. CASE PopMain
    <2> DEFINE n == Head(queue[Main])
    <2>1. n \in Node /\ nstat' = nstat /\ pc[Main] = "loop"
        BY <1>1, <1>10, HeadTailProperties DEF PopMain, PopNode, TInv, TypeOK
    <2>2. \/ UNCHANGED <<pc, visited>>
          \/ /\ n \notin visited[Main] /\ pc'[Main] = "begin" /\ item'[Main] = n
             /\ visited'[Main] = visited[Main] \cup {n}
        BY <1>1, <1>10 DEF PopMain, PopNode, TInv, TypeOK
    <2> HIDE DEF n
    <2>3. QED
        BY <1>4, <1>8, <2>1, <2>2 DEF Walks, Executing, StopsThere, Forward
<1>11. CASE RunNode(Main)
    <2>1. /\ nstat' = [nstat EXCEPT ![item[Main]] = "running"] /\ pc[Main] = "begin"
          /\ pc'[Main] = "handler" /\ cur' = item[Main]
          /\ UNCHANGED <<item, visited>> /\ item[Main] \in Node
        BY <1>1, <1>11 DEF RunNode, MarkCurrent, TInv, TypeOK, ItemOK
    <2>2. nstat[item[Main]] = "pending" /\ item[Main] \in visited[Main]
        BY <2>1 DEF LifeInv, Walks
    <2>3. /\ nstat'[item[Main]] = "running"
          /\ \A n \in Node : n # item[Main] => nstat'[n] = nstat[n]
        BY <2>1 DEF TInv, TypeOK
    <2>4. Forward
        BY <2>2, <2>3 DEF Forward, After
    <2>5. QED
        BY <1>4, <1>8, <2>1, <2>2, <2>3, <2>4 DEF Walks, Executing, StopsThere
<1>12. CASE PassOver(Main)
    <2>1. /\ nstat' = [nstat EXCEPT ![item[Main]] = "skipped"] \/ nstat' = nstat
          /\ pc[Main] = "begin" /\ pc'[Main] = "loop"
          /\ UNCHANGED <<item, visited>> /\ item[Main] \in Node
        BY <1>1, <1>12 DEF PassOver, TInv, TypeOK, ItemOK
    <2>2. nstat[item[Main]] = "pending" /\ item[Main] \in visited[Main]
        BY <2>1 DEF LifeInv, Walks
    <2>3. /\ nstat'[item[Main]] \in {"skipped", nstat[item[Main]]}
          /\ \A n \in Node : n # item[Main] => nstat'[n] = nstat[n]
        BY <2>1 DEF TInv, TypeOK
    <2>4. Forward
        BY <2>2, <2>3 DEF Forward, After
    <2>5. QED
        BY <1>4, <1>8, <2>1, <2>2, <2>3, <2>4 DEF Walks, Executing, StopsThere
<1>13. CASE HandlerCompletes(Main) \/ HandlerFails(Main) \/ HandlerAsksApproval(Main)
    <2>1. PICK v \in {"completed", "failed", "waiting_approval"} :
             nstat' = [nstat EXCEPT ![item[Main]] = v]
        BY <1>13 DEF HandlerCompletes, HandlerFails, HandlerAsksApproval
    <2>2. pc[Main] = "handler" /\ item[Main] \in Node /\ UNCHANGED <<cur, visited>>
        BY <1>1, <1>13 DEF HandlerCompletes, HandlerFails, HandlerAsksApproval, TInv, ItemOK
    <2>3. pc'[Main] \notin {"begin", "handler"}
        BY <1>1, <1>13, DefinitionAssumption
           DEF HandlerCompletes, HandlerFails, HandlerAsksApproval, TInv, TypeOK
    <2>4. nstat[item[Main]] = "running" /\ cur = item[Main]
        BY <2>2 DEF LifeInv, Walks
    <2>5. /\ nstat'[item[Main]] = v
          /\ \A n \in Node : n # item[Main] => nstat'[n] = nstat[n]
        BY <2>1, <2>2 DEF TInv, TypeOK
    <2>6. Forward
        BY <2>1, <2>4, <2>5 DEF Forward, After
    <2>7. item[Main] \in visited[Main]
        BY <1>8, <2>2, <2>4
    <2>8. QED
        BY <1>4, <1>8, <2>2, <2>3, <2>4, <2>5, <2>6, <2>7 DEF Walks, Executing, StopsThere
<1>14. QED
    BY <1>3, <1>9, <1>10, <1>11, <1>12, <1>13

(* A step of a request that writes no node and leaves a state in which the *)
(* executor has returned.                                                  *)
LEMMA QuietLife ==
    ASSUME TInv, LifeInv, Returned, NEW r \in Request, UNCHANGED <<cur, nstat, item, snap, did>>,
           \A x \in Thread \ {r} : pc'[x] = pc[x],
           \A x \in Thread \ {r} : queue'[x] = queue[x] /\ visited'[x] = visited[x],
           pc'[r] \notin {"begin", "handler", "approve", "deny", "skipRest"},
           pc'[r] \in Resuming => pc[r] \in Resuming,
           pc'[r] = "loop" => \A i \in 1..Len(queue'[r]) : queue'[r][i] \in visited'[r]
    PROVE  LifeInv' /\ Forward
<1>1. Main \in Thread \ {r} /\ Request \subseteq Thread
    BY ThreadAssumption DEF Thread
<1>2. pc'[Main] \in {"suspend", "done"}
    BY <1>1 DEF Returned
<1>3. Walks' /\ StopsThere' /\ Forward
    BY <1>2 DEF LifeInv, Walks, Executing, StopsThere, Forward
<1>4. Reviews'
    BY <1>1 DEF LifeInv, Reviews, Reviewing, Approved, Rejected
<1>5. QED
    BY <1>3, <1>4 DEF LifeInv

LEMMA RequestLife ==
    ASSUME TInv, ExclusionInv, LifeInv, ~Contested', NEW r \in Request, RequestStep(r)
    PROVE  LifeInv' /\ Forward
<1> USE DEF Goto, SetNode, locals, rows
<1>1. /\ Main \in Thread /\ Main # r /\ r \in Thread /\ Request \subseteq Thread
      /\ Main \notin Request
    BY ThreadAssumption DEF Thread
<1>2. pc[r] # "idle"
    BY DEF RequestStep, Execute, Approve, ResumeReads, ResumeWrites, TakeResumeLock,
       ResumeFindsCancelled, ApprovalTooLate, ResumeLoads, PopResumed, LeaveResumedLoop,
       Tally, Deny, SkipPending, RunNode, PassOver, HandlerCompletes, HandlerFails,
       HandlerAsksApproval, Close, CloseStatus
<1>3. Returned
    BY <1>2 DEF ExclusionInv
<1>4. pc[r] \notin {"begin", "handler"}
    BY DEF LifeInv, Reviews
<1>5. CASE ResumeReads(r) \/ ResumeWrites(r) \/ TakeResumeLock(r) \/ ResumeFindsCancelled(r)
           \/ ApprovalTooLate(r) \/ LeaveResumedLoop(r) \/ Tally(r)
    <2>1. UNCHANGED <<cur, nstat, item, snap, queue, visited, did>>
        BY <1>5 DEF ResumeReads, ResumeWrites, TakeResumeLock, ResumeFindsCancelled,
           ApprovalTooLate, LeaveResumedLoop, Tally
    <2>2. /\ pc[r] \in Resuming /\ pc' = [pc EXCEPT ![r] = pc'[r]]
          /\ pc'[r] \in {"unpause", "spawned", "load", "done", "expire", "tally", "complete"}
        BY <1>1, <1>5 DEF ResumeReads, ResumeWrites, TakeResumeLock, ResumeFindsCancelled,
           ApprovalTooLate, LeaveResumedLoop, Tally, Resuming, TInv, TypeOK
    <2>3. \A x \in Thread \ {r} : pc'[x] = pc[x]
        BY <2>2 DEF TInv, TypeOK
    <2>4. QED
        BY <1>3, <2>1, <2>2, <2>3, QuietLife
<1>6. CASE ResumeLoads(r)
    <2>1. /\ UNCHANGED <<cur, nstat, item, snap, did>> /\ pc[r] = "load"
          /\ pc' = [pc EXCEPT ![r] = "loop"]
          /\ queue' = [queue EXCEPT ![r] = IF cur \in Node THEN <<cur>> ELSE <<>>]
          /\ visited' = [visited EXCEPT ![r] = {n \in Node : nstat[n] = "completed"}]
        BY <1>6 DEF ResumeLoads
    <2>2. cur \in Node /\ nstat[cur] = "completed"
        BY <2>1 DEF LifeInv, Reviews, Resuming, Approved
    <2>3. queue'[r] = <<cur>> /\ visited'[r] = {n \in Node : nstat[n] = "completed"}
        BY <1>1, <2>1, <2>2 DEF TInv, TypeOK
    <2>4. \A i \in 1..Len(queue'[r]) : queue'[r][i] \in visited'[r]
        BY <2>2, <2>3
    <2>5. /\ pc'[r] = "loop"
          /\ \A x \in Thread \ {r} : pc'[x] = pc[x] /\ queue'[x] = queue[x] /\ visited'[x] = visited[x]
        BY <1>1, <2>1 DEF TInv, TypeOK
    <2>6. QED
        BY <1>3, <2>1, <2>4, <2>5, QuietLife DEF Resuming
<1>7. CASE PopResumed(r)
    <2> DEFINE q == queue[r]
    <2>1. /\ pc[r] = "loop" /\ q # <<>> /\ q \in Seq(Node) /\ PopNode(r)
          /\ \A i \in 1..Len(q) : q[i] \in visited[r]
        BY <1>1, <1>7 DEF PopResumed, LifeInv, Reviews, TInv, TypeOK
    <2>2. /\ Len(q) \in Nat \ {0} /\ Head(q) = q[1] /\ Len(Tail(q)) = Len(q) - 1
          /\ \A i \in 1..Len(Tail(q)) : Tail(q)[i] = q[i + 1]
        BY <2>1, HeadTailProperties, EmptySeq
    <2>3. Head(q) \in visited[r] /\ \A i \in 1..Len(Tail(q)) : Tail(q)[i] \in visited[r]
        <3>1. \A i \in 1..Len(Tail(q)) : i + 1 \in 1..Len(q)
            BY <2>2
        <3>2. QED
            BY <2>1, <2>2, <3>1
    <2>4. UNCHANGED <<cur, nstat, pc, item, visited, snap, did>> /\ queue' = [queue EXCEPT ![r] = Tail(q)]
        BY <2>1, <2>3 DEF PopNode
    <2>5. queue'[r] = Tail(q) /\ \A x \in Thread \ {r} : queue'[x] = queue[x]
        BY <1>1, <2>4 DEF TInv, TypeOK
    <2>6. QED
        BY <1>3, <2>1, <2>3, <2>4, <2>5, QuietLife
<1>8. CASE Execute(r)
    <2>1. Close(r)
        BY <1>4, <1>8 DEF Execute, RunNode, PassOver, HandlerCompletes, HandlerFails,
           HandlerAsksApproval
    <2>2. UNCHANGED <<cur, nstat, item, snap, queue, visited, did>> /\ pc' = [pc EXCEPT ![r] = "done"]
        BY <2>1 DEF Close
    <2>3. pc'[r] = "done" /\ \A x \in Thread \ {r} : pc'[x] = pc[x]
        BY <1>1, <2>2 DEF TInv, TypeOK
    <2>4. QED
        BY <1>3, <2>2, <2>3, QuietLife DEF Resuming
<1>9. ASSUME Approve(r) \/ Deny(r) \/ SkipPending(r) PROVE LifeInv' /\ Forward
    <2>1. /\ pc' = [pc EXCEPT ![r] = pc'[r]] /\ UNCHANGED <<cur, item, queue, visited>>
          /\ \A x \in Thread \ {r} : pc'[x] = pc[x] /\ snap'[x] = snap[x]
        BY <1>1, <1>9 DEF Approve, Deny, SkipPending, TInv, TypeOK
    <2>2. pc'[Main] \in {"suspend", "done"}
        BY <1>1, <1>3, <2>1 DEF Returned
    <2>3. Walks'
        BY <2>2 DEF Walks, Executing
    <2>4. CASE Approve(r) \/ Deny(r)
        <3>1. /\ pc[r] \in Reviewing /\ item[r] = cur /\ cur \in Node /\ cur' = cur
              /\ nstat[cur] = "waiting_approval" \/ Approved \/ Rejected
            BY <2>1, <2>4 DEF Approve, Deny, Reviewing, LifeInv, Reviews
        <3>2. \/ /\ nstat' = [nstat EXCEPT ![cur] = "completed"]
                 /\ did' = [did EXCEPT ![cur] = @ \cup {"approved"}] /\ pc'[r] = "resume"
              \/ /\ nstat' = [nstat EXCEPT ![cur] = "failed"] /\ pc[r] = "deny"
                 /\ did' = [did EXCEPT ![cur] = @ \cup {"rejected"}]
                 /\ pc'[r] \in {"reject", "skipRest"}
            BY <1>1, <2>4, <3>1 DEF Approve, Deny, Record, TInv, TypeOK
        <3>3. /\ \/ nstat'[cur] = "completed" /\ "approved" \in did'[cur] /\ pc'[r] = "resume"
                 \/ /\ nstat'[cur] = "failed" /\ "rejected" \in did'[cur] /\ pc[r] = "deny"
                    /\ pc'[r] \in {"reject", "skipRest"}
              /\ \A n \in Node : n # cur => nstat'[n] = nstat[n]
              /\ did[cur] \subseteq did'[cur]
            BY <3>1, <3>2 DEF TInv, TypeOK
        <3>4. /\ Rejected => nstat'[cur] = "failed"
              /\ Approved => nstat'[cur] = "completed"
            BY <3>1, <3>3 DEF Approved, Rejected, Contested
        <3>5. Forward
            BY <3>1, <3>3, <3>4 DEF Forward, After, Approved, Rejected
        <3>6. StopsThere'
            BY <3>1, <3>3 DEF LifeInv, StopsThere
        <3>7. Approved' \/ Rejected'
            BY <3>1, <3>3 DEF Approved, Rejected
        <3>8. /\ Approved => Approved'
              /\ Rejected => Rejected'
            BY <3>1, <3>3, <3>4 DEF Approved, Rejected
        <3>9. ASSUME NEW s \in Request, pc[s] \in {"deny", "skipRest"}, NEW n \in snap[s]
              PROVE  nstat'[n] \in {"pending", "skipped"}
            <4>1. n \in Node /\ nstat[n] \in {"pending", "skipped"}
                BY <1>1, <3>9 DEF LifeInv, Reviews, TInv, TypeOK
            <4>2. n # cur
                BY <3>1, <4>1 DEF Approved, Rejected
            <4>3. QED
                BY <3>3, <4>1, <4>2
        <3>10. /\ snap' = snap /\ pc'[r] \in {"resume", "reject", "skipRest"}
               /\ pc'[r] = "resume" => Approved'
               /\ pc'[r] = "skipRest" => Rejected' /\ pc[r] = "deny"
            BY <2>4, <3>1, <3>3 DEF Approve, Deny, Approved, Rejected
        <3>11. ASSUME NEW s \in Request, s # r
               PROVE  pc'[s] = pc[s] /\ queue'[s] = queue[s] /\ visited'[s] = visited[s]
                      /\ item'[s] = item[s]
            BY <1>1, <2>1, <3>11
        <3>12. Reviews'
            BY <3>1, <3>7, <3>8, <3>9, <3>10, <3>11 DEF LifeInv, Reviews, Reviewing, Resuming
        <3>13. QED
            BY <2>3, <3>5, <3>6, <3>12 DEF LifeInv
    <2>5. CASE SkipPending(r)
        <3>1. PICK n \in snap[r] :
                 /\ nstat' = [nstat EXCEPT ![n] = "skipped"]
                 /\ snap' = [snap EXCEPT ![r] = @ \ {n}]
                 /\ pc'[r] \in {"reject", "skipRest"}
            BY <1>1, <2>5 DEF SkipPending, TInv, TypeOK
        <3>2. /\ n \in Node /\ nstat[n] \in {"pending", "skipped"} /\ snap'[r] = snap[r] \ {n}
              /\ pc[r] = "skipRest" /\ Rejected /\ cur' = cur /\ did' = did
            BY <1>1, <2>5, <3>1 DEF SkipPending, LifeInv, Reviews, TInv, TypeOK
        <3>3. nstat'[n] = "skipped" /\ \A m \in Node : m # n => nstat'[m] = nstat[m]
            BY <3>1, <3>2 DEF TInv, TypeOK
        <3>4. Forward
            BY <3>2, <3>3 DEF Forward, After
        <3>5. StopsThere'
            BY <3>2, <3>3 DEF LifeInv, StopsThere
        <3>6. Rejected' /\ ~Approved
            BY <3>2, <3>3 DEF Approved, Rejected
        <3>7. ASSUME NEW s \in Request, pc[s] \in {"deny", "skipRest"}, NEW m \in snap'[s]
              PROVE  nstat'[m] \in {"pending", "skipped"}
            <4>1. m \in snap[s] /\ s \in Thread
                BY <1>1, <2>1, <3>2, <3>7
            <4>2. m \in Node /\ nstat[m] \in {"pending", "skipped"}
                BY <1>1, <3>7, <4>1 DEF LifeInv, Reviews, TInv, TypeOK
            <4>3. QED
                BY <3>3, <4>2
        <3>8. ASSUME NEW s \in Request, s # r
              PROVE  pc'[s] = pc[s] /\ queue'[s] = queue[s] /\ visited'[s] = visited[s]
                     /\ item'[s] = item[s]
            BY <1>1, <2>1, <3>8
        <3>9. Reviews'
            BY <3>1, <3>2, <3>6, <3>7, <3>8 DEF LifeInv, Reviews, Reviewing, Resuming
        <3>10. QED
            BY <2>3, <3>4, <3>5, <3>9 DEF LifeInv
    <2>6. QED
        BY <1>9, <2>4, <2>5
<1>10. QED
    BY <1>5, <1>6, <1>7, <1>8, <1>9 DEF RequestStep

LEMMA NextHistory == TInv /\ [Next]_vars => History
<1> SUFFICES ASSUME TInv, [Next]_vars PROVE History
    OBVIOUS
<1>1. UNCHANGED did \/ \E x \in Thread, v \in Event : item[x] \in Node /\ Record(item[x], v)
    <2> USE DEF locals, TInv, ItemOK, Event, Thread
    <2>1. CASE MainStep
        BY <2>1 DEF MainStep, LeaveMainLoop, MainTimesOut, PopMain, PopNode, Execute, RunNode,
           PassOver, HandlerCompletes, HandlerFails, HandlerAsksApproval, Close
    <2>2. ASSUME NEW r \in Request, RequestStep(r)
          PROVE  UNCHANGED did \/ \E x \in Thread, v \in Event : item[x] \in Node /\ Record(item[x], v)
        <3>1. CASE Execute(r) \/ Approve(r) \/ Deny(r)
            BY <3>1 DEF Execute, RunNode, PassOver, HandlerCompletes, HandlerFails,
               HandlerAsksApproval, Close, Approve, Deny
        <3>2. CASE ~(Execute(r) \/ Approve(r) \/ Deny(r))
            BY <2>2, <3>2 DEF RequestStep, ResumeReads, ResumeWrites, TakeResumeLock,
               ResumeFindsCancelled, ApprovalTooLate, ResumeLoads, PopResumed, PopNode,
               LeaveResumedLoop, Tally, SkipPending
        <3>3. QED
            BY <3>1, <3>2
    <2>3. QED
        BY <2>1, <2>2 DEF Next, Review, ControlReads, ControlWrites, WorkerDies, vars
<1>2. QED
    BY <1>1 DEF Record, History, TInv, TypeOK

LEMMA NextLife ==
    ASSUME TInv, ExclusionInv, LifeInv, ~Contested', [Next]_vars
    PROVE  LifeInv' /\ Forward
<1> USE DEF Goto, rows, locals
<1>1. Main \in Thread /\ Main \notin Request /\ Request \subseteq Thread
    BY ThreadAssumption DEF Thread
<1>2. CASE MainStep
    BY <1>2, MainLife
<1>3. ASSUME NEW r \in Request, RequestStep(r) PROVE LifeInv' /\ Forward
    BY <1>3, RequestLife
<1>4. ASSUME NEW r \in Request, NEW n \in Node, NEW v \in {"approve", "deny"}, Review(r, n, v)
      PROVE  LifeInv' /\ Forward
    <2>1. Returned /\ r \in Thread
        BY <1>1, <1>4 DEF Review, ExclusionInv
    <2>2. /\ UNCHANGED <<cur, nstat, queue, visited, did>>
          /\ \A x \in Thread \ {r} : pc'[x] = pc[x] /\ item'[x] = item[x] /\ snap'[x] = snap[x]
          /\ pc'[r] = v /\ item'[r] = n /\ snap'[r] = {m \in Node : nstat[m] = "pending"}
          /\ nstat[n] = "waiting_approval"
        BY <1>1, <1>4 DEF Review, TInv, TypeOK
    <2>3. Forward /\ StopsThere' /\ Walks'
        BY <1>1, <2>1, <2>2 DEF LifeInv, Forward, StopsThere, Walks, Executing, Returned
    <2>4. Reviews'
        BY <1>1, <2>2 DEF LifeInv, Reviews, StopsThere, Reviewing, Resuming, Approved, Rejected
    <2>5. QED
        BY <2>3, <2>4 DEF LifeInv
<1>5. ASSUME NEW o \in Operator, NEW k \in DOMAIN ControlFrom, ControlReads(o, k)
      PROVE  LifeInv' /\ Forward
    BY <1>5 DEF ControlReads, LifeInv, Walks, Executing, Reviews, Approved, Rejected, StopsThere,
       Forward
<1>6. ASSUME NEW o \in Operator, ControlWrites(o) PROVE LifeInv' /\ Forward
    BY <1>6 DEF ControlWrites, LifeInv, Walks, Executing, Reviews, Approved, Rejected, StopsThere,
       Forward
<1>7. ASSUME NEW p \in Mortal, WorkerDies(p) PROVE LifeInv' /\ Forward
    <2>1. /\ UNCHANGED <<cur, nstat, item, queue, visited, snap, did>>
          /\ \A x \in Thread : pc'[x] \in {pc[x], "done"}
        BY <1>7 DEF WorkerDies
    <2>2. Walks' /\ StopsThere' /\ Forward
        BY <1>1, <2>1 DEF LifeInv, Walks, Executing, StopsThere, Forward
    <2>3. Reviews'
        BY <1>1, <2>1 DEF LifeInv, Reviews, Reviewing, Resuming, Approved, Rejected
    <2>4. QED
        BY <2>2, <2>3 DEF LifeInv
<1>8. CASE UNCHANGED vars
    BY <1>8 DEF vars, LifeInv, Walks, Executing, Reviews, Approved, Rejected, StopsThere,
       Forward
<1>9. QED
    BY <1>2, <1>3, <1>4, <1>5, <1>6, <1>7, <1>8 DEF Next

(* A finished node keeps its status and no node returns to pending, for    *)
(* any number of reviews in any number of processes, as long as no node    *)
(* has been both approved and rejected.                                    *)
THEOREM NodesGoForward == Spec => NodeLifecycle
<1>1. TInv /\ ExclusionInv /\ (Contested \/ LifeInv) /\ [Next]_vars =>
          (Contested \/ LifeInv)' /\ [Contested' \/ Forward]_vars
    BY NextHistory, ContestStays, NextLife
<1>2. [Contested' \/ Forward]_vars =>
      [\/ Contested'
       \/ \A n \in Node : nstat'[n] # nstat[n] =>
             nstat'[n] \in CASE nstat[n] = "pending"          -> {"running", "skipped"}
                             [] nstat[n] = "running"          -> {"completed", "failed", "waiting_approval"}
                             [] nstat[n] = "waiting_approval" -> {"completed", "failed"}
                             [] OTHER                         -> {}]_vars
    BY DEF Forward, After
<1>3. Init => Contested \/ LifeInv
    BY InitLife
<1>4. QED
    BY <1>1, <1>2, <1>3, InitExclusion, NextExclusion, TInvHolds, PTL DEF Spec, NodeLifecycle

=============================================================================
