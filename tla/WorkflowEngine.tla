--------------------------- MODULE WorkflowEngine ---------------------------
(***************************************************************************)
(* One workflow instance of orchestrator/workflow_engine.py: the rows of   *)
(* workflow_instances and workflow_node_instances that every worker        *)
(* process shares, the executor thread run_workflow starts, the review     *)
(* requests (approve_node) with the resume thread each of them starts, the *)
(* operator requests (pause, resume, cancel), and worker processes dying.  *)
(*                                                                         *)
(* Every database call of the code is a transaction of its own, so a       *)
(* "read, test, write" of the code is two steps here.  What a handler      *)
(* computes is abstracted to the three ways it can end.                    *)
(***************************************************************************)
EXTENDS Integers, Sequences, FiniteSets, SequencesExt

CONSTANTS
    Node,       \* the node ids of the definition
    Edge,       \* its edges: records [from, to, cond]
    Outcomes,   \* node -> the ways its handler can end
    OnError,    \* the definition's on_error: "abort", "skip" or "pause"
    Main,       \* the executor thread started by run_workflow
    Request,    \* review requests; the resume thread has its request's name
    Operator,   \* operator requests (pause / resume / cancel)
    Proc,       \* worker processes (gunicorn -w 2)
    Mortal,     \* those that may end while they work
    Home,       \* thread or operator request -> the process that runs it
    None        \* no node, no thread

Thread == Request \cup {Main}

NodeStatus == {"pending", "running", "completed", "failed", "skipped",
               "waiting_approval"}
InstStatus == {"running", "paused", "completed", "failed", "timeout",
               "cancelled"}
Done       == {"completed", "failed", "cancelled", "timeout"}
Condition  == {"success", "failure", "any"}

ASSUME DefinitionAssumption ==
    /\ IsFiniteSet(Node) /\ None \notin Node
    /\ IsFiniteSet(Edge)
    /\ Edge \subseteq [from : Node, to : Node, cond : Condition]
    /\ Outcomes \in [Node -> (SUBSET {"completed", "failed", "waiting_approval"}) \ {{}}]
    /\ OnError \in {"abort", "skip", "pause"}

ASSUME ThreadAssumption ==
    /\ Main \notin Request /\ None \notin Request \cup {Main}
    /\ Operator \cap (Request \cup {Main}) = {}
    /\ Home \in [Request \cup {Main} \cup Operator -> Proc]
    /\ Mortal \subseteq Proc

VARIABLES
    inst,       \* workflow_instances.status
    cur,        \* workflow_instances.current_node_id
    nstat,      \* workflow_node_instances.status, per node
    pc,         \* where each thread is
    item,       \* the node a thread (or a review) is working on
    queue,      \* execution_queue of a thread
    visited,    \* its visited set
    out,        \* its node_outputs, abstracted to the 'status' key
    snap,       \* the pending nodes a rejection still has to skip
    lock,       \* per process: the holder of the instance's _resume_locks entry
    op,         \* per operator: the control call between its read and its write
    did         \* history: what has ever happened to each node

vars == <<inst, cur, nstat, pc, item, queue, visited, out, snap, lock, op, did>>

rows   == <<inst, cur, nstat>>
locals == <<item, queue, visited, out, snap>>

PC == {"idle", "loop", "begin", "handler",                      \* executing
       "finish", "unbound", "expire", "abort", "halt", "suspend", \* closing
       "approve", "resume", "unpause", "spawned", "load", "tally",
       "complete", "deny", "skipRest", "reject", "done"}

Event == {"started", "completed", "failed", "approved", "rejected"}

-----------------------------------------------------------------------------
(* The definition's graph.                                                 *)

Incoming(n) == {e \in Edge : e.to = n}
Outgoing(n) == {e \in Edge : e.from = n}

\* _find_start_nodes: the nodes no edge leads to (all of them without edges)
StartNodes == {n \in Node : Incoming(n) = {}}

\* fault: the edges themselves are queued
TargetsAreEdges(n) == SetToSeqs(Outgoing(n))

\* The targets of n's outgoing edges, one entry per edge.  The order of the
\* definition's node and edge lists is data: every order is possible.
Targets(n) == {[i \in DOMAIN s |-> s[i].to] : s \in SetToSeqs(Outgoing(n))}

\* _check_edge_condition on what thread x knows of the source node
Satisfied(x, e) ==
    CASE e.cond = "success" -> out[x][e.from] # "failed"
      [] e.cond = "failure" -> out[x][e.from] = "failed"
      [] OTHER              -> TRUE

-----------------------------------------------------------------------------

Record(n, event) == did' = [did EXCEPT ![n] = @ \cup {event}]

Goto(x, where) == pc' = [pc EXCEPT ![x] = where]

SetNode(n, status) == nstat' = [nstat EXCEPT ![n] = status]

\* the finally block of _resume_after_approval
Release(x) == lock' = [p \in Proc |-> IF lock[p] = x THEN None ELSE lock[p]]

(* run_workflow has created the instance 'running' with every node 'pending' *)
(* and started the executor on the start nodes.                              *)
Init ==
    /\ inst = "running"
    /\ cur = None
    /\ nstat = [n \in Node |-> "pending"]
    /\ pc = [x \in Thread |-> IF x = Main THEN "loop" ELSE "idle"]
    /\ item = [x \in Thread |-> None]
    /\ \E s \in SetToSeqs(StartNodes) :
          queue = [x \in Thread |-> IF x = Main THEN s ELSE <<>>]
    /\ visited = [x \in Thread |-> {}]
    /\ out = [x \in Thread |-> [n \in Node |-> "absent"]]
    /\ snap = [x \in Thread |-> {}]
    /\ lock = [p \in Proc |-> None]
    /\ op = [o \in Operator |-> "idle"]
    /\ did = [n \in Node |-> {}]

-----------------------------------------------------------------------------
(* The loop shared by _execute_workflow_async and _resume_after_approval.  *)

\* fault: the visited set is not consulted
PopNodeAgain(x) ==
    /\ queue' = [queue EXCEPT ![x] = Tail(@)]
    /\ Goto(x, "begin")
    /\ item' = [item EXCEPT ![x] = Head(queue[x])]
    /\ UNCHANGED <<rows, visited, out, snap, lock, op, did>>

\* popleft, and "if node_id in visited: continue"
PopNode(x) ==
    LET n == Head(queue[x]) IN
    /\ queue' = [queue EXCEPT ![x] = Tail(@)]
    /\ IF n \in visited[x]
       THEN UNCHANGED <<pc, item, visited>>
       ELSE /\ Goto(x, "begin")
            /\ item' = [item EXCEPT ![x] = n]
            /\ visited' = [visited EXCEPT ![x] = @ \cup {n}]
    /\ UNCHANGED <<rows, out, snap, lock, op, did>>

\* the head of the executor's loop; `nodes` is bound by the first iteration
\* only, so leaving before it raises UnboundLocalError
LeaveMainLoop ==
    /\ pc[Main] = "loop"
    /\ queue[Main] = <<>> \/ inst \in Done
    /\ Goto(Main, IF visited[Main] = {} THEN "unbound" ELSE "finish")
    /\ UNCHANGED <<rows, locals, lock, op, did>>

\* time.time() - start_time > timeout_sec
MainTimesOut ==
    /\ pc[Main] = "loop"
    /\ queue[Main] # <<>> /\ inst \notin Done
    /\ Goto(Main, "expire")
    /\ UNCHANGED <<rows, locals, lock, op, did>>

PopMain ==
    /\ pc[Main] = "loop"
    /\ queue[Main] # <<>> /\ inst \notin Done
    /\ PopNode(Main)

\* the resume thread's loop does not look at the instance
PopResumed(r) ==
    /\ pc[r] = "loop"
    /\ queue[r] # <<>>
    /\ PopNode(r)

LeaveResumedLoop(r) ==
    /\ pc[r] = "loop"
    /\ queue[r] = <<>>
    /\ Goto(r, "tally")
    /\ UNCHANGED <<rows, locals, lock, op, did>>

\* only the executor writes current_node_id
MarkCurrent(x) == cur' = IF x = Main THEN item[x] ELSE cur

RunNode(x) ==
    /\ pc[x] = "begin"
    /\ \A e \in Incoming(item[x]) : Satisfied(x, e)
    /\ MarkCurrent(x)
    /\ SetNode(item[x], "running")
    /\ Goto(x, "handler")
    /\ Record(item[x], "started")
    /\ UNCHANGED <<inst, locals, lock, op>>

\* the executor skips a node only for a failed 'success' predecessor and
\* leaves it pending otherwise; the resume thread always skips it
PassOver(x) ==
    LET blocking == {e \in Incoming(item[x]) : ~Satisfied(x, e)} IN
    /\ pc[x] = "begin"
    /\ blocking # {}
    /\ MarkCurrent(x)
    /\ IF x # Main \/ \E e \in blocking : e.cond = "success"
       THEN SetNode(item[x], "skipped")
       ELSE UNCHANGED nstat
    /\ Goto(x, "loop")
    /\ UNCHANGED <<inst, locals, lock, op, did>>

\* fault: only one of the outgoing edges is followed
EnqueueOne(x) ==
    \E s \in Targets(item[x]) :
        queue' = [queue EXCEPT ![x] = IF s = <<>> THEN @ ELSE Append(@, Head(s))]


Enqueue(x) ==
    \E s \in Targets(item[x]) : queue' = [queue EXCEPT ![x] = @ \o s]

HandlerCompletes(x) ==
    /\ pc[x] = "handler"
    /\ "completed" \in Outcomes[item[x]]
    /\ SetNode(item[x], "completed")
    /\ out' = [out EXCEPT ![x][item[x]] = "ok"]
    /\ Record(item[x], "completed")
    /\ Enqueue(x)
    /\ Goto(x, "loop")
    /\ UNCHANGED <<inst, cur, item, visited, snap, lock, op>>

HandlerFails(x) ==
    /\ pc[x] = "handler"
    /\ "failed" \in Outcomes[item[x]]
    /\ SetNode(item[x], "failed")
    /\ out' = [out EXCEPT ![x][item[x]] = "failed"]
    /\ Record(item[x], "failed")
    /\ IF x = Main /\ OnError = "skip"
       THEN Enqueue(x)
       ELSE UNCHANGED queue
    /\ Goto(x, IF x # Main THEN "tally"
               ELSE [abort |-> "abort", skip |-> "loop", pause |-> "halt"][OnError])
    /\ UNCHANGED <<inst, cur, item, visited, snap, lock, op>>

\* fault: the thread goes on below the node without waiting for the review
HandlerAsksAndGoesOn(x) ==
    /\ pc[x] = "handler"
    /\ "waiting_approval" \in Outcomes[item[x]]
    /\ SetNode(item[x], "waiting_approval")
    /\ out' = [out EXCEPT ![x][item[x]] = "ok"]
    /\ Enqueue(x)
    /\ Goto(x, "loop")
    /\ UNCHANGED <<inst, cur, item, visited, snap, lock, op, did>>

\* ApprovalRequiredError, or require_approval_on_error
HandlerAsksApproval(x) ==
    /\ pc[x] = "handler"
    /\ "waiting_approval" \in Outcomes[item[x]]
    /\ SetNode(item[x], "waiting_approval")
    /\ out' = [out EXCEPT ![x][item[x]] = "ok"]
    /\ Goto(x, IF x = Main THEN "suspend" ELSE "tally")
    /\ UNCHANGED <<inst, cur, item, queue, visited, snap, lock, op, did>>

-----------------------------------------------------------------------------
(* approve_node and _resume_after_approval.                                *)

\* the read: only a node that waits for approval can be reviewed
Review(r, n, verdict) ==
    /\ pc[r] = "idle"
    /\ nstat[n] = "waiting_approval"
    /\ Goto(r, verdict)
    /\ item' = [item EXCEPT ![r] = n]
    /\ snap' = [snap EXCEPT ![r] = {m \in Node : nstat[m] = "pending"}]
    /\ UNCHANGED <<rows, queue, visited, out, lock, op, did>>

Approve(r) ==
    /\ pc[r] = "approve"
    /\ SetNode(item[r], "completed")
    /\ Record(item[r], "approved")
    /\ Goto(r, "resume")
    /\ UNCHANGED <<inst, cur, locals, lock, op>>

\* resume_instance: the read, then the write; the resume thread is started
\* whatever it answers
ResumeReads(r) ==
    /\ pc[r] = "resume"
    /\ Goto(r, IF inst = "paused" THEN "unpause" ELSE "spawned")
    /\ UNCHANGED <<rows, locals, lock, op, did>>

ResumeWrites(r) ==
    /\ pc[r] = "unpause"
    /\ inst' = "running"
    /\ Goto(r, "spawned")
    /\ UNCHANGED <<cur, nstat, locals, lock, op, did>>

\* fault: the resume thread does not look at _resume_locks
EnterUnlocked(r) ==
    /\ pc[r] = "spawned"
    /\ lock' = [lock EXCEPT ![Home[r]] = r]
    /\ Goto(r, "load")
    /\ UNCHANGED <<rows, locals, op, did>>

\* _resume_locks: one resume thread per instance in a process
TakeResumeLock(r) ==
    /\ pc[r] = "spawned"
    /\ IF lock[Home[r]] = None
       THEN /\ lock' = [lock EXCEPT ![Home[r]] = r]
            /\ Goto(r, "load")
       ELSE /\ Goto(r, "done")
            /\ UNCHANGED lock
    /\ UNCHANGED <<rows, locals, op, did>>

ResumeFindsCancelled(r) ==
    /\ pc[r] = "load"
    /\ inst = "cancelled"
    /\ Goto(r, "done")
    /\ Release(r)
    /\ UNCHANGED <<rows, locals, op, did>>

\* the approval took longer than timeout_minutes
ApprovalTooLate(r) ==
    /\ pc[r] = "load"
    /\ inst # "cancelled"
    /\ cur \in Node /\ "started" \in did[cur]
    /\ Goto(r, "expire")
    /\ UNCHANGED <<rows, locals, lock, op, did>>

\* fault: the finished nodes are not marked visited
ResumeForgets(r) ==
    LET finished == {n \in Node : nstat[n] = "completed"} IN
    /\ pc[r] = "load"
    /\ inst # "cancelled"
    /\ queue' = [queue EXCEPT ![r] = IF cur \in Node THEN <<cur>> ELSE <<>>]
    /\ visited' = [visited EXCEPT ![r] = {}]
    /\ out' = [out EXCEPT ![r] =
                  [n \in Node |-> IF n \in finished THEN "ok" ELSE "absent"]]
    /\ Goto(r, "loop")
    /\ UNCHANGED <<rows, item, snap, lock, op, did>>

\* node_outputs and visited from the completed nodes, the queue from
\* current_node_id
ResumeLoads(r) ==
    LET finished == {n \in Node : nstat[n] = "completed"} IN
    /\ pc[r] = "load"
    /\ inst # "cancelled"
    /\ queue' = [queue EXCEPT ![r] = IF cur \in Node THEN <<cur>> ELSE <<>>]
    /\ visited' = [visited EXCEPT ![r] = finished]
    /\ out' = [out EXCEPT ![r] =
                  [n \in Node |-> IF n \in finished THEN "ok" ELSE "absent"]]
    /\ Goto(r, "loop")
    /\ UNCHANGED <<rows, item, snap, lock, op, did>>

\* the closing count of a resume thread
Tally(r) ==
    /\ pc[r] = "tally"
    /\ IF \A n \in Node : nstat[n] \in {"completed", "skipped"}
       THEN Goto(r, "complete") /\ UNCHANGED lock
       ELSE Goto(r, "done") /\ Release(r)
    /\ UNCHANGED <<rows, locals, op, did>>

Deny(r) ==
    /\ pc[r] = "deny"
    /\ SetNode(item[r], "failed")
    /\ Record(item[r], "rejected")
    /\ Goto(r, IF snap[r] = {} THEN "reject" ELSE "skipRest")
    /\ UNCHANGED <<inst, cur, locals, lock, op>>

\* the nodes that were pending when the request read them
SkipPending(r) ==
    /\ pc[r] = "skipRest"
    /\ \E n \in snap[r] :
          /\ SetNode(n, "skipped")
          /\ snap' = [snap EXCEPT ![r] = @ \ {n}]
          /\ Goto(r, IF snap[r] = {n} THEN "reject" ELSE "skipRest")
    /\ UNCHANGED <<inst, cur, item, queue, visited, out, lock, op, did>>

-----------------------------------------------------------------------------
(* The last write of a thread or a rejection: unconditional in the code.   *)

CloseStatus ==
    [finish   |-> "completed",  \* after the executor's loop
     unbound  |-> "failed",     \* _fail_instance on UnboundLocalError
     expire   |-> "timeout",    \* _timeout_instance, or the approval timeout
     abort    |-> "failed",     \* on_error = abort
     halt     |-> "paused",     \* on_error = pause
     suspend  |-> "paused",     \* a node waits for approval
     complete |-> "completed",  \* the resume thread found everything done
     reject   |-> "failed"]     \* approve_node, rejected

Close(x) ==
    /\ pc[x] \in DOMAIN CloseStatus
    /\ inst' = CloseStatus[pc[x]]
    /\ Goto(x, "done")
    /\ Release(x)
    /\ UNCHANGED <<cur, nstat, locals, op, did>>

-----------------------------------------------------------------------------
(* pause_instance, resume_instance and cancel_instance of an operator.     *)

ControlFrom == [pause  |-> {"running"},
                resume |-> {"paused"},
                cancel |-> {"running", "paused"}]
ControlTo   == [pause |-> "paused", resume |-> "running", cancel |-> "cancelled"]

ControlReads(o, k) ==
    /\ op[o] = "idle"
    /\ inst \in ControlFrom[k]
    /\ op' = [op EXCEPT ![o] = k]
    /\ UNCHANGED <<rows, pc, locals, lock, did>>

ControlWrites(o) ==
    /\ op[o] # "idle"
    /\ inst' = ControlTo[op[o]]
    /\ op' = [op EXCEPT ![o] = "idle"]
    /\ UNCHANGED <<cur, nstat, pc, locals, lock, did>>

\* A worker process ends (--max-requests, --timeout, a deployment): its daemon
\* threads, its requests in progress and its _resume_locks are gone.
WorkerDies(p) ==
    /\ \E x \in Thread : Home[x] = p /\ pc[x] \notin {"idle", "done"}
    /\ pc' = [x \in Thread |-> IF Home[x] = p /\ pc[x] # "idle" THEN "done" ELSE pc[x]]
    /\ lock' = [lock EXCEPT ![p] = None]
    /\ op' = [o \in Operator |-> IF Home[o] = p THEN "idle" ELSE op[o]]
    /\ UNCHANGED <<rows, locals, did>>

-----------------------------------------------------------------------------

Execute(x) ==
    \/ RunNode(x)
    \/ PassOver(x)
    \/ HandlerCompletes(x)
    \/ HandlerFails(x)
    \/ HandlerAsksApproval(x)
    \/ Close(x)

MainStep == LeaveMainLoop \/ MainTimesOut \/ PopMain \/ Execute(Main)

RequestStep(r) ==
    \/ Approve(r)
    \/ ResumeReads(r)
    \/ ResumeWrites(r)
    \/ TakeResumeLock(r)
    \/ ResumeFindsCancelled(r)
    \/ ApprovalTooLate(r)
    \/ ResumeLoads(r)
    \/ PopResumed(r)
    \/ LeaveResumedLoop(r)
    \/ Tally(r)
    \/ Deny(r)
    \/ SkipPending(r)
    \/ Execute(r)

Next ==
    \/ MainStep
    \/ \E r \in Request : RequestStep(r)
    \/ \E r \in Request, n \in Node, v \in {"approve", "deny"} : Review(r, n, v)
    \/ \E o \in Operator, k \in DOMAIN ControlFrom : ControlReads(o, k)
    \/ \E o \in Operator : ControlWrites(o)
    \/ \E p \in Mortal : WorkerDies(p)

Spec == Init /\ [][Next]_vars

\* Threads are scheduled by the operating system and handlers return: the code
\* bounds them by timeouts.  Nobody has to review, control or kill anything.
Fairness ==
    /\ WF_vars(MainStep)
    /\ \A r \in Request : WF_vars(RequestStep(r))
    /\ \A o \in Operator : WF_vars(ControlWrites(o))

FairSpec == Spec /\ Fairness

-----------------------------------------------------------------------------
(* Properties.                                                             *)

(* Every variable holds a value of its type: the statuses are those of the *)
(* tables' columns and a thread's queue and visited set name nodes only.   *)
TypeOK ==
    /\ inst \in InstStatus
    /\ cur \in Node \cup {None}
    /\ nstat \in [Node -> NodeStatus]
    /\ pc \in [Thread -> PC]
    /\ item \in [Thread -> Node \cup {None}]
    /\ queue \in [Thread -> Seq(Node)]
    /\ visited \in [Thread -> SUBSET Node]
    /\ out \in [Thread -> [Node -> {"absent", "ok", "failed"}]]
    /\ snap \in [Thread -> SUBSET Node]
    /\ lock \in [Proc -> Request \cup {None}]
    /\ op \in [Operator -> {"idle", "pause", "resume", "cancel"}]
    /\ did \in [Node -> SUBSET Event]

Executing(x) == pc[x] \in {"loop", "begin", "handler"}

(* Two threads never walk the graph of one instance at the same time,      *)
(* unless they are resume threads of different processes: the executor of  *)
(* run_workflow has left its loop before a review can start, and           *)
(* _resume_locks admits one resume thread per process.                     *)
ExecutorExclusion ==
    \A x, y \in Thread :
        x # y /\ Executing(x) /\ Executing(y) => Main \notin {x, y} /\ Home[x] # Home[y]

(* A handler runs only for a start node or below a node whose own handler  *)
(* ended first, or that a reviewer approved: no thread, whatever reviews,  *)
(* crashes and rejections it meets, enters the graph in the middle.        *)
EnteredThroughEdges ==
    \A n \in Node : "started" \in did[n] =>
        \/ n \in StartNodes
        \/ \E e \in Incoming(n) : did[e.from] \cap {"completed", "failed", "approved"} # {}

(* The executor leaves its loop with an empty queue only when nothing it   *)
(* should have run is left: behind a completed node a node is still        *)
(* pending only if an edge with condition 'failure' leads to it.           *)
DrainedRunIsComplete ==
    pc[Main] = "finish" /\ queue[Main] = <<>> =>
        \A e \in Edge : nstat[e.from] = "completed" /\ nstat[e.to] = "pending" =>
            \E f \in Incoming(e.to) : f.cond = "failure"

\* somebody approved and somebody rejected the same node: the overlap of two
\* reviews, each between its read and its write
Contested == \E n \in Node : {"approved", "rejected"} \subseteq did[n]

(* The node state machine in the header of workflow_engine.py: a finished  *)
(* node keeps its status and no node returns to pending, through repeated  *)
(* reviews, resume threads of several processes and deaths, except where   *)
(* two reviews of one node overlap and decide differently.                 *)
NodeLifecycle ==
    [][\/ Contested'
       \/ \A n \in Node : nstat'[n] # nstat[n] =>
             nstat'[n] \in CASE nstat[n] = "pending"          -> {"running", "skipped"}
                             [] nstat[n] = "running"          -> {"completed", "failed", "waiting_approval"}
                             [] nstat[n] = "waiting_approval" -> {"completed", "failed"}
                             [] OTHER                         -> {}]_vars

(* Every thread comes to an end, on cyclic definitions too: each of its    *)
(* nodes is executed at most once and _resume_locks never blocks.          *)
ThreadsEnd == \A x \in Thread : pc[x] # "idle" ~> pc[x] = "done"

(* What the docstring of approve_node says of an approval: the workflow    *)
(* resumes, so it ends or waits for somebody again.                        *)
ApprovedWorkflowContinues ==
    (\E n \in Node : nstat[n] = "completed" /\ "approved" \in did[n])
        ~> (inst \in Done \cup {"paused"})

=============================================================================
