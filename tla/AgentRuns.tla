------------------------------ MODULE AgentRuns ------------------------------
(***************************************************************************)
(* One agent run: the ReAct loop of agent_matrix/agent_runner.py           *)
(* (iter_react) with its gates, its checkpoint file, and the registry      *)
(* through which another request cancels it (agent_matrix/routes.py).  The *)
(* run is executed once by /agent/stream, or by a sub-agent, and again by  *)
(* /agent/resume from its checkpoint; nothing keeps two executions apart.  *)
(*                                                                         *)
(* What the model answers and whether a gate fires is the environment's    *)
(* choice.  The transcript keeps the structure of the messages: a batch of *)
(* tool calls, their results, and what compaction left of earlier batches. *)
(* Texts and the hints the loop injects between batches are left out, and  *)
(* each write of the checkpoint (a temporary file, renamed) is atomic.     *)
(***************************************************************************)
EXTENDS Integers, Sequences, FiniteSets

CONSTANTS
    Processes,      \* worker processes of the admin site
    Home,           \* the one that serves the first execution
    MaxExecutions,  \* bound: the first execution of the run and its resumes
    MaxRounds,      \* max_rounds
    MaxCalls,       \* bound: tool calls in one answer of the model
    KeepRecent,     \* keep_recent: units that compaction never drops
    Threshold,      \* failures that trip the FailureBreaker
    MaxCancels,     \* bound: calls of /agent/cancel
    MaxFaults       \* bound: exceptions, disconnects, crashes

NoProcess == "no process"

ASSUME AgentAssumption ==
    /\ Home \in Processes /\ NoProcess \notin Processes
    /\ MaxExecutions \in Nat /\ MaxRounds \in Nat /\ MaxCalls \in Nat \ {0}
    /\ KeepRecent \in Nat \ {0} /\ Threshold \in Nat \ {0}
    /\ MaxCancels \in Nat /\ MaxFaults \in Nat

Executions == 1..MaxExecutions

VARIABLES
    exe,        \* exe[e]: the state of an execution; history: `asked` when it ran
                \* as a cancel was answered, `deaf` when its registration or
                \* its polling failed
    checkpoint, \* data/agent_runs/<run_id>.json
    registry,   \* registry[p]: the entry of _STREAM_RUNS and _STREAM_STOP
    row,        \* the row of agent_stream_runs
    request,    \* the process whose /agent/cancel has yet to write the row
    batches,    \* answers with tool calls so far
    cancels,    \* calls of /agent/cancel
    faults,     \* faults so far
    ran,        \* history: the tool calls that were executed
    lost,       \* history: batches dropped with an execution or a failed save
    stale,      \* history: a crash or a failed cleanup left something behind
    solo        \* history: no two executions of the run overlapped

history == <<ran, lost, stale, solo>>
vars == <<exe, checkpoint, registry, row, request, batches, cancels, faults, history>>

NoExecution == 0
NoRow == [exists |-> FALSE, cancel |-> FALSE]

\* Messages: the user's query, an answer with tool calls, the result of a
\* call, and the note that stands for the batches that compaction dropped.
Query == [kind |-> "query"]
Ask(b, n) == [kind |-> "call", batch |-> b, calls |-> n]
Result(b, i, how) == [kind |-> "result", batch |-> b, call |-> i, how |-> how]
Summary(B) == [kind |-> "summary", stands |-> B]
Results(b, how) == [i \in DOMAIN how |-> Result(b, i, how[i])]

Batches(msgs) ==
    UNION {CASE msgs[i].kind = "call" -> {msgs[i].batch}
             [] msgs[i].kind = "summary" -> msgs[i].stands
             [] OTHER -> {} : i \in DOMAIN msgs}

NoCheckpoint == [round |-> 0, status |-> "none", msgs |-> <<>>]
Off == [pc |-> "off", proc |-> NoProcess, gated |-> FALSE, round |-> 0, msgs |-> <<>>,
        fails |-> 0, set |-> FALSE, watch |-> FALSE, stop |-> FALSE,
        asked |-> FALSE, deaf |-> FALSE]

Init ==
    /\ exe = [e \in Executions |-> Off]
    /\ checkpoint = NoCheckpoint
    /\ registry = [p \in Processes |-> NoExecution]
    /\ row = NoRow
    /\ request = NoProcess
    /\ batches = 0
    /\ cancels = 0
    /\ faults = 0
    /\ ran = {}
    /\ lost = {}
    /\ stale = FALSE
    /\ solo = TRUE

At(e, step) == exe[e].pc = step
Live(e) == exe[e].pc \notin {"off", "ended"}
\* Inside iter_react: the transcript is in the memory of the execution.
Loops(e) == exe[e].pc \in {"round", "model", "tools", "save", "close"}
Fault == faults < MaxFaults /\ faults' = faults + 1

-----------------------------------------------------------------------------
\* Starting: /agent/stream, a sub-agent, /agent/resume.

\* A sub-agent runs with the gates and without a registration.
Start(gated) ==
    /\ MaxExecutions > 0 /\ At(1, "off")
    /\ exe' = [exe EXCEPT ![1] = [Off EXCEPT !.pc = IF gated THEN "round" ELSE "register",
                                             !.proc = Home, !.gated = gated, !.round = 1,
                                             !.msgs = <<Query>>]]
    /\ UNCHANGED <<checkpoint, registry, row, request, batches, cancels, faults, history>>

\* The checkpoint is read when the request arrives, whatever its status.
Resume(e, p) ==
    /\ e > 1 /\ At(e, "off") /\ ~At(e - 1, "off")
    /\ checkpoint.status # "none" /\ ~exe[1].gated
    /\ exe' = [exe EXCEPT ![e] = [Off EXCEPT !.pc = "register", !.proc = p,
                                             !.round = checkpoint.round + 1,
                                             !.msgs = checkpoint.msgs]]
    /\ solo' = (solo /\ \A f \in Executions : ~Live(f))
    /\ UNCHANGED <<checkpoint, registry, row, request, batches, cancels, faults,
                   ran, lost, stale>>

\* _register_run: the entry of the process is overwritten, then the row is
\* inserted or reset, then the thread that polls it is started.
Register(e) ==
    /\ At(e, "register")
    /\ registry' = [registry EXCEPT ![exe[e].proc] = e]
    /\ exe' = [exe EXCEPT ![e].pc = "persist"]
    /\ UNCHANGED <<checkpoint, row, request, batches, cancels, faults, history>>

Persist(e) ==
    /\ At(e, "persist")
    /\ \/ /\ row' = [exists |-> TRUE, cancel |-> FALSE]
          /\ exe' = [exe EXCEPT ![e] = [@ EXCEPT !.pc = "round", !.watch = TRUE]]
          /\ UNCHANGED faults
       \/ /\ Fault
          /\ exe' = [exe EXCEPT ![e] = [@ EXCEPT !.pc = "round", !.watch = TRUE, !.deaf = TRUE]]
          /\ UNCHANGED row
    /\ UNCHANGED <<checkpoint, registry, request, batches, cancels, history>>

-----------------------------------------------------------------------------
\* One round of iter_react.

\* The generator is closed; what it had in memory is gone.
Leave(e) == [Off EXCEPT !.pc = IF exe[e].gated THEN "ended" ELSE "unregister",
                        !.proc = exe[e].proc, !.gated = exe[e].gated,
                        !.watch = exe[e].watch, !.stop = exe[e].stop]
Goto(e, step) == exe' = [exe EXCEPT ![e].pc = step]

\* _save_checkpoint: a failure is logged and swallowed.
Save(msgs, round, status) ==
    \/ /\ checkpoint' = [round |-> round, status |-> status, msgs |-> msgs]
       /\ UNCHANGED <<lost, faults>>
    \/ /\ Fault /\ lost' = lost \union (Batches(msgs) \ Batches(checkpoint.msgs))
       /\ UNCHANGED checkpoint
End(e, msgs, round, status) ==
    /\ Save(msgs, round, status)
    /\ exe' = [exe EXCEPT ![e] = Leave(e)]

\* What auto_compact_messages and fit_messages may leave of a transcript: a
\* unit is a message or an answer with the results of its calls; the last
\* KeepRecent units stay.
\* fault: the cut is made at any message.
ShrunkByMessage(m) ==
    {m} \union {<<Summary(Batches(SubSeq(m, 1, i - 1)))>> \o SubSeq(m, i, Len(m)) :
                i \in {k \in 2..Len(m) : Len(m) - k >= KeepRecent}}
Shrunk(m) ==
    LET units == {i \in DOMAIN m : m[i].kind \in {"query", "call"}}
        cuts == {i \in units : /\ \E k \in units : k < i
                               /\ Cardinality({k \in units : k >= i}) >= KeepRecent}
    IN  {m} \union {<<Summary(Batches(SubSeq(m, 1, i - 1)))>> \o SubSeq(m, i, Len(m)) :
                    i \in cuts}

\* The top of a round: the cancel gate, the budget gate (stops with the
\* checkpoint of the round before), then compaction.
\* fault: one round more than max_rounds.
RoundOneMore(e) ==
    /\ At(e, "round")
    /\ IF exe[e].round > MaxRounds + 1
       THEN Goto(e, "close") /\ UNCHANGED <<checkpoint, lost, faults>>
       ELSE IF exe[e].set
       THEN End(e, exe[e].msgs, exe[e].round - 1, "cancelled")
       ELSE \/ exe[e].gated /\ End(e, exe[e].msgs, exe[e].round - 1, "completed")
            \/ /\ \E m \in Shrunk(exe[e].msgs) :
                    exe' = [exe EXCEPT ![e] = [@ EXCEPT !.pc = "model", !.msgs = m]]
               /\ UNCHANGED <<checkpoint, lost, faults>>
    /\ UNCHANGED <<registry, row, request, batches, cancels, ran, stale, solo>>
Round(e) ==
    /\ At(e, "round")
    /\ IF exe[e].round > MaxRounds
       THEN Goto(e, "close") /\ UNCHANGED <<checkpoint, lost, faults>>
       ELSE IF exe[e].set
       THEN End(e, exe[e].msgs, exe[e].round - 1, "cancelled")
       ELSE \/ exe[e].gated /\ End(e, exe[e].msgs, exe[e].round - 1, "completed")
            \/ /\ \E m \in Shrunk(exe[e].msgs) :
                    exe' = [exe EXCEPT ![e] = [@ EXCEPT !.pc = "model", !.msgs = m]]
               /\ UNCHANGED <<checkpoint, lost, faults>>
    /\ UNCHANGED <<registry, row, request, batches, cancels, ran, stale, solo>>

\* The model fails.  With the breaker the next round is the retry, until the
\* breaker trips; record_failure is never followed by a reset.
\* fault: the retry does not use up a round, and the failures are not counted.
ModelFailsForever(e) ==
    /\ At(e, "model")
    /\ IF exe[e].gated
       THEN Goto(e, "round") /\ UNCHANGED <<checkpoint, lost, faults>>
       ELSE End(e, exe[e].msgs, exe[e].round - 1, "error")
    /\ UNCHANGED <<registry, row, request, batches, cancels, ran, stale, solo>>
ModelFails(e) ==
    /\ At(e, "model")
    /\ IF exe[e].gated /\ exe[e].fails + 1 < Threshold
       THEN /\ exe' = [exe EXCEPT ![e] = [@ EXCEPT !.pc = "round", !.round = exe[e].round + 1,
                                                   !.fails = exe[e].fails + 1]]
            /\ UNCHANGED <<checkpoint, lost, faults>>
       ELSE End(e, exe[e].msgs, exe[e].round - 1, "error")
    /\ UNCHANGED <<registry, row, request, batches, cancels, ran, stale, solo>>

\* No message at all (the round is not counted), a final answer, or the same
\* tool call for the fifth time (both counted).
ModelEnds(e) ==
    /\ At(e, "model")
    /\ \E back \in {0, 1} : End(e, exe[e].msgs, exe[e].round - back, "completed")
    /\ UNCHANGED <<registry, row, request, batches, cancels, ran, stale, solo>>

\* Tool calls.  The answer joins the transcript; a cancel seen now keeps the
\* tools from running and gives every call an interrupted result.
ModelAsks(e) ==
    /\ At(e, "model") /\ batches' = batches + 1
    /\ \E n \in 1..MaxCalls :
        LET asks == Append(exe[e].msgs, Ask(batches + 1, n))
            told == Results(batches + 1, [i \in 1..n |-> "interrupted"])
        IN  IF exe[e].set
            THEN End(e, asks \o told, exe[e].round - 1, "cancelled")
            ELSE /\ exe' = [exe EXCEPT ![e] = [@ EXCEPT !.pc = "tools", !.msgs = asks]]
                 /\ UNCHANGED <<checkpoint, lost, faults>>
    /\ UNCHANGED <<registry, row, request, cancels, ran, stale, solo>>

Asked(e) == exe[e].msgs[Len(exe[e].msgs)]
Calls(e) == {<<Asked(e).batch, i>> : i \in 1..Asked(e).calls}

\* _execute_batch: the calls run one after the other or at the same time.
RunTool(e) ==
    /\ At(e, "tools")
    /\ \E c \in Calls(e) \ ran : ran' = ran \union {c}
    /\ UNCHANGED <<exe, checkpoint, registry, row, request, batches, cancels, faults,
                   lost, stale, solo>>

\* The results are appended in the order of the calls.  When a parallel call
\* raises, those that are still running go on, but are reported cancelled.
\* fault: calls that have not run yet are reported as if they had.
ToolsAnswerEarly(e) ==
    /\ At(e, "tools")
    /\ LET how == [i \in 1..Asked(e).calls |-> "ran"]
       IN  exe' = [exe EXCEPT ![e] =
              [@ EXCEPT !.pc = "save", !.msgs = exe[e].msgs \o Results(Asked(e).batch, how)]]
    /\ UNCHANGED <<checkpoint, registry, row, request, batches, cancels, faults, history>>
ToolsAnswer(e) ==
    /\ At(e, "tools") /\ Calls(e) \subseteq ran
    /\ \E how \in [1..Asked(e).calls -> {"ran", "cancelled"}] :
        /\ IF \A i \in DOMAIN how : how[i] = "ran" THEN UNCHANGED faults
           ELSE Len(how) > 1 /\ Fault
        /\ exe' = [exe EXCEPT ![e] =
              [@ EXCEPT !.pc = "save", !.msgs = exe[e].msgs \o Results(Asked(e).batch, how)]]
    /\ UNCHANGED <<checkpoint, registry, row, request, batches, cancels, history>>

\* The end of a round: the cancel gate (the round is not counted although its
\* messages are saved), the diminishing gate, the checkpoint of the round.
\* fault: a round cancelled after its tools is not saved.
EndOfRoundUnsaved(e) ==
    /\ At(e, "save")
    /\ IF exe[e].set
       THEN exe' = [exe EXCEPT ![e] = Leave(e)] /\ UNCHANGED <<checkpoint, lost, faults>>
       ELSE \/ exe[e].gated /\ End(e, exe[e].msgs, exe[e].round, "completed")
            \/ /\ Save(exe[e].msgs, exe[e].round, "running")
               /\ exe' = [exe EXCEPT ![e] = [@ EXCEPT !.pc = "round", !.round = exe[e].round + 1]]
    /\ UNCHANGED <<registry, row, request, batches, cancels, ran, stale, solo>>
EndOfRound(e) ==
    /\ At(e, "save")
    /\ IF exe[e].set
       THEN End(e, exe[e].msgs, exe[e].round - 1, "cancelled")
       ELSE \/ exe[e].gated /\ End(e, exe[e].msgs, exe[e].round, "completed")
            \/ /\ Save(exe[e].msgs, exe[e].round, "running")
               /\ exe' = [exe EXCEPT ![e] = [@ EXCEPT !.pc = "round", !.round = exe[e].round + 1]]
    /\ UNCHANGED <<registry, row, request, batches, cancels, ran, stale, solo>>

\* After the last round the model is asked once more, without tools.
Close(e) ==
    /\ At(e, "close")
    /\ End(e, exe[e].msgs, MaxRounds, "completed")
    /\ UNCHANGED <<registry, row, request, batches, cancels, ran, stale, solo>>

-----------------------------------------------------------------------------
\* What ends an execution without a checkpoint, and what follows its end.

Unsaved(E) ==
    (UNION {Batches(exe[e].msgs) : e \in {f \in E : Loops(f)}}) \ Batches(checkpoint.msgs)

\* The client goes away, or an exception leaves iter_react (a tool batch, the
\* closing call): the generator is closed and its `finally` runs.
Disconnect(e) ==
    /\ Loops(e) /\ Fault
    /\ lost' = lost \union Unsaved({e})
    /\ exe' = [exe EXCEPT ![e] = Leave(e)]
    /\ UNCHANGED <<checkpoint, registry, row, request, batches, cancels,
                   ran, stale, solo>>

Crash(p) ==
    LET here == {e \in Executions : Live(e) /\ exe[e].proc = p}
    IN  /\ here # {} /\ Fault
        /\ lost' = lost \union Unsaved(here)
        /\ exe' = [e \in Executions |->
                    IF exe[e].proc = p
                    THEN [Off EXCEPT !.pc = "ended", !.gated = exe[e].gated] ELSE exe[e]]
        /\ registry' = [registry EXCEPT ![p] = NoExecution]
        /\ request' = IF request = p THEN NoProcess ELSE request
        /\ stale' = TRUE
        /\ UNCHANGED <<checkpoint, row, batches, cancels, ran, solo>>

\* _unregister_run removes whatever the process has registered for the run.
\* fault: only an execution that runs to its end is unregistered.
UnregisterCompleted(e) ==
    /\ At(e, "unregister")
    /\ IF checkpoint.status = "completed"
       THEN /\ registry' = [registry EXCEPT ![exe[e].proc] = NoExecution]
            /\ exe' = [f \in Executions |->
                        [exe[f] EXCEPT !.pc = IF f = e THEN "drop" ELSE @,
                                       !.stop = @ \/ registry[exe[e].proc] = f]]
       ELSE Goto(e, "drop") /\ UNCHANGED registry
    /\ UNCHANGED <<checkpoint, row, request, batches, cancels, faults, history>>
Unregister(e) ==
    /\ At(e, "unregister")
    /\ registry' = [registry EXCEPT ![exe[e].proc] = NoExecution]
    /\ exe' = [f \in Executions |->
                [exe[f] EXCEPT !.pc = IF f = e THEN "drop" ELSE @,
                               !.stop = @ \/ registry[exe[e].proc] = f]]
    /\ UNCHANGED <<checkpoint, row, request, batches, cancels, faults, history>>

DropRow(e) ==
    /\ At(e, "drop")
    /\ exe' = [exe EXCEPT ![e] = [Off EXCEPT !.pc = "ended", !.watch = exe[e].watch,
                                             !.stop = exe[e].stop]]
    /\ \/ row' = NoRow /\ UNCHANGED <<faults, stale>>
       \/ Fault /\ stale' = TRUE /\ UNCHANGED row
    /\ UNCHANGED <<checkpoint, registry, request, batches, cancels,
                   ran, lost, solo>>

-----------------------------------------------------------------------------
\* Cancelling.

\* The event of an execution, as long as a gate is left that reads it.
Open(e) == exe[e].pc = "persist" \/ Loops(e)

\* /agent/cancel, sent by a client that has got the run_id with the first
\* event, sets the event of its own process, then marks the row.
Cancel(p) ==
    /\ request = NoProcess /\ cancels < MaxCancels
    /\ exe[1].pc \notin {"off", "register", "persist"} /\ ~exe[1].gated
    /\ cancels' = cancels + 1
    /\ request' = p
    /\ exe' = [e \in Executions |-> [exe[e] EXCEPT !.set = @ \/ (registry[p] = e /\ Open(e))]]
    /\ UNCHANGED <<checkpoint, registry, row, batches, faults, history>>

Answered == [e \in Executions |-> [exe[e] EXCEPT !.asked = @ \/ (Loops(e) /\ ~exe[e].gated)]]

\* fault: the row is marked only by the process that holds the run.
MarkRowOwn ==
    /\ request # NoProcess
    /\ request' = NoProcess
    /\ row' = [row EXCEPT !.cancel = row.exists /\ registry[request] # NoExecution]
    /\ exe' = Answered
    /\ UNCHANGED <<checkpoint, registry, batches, cancels, faults, history>>
MarkRow ==
    /\ request # NoProcess
    /\ request' = NoProcess
    /\ \/ row' = [row EXCEPT !.cancel = row.exists] /\ exe' = Answered /\ UNCHANGED faults
       \/ Fault /\ UNCHANGED <<row, exe>>
    /\ UNCHANGED <<checkpoint, registry, batches, cancels, history>>

\* _watch_cancel polls the row until it is stopped, the row is gone, it is
\* marked, or a read fails.
Watch(e) ==
    /\ exe[e].watch
    /\ \E set, deaf \in BOOLEAN :
        /\ \/ (exe[e].stop \/ ~row.exists) /\ ~set /\ ~deaf /\ UNCHANGED faults
           \/ ~exe[e].stop /\ row.cancel /\ set /\ ~deaf /\ UNCHANGED faults
           \/ ~exe[e].stop /\ ~set /\ deaf /\ Fault
        /\ exe' = [exe EXCEPT ![e] = [@ EXCEPT !.watch = FALSE, !.stop = FALSE,
                                        !.set = exe[e].set \/ (set /\ Open(e)),
                                        !.deaf = exe[e].deaf \/ (deaf /\ Open(e))]]
    /\ UNCHANGED <<checkpoint, registry, row, request, batches, cancels, history>>

-----------------------------------------------------------------------------
Step(e) ==
    \/ Register(e) \/ Persist(e) \/ Round(e) \/ ModelFails(e) \/ ModelEnds(e) \/ ModelAsks(e)
    \/ RunTool(e) \/ ToolsAnswer(e) \/ EndOfRound(e) \/ Close(e) \/ Unregister(e) \/ DropRow(e)

Next ==
    \/ \E gated \in BOOLEAN : Start(gated)
    \/ \E p \in Processes :
        \/ \E e \in Executions : Resume(e, p)
        \/ Cancel(p) \/ Crash(p)
    \/ \E e \in Executions : Step(e) \/ Disconnect(e) \/ Watch(e)
    \/ MarkRow

Spec == Init /\ [][Next]_vars

\* The threads of a process are scheduled, and what they call returns.
Fairness ==
    /\ \A e \in Executions : WF_vars(Step(e)) /\ WF_vars(Watch(e))
    /\ WF_vars(MarkRow)
FairSpec == Spec /\ Fairness
-----------------------------------------------------------------------------
Steps == {"off", "register", "persist", "round", "model", "tools", "save", "close",
          "unregister", "drop", "ended"}
Messages ==
    {Query} \union [kind : {"call"}, batch : Nat, calls : 1..MaxCalls]
            \union [kind : {"result"}, batch : Nat, call : 1..MaxCalls,
                    how : {"ran", "interrupted", "cancelled"}]
            \union [kind : {"summary"}, stands : SUBSET Nat]
TypeOK ==
    /\ exe \in [Executions -> [pc : Steps, proc : Processes \union {NoProcess},
                               gated : BOOLEAN, round : 0..(MaxRounds + 1),
                               msgs : Seq(Messages), fails : Nat, set : BOOLEAN,
                               watch : BOOLEAN, stop : BOOLEAN,
                               asked : BOOLEAN, deaf : BOOLEAN]]
    /\ checkpoint \in [round : 0..MaxRounds, msgs : Seq(Messages),
                       status : {"none", "running", "completed", "cancelled", "error"}]
    /\ registry \in [Processes -> Executions \union {NoExecution}]
    /\ row \in [exists : BOOLEAN, cancel : BOOLEAN]
    /\ request \in Processes \union {NoProcess}
    /\ batches \in Nat /\ cancels \in Nat /\ faults \in Nat
    /\ ran \subseteq Nat \X (1..MaxCalls)
    /\ lost \subseteq Nat
    /\ stale \in BOOLEAN /\ solo \in BOOLEAN

Paired(m) ==
    /\ \A i \in DOMAIN m : m[i].kind = "call" =>
        \A k \in 1..m[i].calls :
            /\ i + k \in DOMAIN m
            /\ m[i + k].kind = "result" /\ m[i + k].batch = m[i].batch /\ m[i + k].call = k
    /\ \A i \in DOMAIN m : m[i].kind = "result" =>
        \E j \in DOMAIN m :
            j < i /\ m[j].kind = "call" /\ m[j].batch = m[i].batch /\ i = j + m[i].call

\* Whatever cuts a run short, what the model is sent and what a resume starts
\* from holds every tool call with its results and no result without its
\* call: the protocol refuses anything else.
NoOrphans ==
    /\ \A e \in Executions : exe[e].pc \in {"round", "model", "save", "close"} => Paired(exe[e].msgs)
    /\ Paired(checkpoint.msgs)

Says(how, c) ==
    \E m \in {checkpoint.msgs} \union {exe[e].msgs : e \in Executions} :
        \E i \in DOMAIN m : /\ m[i].kind = "result" /\ m[i].how = how
                           /\ c = <<m[i].batch, m[i].call>>

\* A call that the transcript reports as interrupted was never executed, and
\* one that it reports a result for was: a resume repeats no call that ran on
\* the word of the transcript, and builds on none that did not.
ToldTheTruth ==
    \A b \in 1..batches : \A i \in 1..MaxCalls :
        /\ Says("interrupted", <<b, i>>) => <<b, i>> \notin ran
        /\ Says("ran", <<b, i>>) => <<b, i>> \in ran

\* As long as no two executions of the run overlap, every batch of tools that
\* was executed is in the checkpoint, held by an execution that goes on, or
\* was lost to a crash, a disconnect or a failed save.
Remembered ==
    solo => \A c \in ran :
        \/ c[1] \in Batches(checkpoint.msgs) \union lost
        \/ \E e \in Executions : Loops(e) /\ c[1] \in Batches(exe[e].msgs)

\* The event is set, or the row says so and its poller will see it.
CancelReaches(e) ==
    exe[e].set \/ (row.exists /\ row.cancel /\ exe[e].watch /\ ~exe[e].stop)

\* A cancel reaches the execution in whichever process it is handled, unless
\* the registration or the polling failed or another execution overlapped.
CancelIsDelivered ==
    solo => \A e \in Executions : Loops(e) /\ exe[e].asked /\ ~exe[e].deaf => CancelReaches(e)

\* When no execution of the run is left, neither is an entry of a registry
\* nor the row, unless a crash or a failed delete left it.
NothingLeft ==
    (~stale /\ \A e \in Executions : ~Live(e)) =>
        ~row.exists /\ \A p \in Processes : registry[p] = NoExecution

\* An execution ends, and so does the thread that polls for it, unless the
\* entry that would stop the thread was overwritten by another execution.
ExecutionEnds ==
    \A e \in Executions :
        exe[e].pc # "off" ~> exe[e].pc = "ended" /\ (solo => ~exe[e].watch)
=============================================================================
