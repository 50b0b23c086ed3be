------------------------------ MODULE Failover ------------------------------
(***************************************************************************)
(* The failover engine of agent_matrix/failover.py: a circuit breaker per  *)
(* model in every worker process, the table ai_model_health they share     *)
(* with the weekly probe, the 30-second cache through which an open        *)
(* breaker looks at that table, and the requests that walk a list of       *)
(* candidate models (call_with_failover, stream_with_failover).            *)
(*                                                                         *)
(* Every lock section and every database call is a step of its own.  A     *)
(* call to a model is abstracted to the ways it can end.  Time is          *)
(* discrete; only calls to models take any of it.                          *)
(***************************************************************************)
EXTENDS Integers, Sequences, FiniteSets

CONSTANTS
    Model,          \* keys 'provider::model'
    None,           \* no model
    Call,           \* request threads
    Proc,           \* worker processes
    Mortal,         \* those that may end
    Home,           \* thread -> its process
    Candidates,     \* the candidate lists of requests, the primary model first
    Threshold,      \* DEFAULT_FAILURE_THRESHOLD
    Cooldown,       \* DEFAULT_COOLDOWN_SECONDS
    MaxCooldown,    \* DEFAULT_MAX_COOLDOWN
    CacheTTL        \* _HEALTH_CACHE_TTL

ASSUME RequestAssumption ==
    /\ None \notin Model
    /\ Home \in [Call -> Proc] /\ Mortal \subseteq Proc
    /\ Candidates \subseteq Seq(Model) \ {<<>>}
ASSUME TimeAssumption ==
    /\ {Threshold, Cooldown, MaxCooldown, CacheTTL} \subseteq Nat \ {0}
    /\ Cooldown <= MaxCooldown

VARIABLES
    health,     \* ai_model_health: status; circuit_open is status = 'cooldown'
    since,      \* history: time since the row was last 'healthy' (saturated)
    fails,      \* failures of a breaker (saturated at Threshold)
    open,       \* open
    cool,       \* time to cooldown_until
    next,       \* the next cooldown: min(cooldown * 2 ** open_count, maximum)
    known,      \* _HEALTH_CACHE: the answer
    age,        \* and its age (saturated at CacheTTL: no entry, or too old)
    pc,         \* where each request is
    cand,       \* its candidates
    pos,        \* the one it is at
    sees,       \* what it last read of the table, the cache or the breaker
    used,       \* the model its answer is accounted to (used_cfg)
    served      \* history: the models its consumer has got something from

vars == <<health, since, fails, open, cool, next, known, age,
          pc, cand, pos, sees, used, served>>

row     == <<health, since>>
breaker == <<fails, open, cool, next>>
cache   == <<known, age>>
request == <<cand, pos, used, served>>

PC == {"idle", "check", "probe", "cached", "read", "call", "flowing",
       "won", "wonRow", "lost", "status", "lostRow"}

Smaller(x, y) == IF x < y THEN x ELSE y

At(c) == cand[c][pos[c]]

Init ==
    /\ health \in [Model -> {"none", "healthy", "degraded", "cooldown"}]
    /\ since = [m \in Model |-> IF health[m] = "healthy" THEN 0 ELSE CacheTTL]
    /\ fails = [p \in Proc |-> [m \in Model |-> 0]]
    /\ open = [p \in Proc |-> [m \in Model |-> FALSE]]
    /\ cool = [p \in Proc |-> [m \in Model |-> 0]]
    /\ next = [p \in Proc |-> [m \in Model |-> Cooldown]]
    /\ known = [p \in Proc |-> [m \in Model |-> FALSE]]
    /\ age = [p \in Proc |-> [m \in Model |-> CacheTTL]]
    /\ pc = [c \in Call |-> "idle"]
    /\ cand = [c \in Call |-> <<>>]
    /\ pos = [c \in Call |-> 0]
    /\ sees = [c \in Call |-> FALSE]
    /\ used = [c \in Call |-> None]
    /\ served = [c \in Call |-> {}]

-----------------------------------------------------------------------------
(* CircuitBreaker: record_success and record_failure.                      *)

Succeed(p, m) ==
    /\ fails' = [fails EXCEPT ![p][m] = 0]
    /\ open' = [open EXCEPT ![p][m] = FALSE]
    /\ cool' = [cool EXCEPT ![p][m] = 0]
    /\ UNCHANGED next

\* fault: one failure more than the threshold opens the breaker
FailLate(p, m) ==
    LET opens == fails[p][m] = Threshold IN
    /\ fails' = [fails EXCEPT ![p][m] = Smaller(@ + 1, Threshold)]
    /\ open' = [open EXCEPT ![p][m] = @ \/ opens]
    /\ cool' = [cool EXCEPT ![p][m] = IF opens THEN next[p][m] ELSE @]
    /\ next' = [next EXCEPT ![p][m] = IF opens THEN Smaller(2 * @, MaxCooldown) ELSE @]

Fail(p, m) ==
    LET opens == fails[p][m] + 1 >= Threshold IN
    /\ fails' = [fails EXCEPT ![p][m] = Smaller(@ + 1, Threshold)]
    /\ open' = [open EXCEPT ![p][m] = @ \/ opens]
    /\ cool' = [cool EXCEPT ![p][m] = IF opens THEN next[p][m] ELSE @]
    /\ next' = [next EXCEPT ![p][m] = IF opens THEN Smaller(2 * @, MaxCooldown) ELSE @]

\* ModelHealthStore writes the row, or fails in silence
WriteRow(m, status) ==
    /\ health' \in {health, [health EXCEPT ![m] = status]}
    /\ since' = [since EXCEPT ![m] = IF health'[m] = "healthy" THEN 0 ELSE @]

-----------------------------------------------------------------------------
(* A request.                                                              *)

Goto(c, where) == pc' = [pc EXCEPT ![c] = where]

\* the request is over: answered, failed, or given up by its consumer
Leave(c) ==
    /\ Goto(c, "idle")
    /\ cand' = [cand EXCEPT ![c] = <<>>]
    /\ pos' = [pos EXCEPT ![c] = 0]
    /\ sees' = [sees EXCEPT ![c] = FALSE]
    /\ used' = [used EXCEPT ![c] = None]
    /\ served' = [served EXCEPT ![c] = {}]

\* the next candidate; without one an exception ends the request
NextCandidate(c) ==
    IF pos[c] < Len(cand[c])
    THEN /\ Goto(c, "check")
         /\ pos' = [pos EXCEPT ![c] = @ + 1]
         /\ sees' = [sees EXCEPT ![c] = FALSE]
         /\ UNCHANGED <<cand, used, served>>
    ELSE Leave(c)

Begin(c) ==
    /\ pc[c] = "idle"
    /\ \E s \in Candidates :
          /\ cand' = [cand EXCEPT ![c] = s]
          /\ used' = [used EXCEPT ![c] = s[1]]
    /\ pos' = [pos EXCEPT ![c] = 1]
    /\ Goto(c, "check")
    /\ UNCHANGED <<row, breaker, cache, sees, served>>

\* is_available: the part under the lock
Check(c) ==
    /\ pc[c] = "check"
    /\ Goto(c, IF open[Home[c]][At(c)] /\ cool[Home[c]][At(c)] > 0 THEN "probe" ELSE "call")
    /\ UNCHANGED <<row, breaker, cache, request, sees>>

\* fault: an entry of the cache lives on as long as it is used
ProbeSliding(c) ==
    LET p == Home[c] m == At(c) IN
    /\ pc[c] = "probe"
    /\ age[p][m] < CacheTTL
    /\ sees' = [sees EXCEPT ![c] = known[p][m]]
    /\ age' = [age EXCEPT ![p][m] = 0]
    /\ Goto(c, "cached")
    /\ UNCHANGED <<row, breaker, known, request>>

\* _db_recovered with an entry in the cache
ProbeCache(c) ==
    LET p == Home[c] m == At(c) IN
    /\ pc[c] = "probe"
    /\ age[p][m] < CacheTTL
    /\ sees' = [sees EXCEPT ![c] = known[p][m]]
    /\ Goto(c, "cached")
    /\ UNCHANGED <<row, breaker, cache, request>>

\* _db_recovered without one; a query that fails counts as "not healthy"
ProbeTable(c) ==
    /\ pc[c] = "probe"
    /\ age[Home[c]][At(c)] >= CacheTTL
    /\ \E answer \in {health[At(c)] = "healthy", FALSE} : sees' = [sees EXCEPT ![c] = answer]
    /\ Goto(c, "read")
    /\ UNCHANGED <<row, breaker, cache, request>>

\* the entry a query leaves in the cache
Remember(c) ==
    IF pc[c] = "read"
    THEN /\ known' = [known EXCEPT ![Home[c]][At(c)] = sees[c]]
         /\ age' = [age EXCEPT ![Home[c]][At(c)] = 0]
    ELSE UNCHANGED cache

Recovered(c) ==
    /\ pc[c] \in {"cached", "read"}
    /\ sees[c]
    /\ Remember(c)
    /\ Succeed(Home[c], At(c))
    /\ Goto(c, "call")
    /\ UNCHANGED <<row, request, sees>>

\* fault: a candidate that is skipped has failed
SkippedIsFailed(c) ==
    /\ pc[c] \in {"cached", "read"}
    /\ ~sees[c]
    /\ Remember(c)
    /\ NextCandidate(c)
    /\ Fail(Home[c], At(c))
    /\ UNCHANGED row

Skipped(c) ==
    /\ pc[c] \in {"cached", "read"}
    /\ ~sees[c]
    /\ Remember(c)
    /\ NextCandidate(c)
    /\ UNCHANGED <<row, breaker>>

-----------------------------------------------------------------------------
(* What becomes of a call to a model.                                      *)

\* the consumer gets something of the candidate's answer
Serve(c) ==
    /\ used' = [used EXCEPT ![c] = At(c)]
    /\ served' = [served EXCEPT ![c] = @ \cup {At(c)}]
    /\ UNCHANGED <<row, breaker, cache, cand, pos, sees>>

Answers(c) ==
    /\ pc[c] = "call"
    /\ Goto(c, "won")
    /\ Serve(c)

FirstChunk(c) ==
    /\ pc[c] = "call"
    /\ Goto(c, "flowing")
    /\ Serve(c)

\* a stream without a chunk is a success too, and stays on the primary's account
EmptyStream(c) ==
    /\ pc[c] = "call"
    /\ Goto(c, "won")
    /\ UNCHANGED <<row, breaker, cache, request, sees>>

Fails(c) ==
    /\ pc[c] = "call"
    /\ Goto(c, "lost")
    /\ UNCHANGED <<row, breaker, cache, request, sees>>

StreamEnds(c) ==
    /\ pc[c] = "flowing"
    /\ Goto(c, "won")
    /\ UNCHANGED <<row, breaker, cache, request, sees>>

\* fault: a stream that breaks is continued with the next candidate
StreamFailsOver(c) ==
    /\ pc[c] = "flowing"
    /\ Goto(c, "lost")
    /\ UNCHANGED <<row, breaker, cache, request, sees>>

\* an error after the first chunk is raised and recorded nowhere; so is the
\* end of a consumer
StreamBreaks(c) ==
    /\ pc[c] = "flowing"
    /\ Leave(c)
    /\ UNCHANGED <<row, breaker, cache>>

Won(c) ==
    /\ pc[c] = "won"
    /\ Succeed(Home[c], At(c))
    /\ Goto(c, "wonRow")
    /\ UNCHANGED <<row, cache, request, sees>>

WonRow(c) ==
    /\ pc[c] = "wonRow"
    /\ WriteRow(At(c), "healthy")
    /\ Leave(c)
    /\ UNCHANGED <<breaker, cache>>

Lost(c) ==
    /\ pc[c] = "lost"
    /\ Fail(Home[c], At(c))
    /\ Goto(c, "status")
    /\ UNCHANGED <<row, cache, request, sees>>

\* get_status: by now another request may have closed the breaker again
ReadStatus(c) ==
    /\ pc[c] = "status"
    /\ sees' = [sees EXCEPT ![c] = open[Home[c]][At(c)]]
    /\ Goto(c, "lostRow")
    /\ UNCHANGED <<row, breaker, cache, request>>

LostRow(c) ==
    /\ pc[c] = "lostRow"
    /\ WriteRow(At(c), IF sees[c] THEN "cooldown" ELSE "degraded")
    /\ NextCandidate(c)
    /\ UNCHANGED <<breaker, cache>>

-----------------------------------------------------------------------------
(* The environment.                                                        *)

\* probe_provider_models: a success, or a failure that leaves the circuit closed
ProbeModel(m) ==
    /\ \E status \in {"healthy", "degraded"} : WriteRow(m, status)
    /\ UNCHANGED <<breaker, cache, pc, sees, request>>

\* a breaker nobody has used yet
Fresh(p) ==
    /\ fails' = [fails EXCEPT ![p] = [m \in Model |-> 0]]
    /\ open' = [open EXCEPT ![p] = [m \in Model |-> FALSE]]
    /\ cool' = [cool EXCEPT ![p] = [m \in Model |-> 0]]
    /\ next' = [next EXCEPT ![p] = [m \in Model |-> Cooldown]]

\* reset_all, in the process that gets the request
ResetAll(p) ==
    /\ Fresh(p)
    /\ UNCHANGED <<row, cache, pc, sees, request>>

\* a worker process ends and is replaced
Die(p) ==
    LET Gone(f, x) == [c \in Call |-> IF Home[c] = p THEN x ELSE f[c]] IN
    /\ Fresh(p)
    /\ known' = [known EXCEPT ![p] = [m \in Model |-> FALSE]]
    /\ age' = [age EXCEPT ![p] = [m \in Model |-> CacheTTL]]
    /\ pc' = Gone(pc, "idle")
    /\ cand' = Gone(cand, <<>>)
    /\ pos' = Gone(pos, 0)
    /\ sees' = Gone(sees, FALSE)
    /\ used' = Gone(used, None)
    /\ served' = Gone(served, {})
    /\ UNCHANGED row

\* only calls to models, streams and idle threads let time pass
Tick ==
    /\ \A c \in Call : pc[c] \in {"idle", "call", "flowing"}
    /\ cool' = [p \in Proc |-> [m \in Model |-> IF cool[p][m] = 0 THEN 0 ELSE cool[p][m] - 1]]
    /\ age' = [p \in Proc |-> [m \in Model |-> Smaller(age[p][m] + 1, CacheTTL)]]
    /\ since' = [m \in Model |-> IF health[m] = "healthy" THEN 0 ELSE Smaller(since[m] + 1, CacheTTL)]
    /\ UNCHANGED <<health, fails, open, next, known, pc, sees, request>>

-----------------------------------------------------------------------------

Proceed(c) ==
    \/ Check(c)
    \/ ProbeCache(c)
    \/ ProbeTable(c)
    \/ Recovered(c)
    \/ Skipped(c)
    \/ Answers(c)
    \/ FirstChunk(c)
    \/ EmptyStream(c)
    \/ Fails(c)
    \/ StreamEnds(c)
    \/ StreamBreaks(c)
    \/ Won(c)
    \/ WonRow(c)
    \/ Lost(c)
    \/ ReadStatus(c)
    \/ LostRow(c)

Next ==
    \/ \E c \in Call : Begin(c) \/ Proceed(c)
    \/ \E m \in Model : ProbeModel(m)
    \/ \E p \in Proc : ResetAll(p)
    \/ \E p \in Mortal : Die(p)
    \/ Tick

Spec == Init /\ [][Next]_vars

\* Time diverges (threads that take none do not stop it), and a request in
\* progress goes on: the client's timeout bounds every call to a model.  Nobody
\* has to send requests, probe or reset.
Fairness == []<><<Tick>>_vars /\ \A c \in Call : WF_vars(Proceed(c))

FairSpec == Spec /\ Fairness

-----------------------------------------------------------------------------
(* Properties.                                                             *)

(* Every variable holds a value of its type; a request in progress is at   *)
(* one of its candidates, and a breaker is open exactly after Threshold    *)
(* failures in a row.                                                      *)
TypeOK ==
    /\ health \in [Model -> {"none", "healthy", "degraded", "cooldown"}]
    /\ since \in [Model -> 0 .. CacheTTL]
    /\ fails \in [Proc -> [Model -> 0 .. Threshold]]
    /\ open \in [Proc -> [Model -> BOOLEAN]]
    /\ cool \in [Proc -> [Model -> 0 .. MaxCooldown]]
    /\ next \in [Proc -> [Model -> Cooldown .. MaxCooldown]]
    /\ known \in [Proc -> [Model -> BOOLEAN]]
    /\ age \in [Proc -> [Model -> 0 .. CacheTTL]]
    /\ pc \in [Call -> PC]
    /\ cand \in [Call -> Seq(Model)]
    /\ pos \in [Call -> Nat]
    /\ sees \in [Call -> BOOLEAN]
    /\ used \in [Call -> Model \cup {None}]
    /\ served \in [Call -> SUBSET Model]
    /\ \A c \in Call : pc[c] # "idle" => pos[c] \in 1 .. Len(cand[c])
    /\ \A p \in Proc, m \in Model : open[p][m] <=> fails[p][m] >= Threshold

(* What a consumer gets comes from one model, and is accounted to that     *)
(* model: after the first chunk of a stream no candidate follows, however  *)
(* the stream ends and whatever the breakers do meanwhile.                 *)
OneModelAnswers == \A c \in Call : served[c] \subseteq {used[c]}

(* An open breaker lets a request through early only if the table said     *)
(* 'healthy' less than CacheTTL ago: the answers of the cache are not      *)
(* older than their entry claims, whichever threads fill and read it.      *)
FreshRecovery ==
    \A c \in Call : pc[c] \in {"cached", "read"} /\ sees[c] => since[At(c)] < CacheTTL

(* No model is shut off for good: again and again its breaker is closed or *)
(* its cooldown over, although requests that were let through before it    *)
(* opened prolong the cooldown when they fail.                             *)
NeverShutOff == \A p \in Proc, m \in Model : []<>(open[p][m] => cool[p][m] = 0)

=============================================================================
