--------------------------- MODULE FailoverProofs ---------------------------
(***************************************************************************)
(* Theorems about Failover, for every number of models, worker processes   *)
(* and requests, every candidate list and every value of the thresholds    *)
(* and times: the types, that a consumer is answered by one model only,    *)
(* and that an open breaker is not passed on an old answer of the table.   *)
(***************************************************************************)
EXTENDS Failover, SequenceTheorems, TLAPS

(* TypeOK in four parts, one per group of variables.                       *)
RowOK ==
    /\ health \in [Model -> {"none", "healthy", "degraded", "cooldown"}]
    /\ since \in [Model -> 0 .. CacheTTL]

BreakerOK ==
    /\ fails \in [Proc -> [Model -> 0 .. Threshold]]
    /\ open \in [Proc -> [Model -> BOOLEAN]]
    /\ cool \in [Proc -> [Model -> 0 .. MaxCooldown]]
    /\ next \in [Proc -> [Model -> Cooldown .. MaxCooldown]]
    /\ \A p \in Proc, m \in Model : open[p][m] <=> fails[p][m] >= Threshold

CacheOK ==
    /\ known \in [Proc -> [Model -> BOOLEAN]]
    /\ age \in [Proc -> [Model -> 0 .. CacheTTL]]

RequestOK ==
    /\ pc \in [Call -> PC]
    /\ cand \in [Call -> Seq(Model)]
    /\ pos \in [Call -> Nat]
    /\ sees \in [Call -> BOOLEAN]
    /\ used \in [Call -> Model \cup {None}]
    /\ served \in [Call -> SUBSET Model]
    /\ \A c \in Call : pc[c] # "idle" => pos[c] \in 1 .. Len(cand[c])

(* The four parts are TypeOK.                                              *)
LEMMA Parts == TypeOK <=> RowOK /\ BreakerOK /\ CacheOK /\ RequestOK
  BY DEF TypeOK, RowOK, BreakerOK, CacheOK, RequestOK

LEMMA PartsNext == TypeOK' <=> RowOK' /\ BreakerOK' /\ CacheOK' /\ RequestOK'
  BY DEF TypeOK, RowOK, BreakerOK, CacheOK, RequestOK

-----------------------------------------------------------------------------
(* What the operators shared by the actions preserve.                      *)

(* A request in progress is at a model.                                    *)
LEMMA AtModel ==
  ASSUME RequestOK, NEW c \in Call, pc[c] # "idle"
  PROVE  At(c) \in Model
  BY DEF RequestOK, At

(* Every list of candidates has a first model.                             *)
LEMMA FirstCandidate ==
  ASSUME NEW s \in Candidates
  PROVE  s \in Seq(Model) /\ 1 \in 1 .. Len(s) /\ s[1] \in Model
<1>1. s \in Seq(Model) /\ s # <<>>
  BY RequestAssumption
<1>2. Len(s) \in Nat /\ Len(s) # 0
  BY <1>1, EmptySeq
<1> QED
  BY <1>1, <1>2

(* record_success keeps the breakers well formed.                          *)
LEMMA SucceedTyped ==
  ASSUME BreakerOK, NEW p \in Proc, NEW m \in Model, Succeed(p, m)
  PROVE  BreakerOK'
  BY TimeAssumption DEF BreakerOK, Succeed

(* record_failure keeps a breaker open exactly from the threshold on.      *)
LEMMA FailTyped ==
  ASSUME BreakerOK, NEW p \in Proc, NEW m \in Model, Fail(p, m)
  PROVE  BreakerOK'
<1> USE TimeAssumption DEF BreakerOK
<1> DEFINE opens == fails[p][m] + 1 >= Threshold
<1>1. /\ fails' = [fails EXCEPT ![p][m] = Smaller(@ + 1, Threshold)]
      /\ fails' \in [Proc -> [Model -> 0 .. Threshold]]
  BY DEF Fail, Smaller
<1>2. /\ cool' \in [Proc -> [Model -> 0 .. MaxCooldown]]
      /\ next' \in [Proc -> [Model -> Cooldown .. MaxCooldown]]
  BY DEF Fail, Smaller
<1>3. open' = [open EXCEPT ![p][m] = open[p][m] \/ opens]
  BY DEF Fail
<1>4. open' \in [Proc -> [Model -> BOOLEAN]]
  BY <1>3
<1>5. ASSUME NEW q \in Proc, NEW n \in Model
      PROVE  open'[q][n] <=> fails'[q][n] >= Threshold
  <2>1. CASE q = p /\ n = m
    <3>1. open'[p][m] <=> open[p][m] \/ opens
      BY <1>3
    <3>2. fails'[p][m] = Smaller(fails[p][m] + 1, Threshold)
      BY <1>1
    <3> QED
      BY <2>1, <3>1, <3>2 DEF Smaller
  <2>2. CASE ~(q = p /\ n = m)
    BY <1>1, <1>3, <2>2
  <2> QED
    BY <2>1, <2>2
<1> QED
  BY <1>1, <1>2, <1>4, <1>5

LEMMA FreshTyped ==
  ASSUME BreakerOK, NEW p \in Proc, Fresh(p)
  PROVE  BreakerOK'
  BY TimeAssumption DEF BreakerOK, Fresh

LEMMA WriteRowTyped ==
  ASSUME RowOK, NEW m \in Model, NEW status \in {"healthy", "degraded", "cooldown"},
         WriteRow(m, status)
  PROVE  RowOK'
<1>1. health' \in [Model -> {"none", "healthy", "degraded", "cooldown"}]
  BY DEF RowOK, WriteRow
<1>2. since' \in [Model -> 0 .. CacheTTL]
  BY TimeAssumption DEF RowOK, WriteRow
<1> QED
  BY <1>1, <1>2 DEF RowOK

LEMMA RememberTyped ==
  ASSUME CacheOK, RequestOK, NEW c \in Call, pc[c] # "idle", Remember(c)
  PROVE  CacheOK'
<1>1. At(c) \in Model /\ Home[c] \in Proc
  BY AtModel, RequestAssumption
<1>2. sees[c] \in BOOLEAN
  BY DEF RequestOK
<1>3. 0 \in 0 .. CacheTTL
  BY TimeAssumption
<1>4. CASE pc[c] = "read"
  <2>1. /\ known' = [known EXCEPT ![Home[c]][At(c)] = sees[c]]
        /\ age' = [age EXCEPT ![Home[c]][At(c)] = 0]
    BY <1>4 DEF Remember
  <2> QED
    BY <1>1, <1>2, <1>3, <2>1 DEF CacheOK
<1>5. CASE pc[c] # "read"
  BY <1>5 DEF Remember, CacheOK, cache
<1> QED
  BY <1>4, <1>5

LEMMA LeaveTyped ==
  ASSUME RequestOK, NEW c \in Call, Leave(c)
  PROVE  RequestOK'
  BY DEF RequestOK, Leave, Goto, PC

LEMMA NextCandidateTyped ==
  ASSUME RequestOK, NEW c \in Call, pc[c] # "idle", NextCandidate(c)
  PROVE  RequestOK'
<1>1. CASE pos[c] < Len(cand[c])
  <2>1. /\ pc' = [pc EXCEPT ![c] = "check"]
        /\ pos' = [pos EXCEPT ![c] = pos[c] + 1]
        /\ sees' = [sees EXCEPT ![c] = FALSE]
        /\ UNCHANGED <<cand, used, served>>
    BY <1>1 DEF NextCandidate, Goto
  <2>2. pos[c] \in Nat /\ Len(cand[c]) \in Nat
    BY LenProperties DEF RequestOK
  <2>3. pos[c] + 1 \in 1 .. Len(cand[c])
    BY <1>1, <2>2
  <2> QED
    BY <2>1, <2>2, <2>3 DEF RequestOK, PC
<1>2. CASE ~(pos[c] < Len(cand[c]))
  BY <1>2, LeaveTyped DEF NextCandidate
<1> QED
  BY <1>1, <1>2

(* Steps that leave a group of variables alone.                            *)
LEMMA Unchanged ==
  /\ RowOK /\ UNCHANGED row => RowOK'
  /\ BreakerOK /\ UNCHANGED breaker => BreakerOK'
  /\ CacheOK /\ UNCHANGED cache => CacheOK'
  /\ RequestOK /\ UNCHANGED <<pc, sees, request>> => RequestOK'
  BY DEF RowOK, BreakerOK, CacheOK, RequestOK, row, breaker, cache, request

(* Moving a request to another place of its own keeps it well formed.      *)
LEMMA GotoTyped ==
  ASSUME RequestOK, NEW c \in Call, pc[c] # "idle", NEW where \in PC, Goto(c, where),
         UNCHANGED request,
         sees' = sees \/ \E v \in BOOLEAN : sees' = [sees EXCEPT ![c] = v]
  PROVE  RequestOK'
  BY DEF RequestOK, Goto, request

-----------------------------------------------------------------------------
(* The types.                                                              *)

(* Every reachable state is well typed, and a breaker is open exactly from *)
(* the threshold on: failover.py's CircuitBreaker under any interleaving   *)
(* of requests, probes, resets and worker deaths.                          *)
THEOREM TypeCorrect == Spec => []TypeOK
<1>1. Init => TypeOK
  <2> SUFFICES ASSUME Init PROVE TypeOK
    OBVIOUS
  <2>1. RowOK
    BY TimeAssumption DEF Init, RowOK
  <2>2. BreakerOK
    BY TimeAssumption DEF Init, BreakerOK
  <2>3. CacheOK
    BY TimeAssumption DEF Init, CacheOK
  <2>4. RequestOK
    BY DEF Init, RequestOK, PC
  <2> QED
    BY <2>1, <2>2, <2>3, <2>4, Parts
<1>2. TypeOK /\ [Next]_vars => TypeOK'
  <2> SUFFICES ASSUME TypeOK, [Next]_vars PROVE TypeOK'
    OBVIOUS
  <2>0. RowOK /\ BreakerOK /\ CacheOK /\ RequestOK
    BY Parts
  <2> USE <2>0
  <2> SUFFICES RowOK' /\ BreakerOK' /\ CacheOK' /\ RequestOK'
    BY PartsNext
  <2>1. ASSUME NEW c \in Call, Begin(c)
        PROVE  RowOK' /\ BreakerOK' /\ CacheOK' /\ RequestOK'
    <3>1. PICK s \in Candidates : /\ cand' = [cand EXCEPT ![c] = s]
                                  /\ used' = [used EXCEPT ![c] = s[1]]
      BY <2>1 DEF Begin
    <3>2. s \in Seq(Model) /\ 1 \in 1 .. Len(s) /\ s[1] \in Model
      BY FirstCandidate
    <3>3. RequestOK'
      BY <2>1, <3>1, <3>2 DEF Begin, Goto, RequestOK, PC
    <3> QED
      BY <2>1, <3>3, Unchanged DEF Begin
  <2>2. ASSUME NEW c \in Call, Proceed(c)
        PROVE  RowOK' /\ BreakerOK' /\ CacheOK' /\ RequestOK'
    <3>0. pc[c] # "idle"
      BY <2>2 DEF Proceed, Check, ProbeCache, ProbeTable, Recovered, Skipped, Answers, FirstChunk, EmptyStream,
                  Fails, StreamEnds, StreamBreaks, Won, WonRow, Lost, ReadStatus, LostRow
    <3> DEFINE m == At(c)
    <3>m. m \in Model /\ Home[c] \in Proc
      BY <3>0, AtModel, RequestAssumption
    <3> HIDE DEF m
    <3>1. CASE Check(c)
      BY <3>0, <3>1, GotoTyped, Unchanged DEF Check, PC
    <3>2. CASE ProbeCache(c)
      <4>1. known[Home[c]][m] \in BOOLEAN
        BY <3>m DEF CacheOK
      <4> QED
        BY <3>0, <3>2, <4>1, GotoTyped, Unchanged DEF ProbeCache, PC, m
    <3>3. CASE ProbeTable(c)
      BY <3>0, <3>3, GotoTyped, Unchanged DEF ProbeTable, PC
    <3>4. CASE Recovered(c)
      <4>1. RequestOK'
        BY <3>0, <3>4, GotoTyped DEF Recovered, PC
      <4>2. BreakerOK'
        BY <3>4, <3>m, SucceedTyped DEF Recovered, m
      <4> QED
        BY <3>0, <3>4, <4>1, <4>2, RememberTyped, Unchanged DEF Recovered
    <3>5. CASE Skipped(c)
      BY <3>0, <3>5, NextCandidateTyped, RememberTyped, Unchanged DEF Skipped
    <3>6. CASE Answers(c) \/ FirstChunk(c)
      <4>1. PICK where \in {"won", "flowing"} : pc' = [pc EXCEPT ![c] = where]
        BY <3>6 DEF Answers, FirstChunk, Goto
      <4>2. /\ used' = [used EXCEPT ![c] = m]
            /\ served' = [served EXCEPT ![c] = served[c] \cup {m}]
            /\ UNCHANGED <<row, breaker, cache, cand, pos, sees>>
        BY <3>6 DEF Answers, FirstChunk, Serve, m
      <4>3. /\ pc' \in [Call -> PC]
            /\ \A d \in Call : pc'[d] # "idle" => pc[d] # "idle"
        BY <3>0, <4>1 DEF RequestOK, PC
      <4>4. used' \in [Call -> Model \cup {None}]
        BY <4>2, <3>m DEF RequestOK
      <4>5. served' \in [Call -> SUBSET Model]
        BY <4>2, <3>m DEF RequestOK
      <4>6. RequestOK'
        BY <4>2, <4>3, <4>4, <4>5 DEF RequestOK
      <4> QED
        BY <4>2, <4>6, Unchanged
    <3>7. CASE EmptyStream(c) \/ Fails(c) \/ StreamEnds(c)
      BY <3>0, <3>7, GotoTyped, Unchanged DEF EmptyStream, Fails, StreamEnds, PC
    <3>8. CASE StreamBreaks(c)
      BY <3>8, LeaveTyped, Unchanged DEF StreamBreaks
    <3>9. CASE Won(c)
      <4>1. RequestOK'
        BY <3>0, <3>9, GotoTyped DEF Won, PC
      <4> QED
        BY <3>9, <3>m, <4>1, SucceedTyped, Unchanged DEF Won, m
    <3>10. CASE WonRow(c)
      BY <3>10, <3>m, LeaveTyped, WriteRowTyped, Unchanged DEF WonRow, m
    <3>11. CASE Lost(c)
      <4>1. RequestOK'
        BY <3>0, <3>11, GotoTyped DEF Lost, PC
      <4> QED
        BY <3>11, <3>m, <4>1, FailTyped, Unchanged DEF Lost, m
    <3>12. CASE ReadStatus(c)
      <4>1. open[Home[c]][m] \in BOOLEAN
        BY <3>m DEF BreakerOK
      <4> QED
        BY <3>0, <3>12, <4>1, GotoTyped, Unchanged DEF ReadStatus, PC, m
    <3>13. CASE LostRow(c)
      <4>1. RowOK'
        BY <3>13, <3>m, WriteRowTyped DEF LostRow, m
      <4> QED
        BY <3>0, <3>13, <4>1, NextCandidateTyped, Unchanged DEF LostRow
    <3> QED
      BY <2>2, <3>1, <3>2, <3>3, <3>4, <3>5, <3>6, <3>7, <3>8, <3>9, <3>10, <3>11,
         <3>12, <3>13 DEF Proceed
  <2>3. ASSUME NEW m \in Model, ProbeModel(m)
        PROVE  RowOK' /\ BreakerOK' /\ CacheOK' /\ RequestOK'
    BY <2>3, WriteRowTyped, Unchanged DEF ProbeModel
  <2>4. ASSUME NEW p \in Proc, ResetAll(p)
        PROVE  RowOK' /\ BreakerOK' /\ CacheOK' /\ RequestOK'
    BY <2>4, FreshTyped, Unchanged DEF ResetAll
  <2>5. ASSUME NEW p \in Mortal, Die(p)
        PROVE  RowOK' /\ BreakerOK' /\ CacheOK' /\ RequestOK'
    <3>1. p \in Proc
      BY RequestAssumption
    <3>2. CacheOK'
      BY <2>5, <3>1, TimeAssumption DEF Die, CacheOK
    <3>3. RequestOK'
      <4>1. /\ pc' = [c \in Call |-> IF Home[c] = p THEN "idle" ELSE pc[c]]
            /\ cand' = [c \in Call |-> IF Home[c] = p THEN <<>> ELSE cand[c]]
            /\ pos' = [c \in Call |-> IF Home[c] = p THEN 0 ELSE pos[c]]
            /\ sees' = [c \in Call |-> IF Home[c] = p THEN FALSE ELSE sees[c]]
            /\ used' = [c \in Call |-> IF Home[c] = p THEN None ELSE used[c]]
            /\ served' = [c \in Call |-> IF Home[c] = p THEN {} ELSE served[c]]
        BY <2>5 DEF Die
      <4>2. pc' \in [Call -> PC] /\ pos' \in [Call -> Nat] /\ sees' \in [Call -> BOOLEAN]
        BY <4>1 DEF RequestOK, PC
      <4>3. cand' \in [Call -> Seq(Model)]
        BY <4>1 DEF RequestOK
      <4>4. used' \in [Call -> Model \cup {None}] /\ served' \in [Call -> SUBSET Model]
        BY <4>1 DEF RequestOK
      <4>5. ASSUME NEW c \in Call, pc'[c] # "idle"
            PROVE  pos'[c] \in 1 .. Len(cand'[c])
        BY <4>1, <4>5 DEF RequestOK
      <4> QED
        BY <4>2, <4>3, <4>4, <4>5 DEF RequestOK
    <3> QED
      BY <2>5, <3>1, <3>2, <3>3, FreshTyped, Unchanged DEF Die
  <2>6. ASSUME Tick
        PROVE  RowOK' /\ BreakerOK' /\ CacheOK' /\ RequestOK'
    <3>1. RowOK'
      BY <2>6, TimeAssumption DEF Tick, RowOK, Smaller
    <3>2. BreakerOK'
      BY <2>6, TimeAssumption DEF Tick, BreakerOK
    <3>3. CacheOK'
      BY <2>6, TimeAssumption DEF Tick, CacheOK, Smaller
    <3> QED
      BY <2>6, <3>1, <3>2, <3>3, Unchanged DEF Tick
  <2>7. CASE UNCHANGED vars
    BY <2>7, Unchanged DEF vars, row, breaker, cache, request
  <2> QED
    BY <2>1, <2>2, <2>3, <2>4, <2>5, <2>6, <2>7 DEF Next
<1> QED
  BY <1>1, <1>2, PTL DEF Spec

-----------------------------------------------------------------------------
(* One model answers.                                                      *)

(* Only a request whose model has answered has served anything.            *)
Answering == {"flowing", "won", "wonRow"}

ServedOK(c) ==
    /\ served[c] \subseteq {used[c]}
    /\ pc[c] \notin Answering => served[c] = {}

AnswersInv == \A c \in Call : ServedOK(c)

(* The inductive step for a request that is not the one that moves.        *)
LEMMA OthersServed ==
  ASSUME AnswersInv, NEW c \in Call,
         \A d \in Call \ {c} : pc'[d] = pc[d] /\ used'[d] = used[d] /\ served'[d] = served[d],
         ServedOK(c)'
  PROVE  AnswersInv'
  BY DEF AnswersInv, ServedOK

(* Leaving a request, or its candidate, before anything was served.        *)
LEMMA LeaveServed ==
  ASSUME RequestOK, AnswersInv, NEW c \in Call, Leave(c)
  PROVE  AnswersInv'
<1>1. /\ pc' = [pc EXCEPT ![c] = "idle"]
      /\ used' = [used EXCEPT ![c] = None]
      /\ served' = [served EXCEPT ![c] = {}]
  BY DEF Leave, Goto
<1>2. ServedOK(c)'
  BY <1>1 DEF RequestOK, ServedOK
<1> QED
  BY <1>1, <1>2, OthersServed DEF RequestOK

LEMMA NextServed ==
  ASSUME RequestOK, AnswersInv, NEW c \in Call, pc[c] \notin Answering, NextCandidate(c)
  PROVE  AnswersInv'
<1>1. CASE pos[c] < Len(cand[c])
  <2>1. /\ pc' = [pc EXCEPT ![c] = "check"]
        /\ used' = used /\ served' = served
    BY <1>1 DEF NextCandidate, Goto
  <2>2. ServedOK(c)'
    BY <2>1 DEF RequestOK, AnswersInv, ServedOK
  <2> QED
    BY <2>1, <2>2, OthersServed DEF RequestOK
<1>2. CASE ~(pos[c] < Len(cand[c]))
  BY <1>2, LeaveServed DEF NextCandidate
<1> QED
  BY <1>1, <1>2

(* Moving on without serving, but never back out of an answer.             *)
LEMMA GotoServed ==
  ASSUME RequestOK, AnswersInv, NEW c \in Call, NEW where,
         Goto(c, where), UNCHANGED <<used, served>>,
         pc[c] \in Answering => where \in Answering
  PROVE  AnswersInv'
<1>1. pc' = [pc EXCEPT ![c] = where]
  BY DEF Goto
<1>2. ServedOK(c)'
  BY <1>1 DEF RequestOK, AnswersInv, ServedOK
<1> QED
  BY <1>1, <1>2, OthersServed DEF RequestOK

(* Whatever a consumer gets comes from the one model its answer is         *)
(* accounted to: stream_with_failover never changes the candidate after    *)
(* the first chunk, and call_with_failover answers once.                   *)
THEOREM OneAnswer == Spec => []OneModelAnswers
<1>1. Init => AnswersInv
  BY DEF Init, AnswersInv, ServedOK, Answering
<1>2. TypeOK /\ AnswersInv /\ [Next]_vars => AnswersInv'
  <2> SUFFICES ASSUME TypeOK, AnswersInv, [Next]_vars PROVE AnswersInv'
    OBVIOUS
  <2>0. RequestOK
    BY Parts
  <2>1. ASSUME NEW c \in Call, Begin(c)
        PROVE  AnswersInv'
    <3>1. PICK s \in Candidates : used' = [used EXCEPT ![c] = s[1]]
      BY <2>1 DEF Begin
    <3>2. pc' = [pc EXCEPT ![c] = "check"] /\ served' = served /\ pc[c] = "idle"
      BY <2>1 DEF Begin, Goto
    <3>3. ServedOK(c)'
      BY <2>0, <3>1, <3>2 DEF RequestOK, AnswersInv, ServedOK, Answering
    <3> QED
      BY <2>0, <3>1, <3>2, <3>3, OthersServed DEF RequestOK
  <2>2. ASSUME NEW c \in Call, Proceed(c)
        PROVE  AnswersInv'
    <3>1. CASE Check(c) \/ ProbeCache(c) \/ ProbeTable(c) \/ Recovered(c)
      BY <2>0, <3>1, GotoServed
         DEF Check, ProbeCache, ProbeTable, Recovered, Answering, request
    <3>2. CASE Skipped(c) \/ LostRow(c)
      BY <2>0, <3>2, NextServed DEF Skipped, LostRow, Answering
    <3>3. CASE Answers(c) \/ FirstChunk(c)
      <4>1. PICK where \in Answering : pc' = [pc EXCEPT ![c] = where]
        BY <3>3 DEF Answers, FirstChunk, Goto, Answering
      <4>2. /\ pc[c] = "call"
            /\ used' = [used EXCEPT ![c] = At(c)]
            /\ served' = [served EXCEPT ![c] = served[c] \cup {At(c)}]
        BY <3>3 DEF Answers, FirstChunk, Serve
      <4>3. ServedOK(c)'
        BY <2>0, <4>1, <4>2 DEF RequestOK, AnswersInv, ServedOK, Answering
      <4> QED
        BY <2>0, <4>1, <4>2, <4>3, OthersServed DEF RequestOK
    <3>4. CASE EmptyStream(c) \/ Fails(c) \/ Lost(c) \/ ReadStatus(c)
      BY <2>0, <3>4, GotoServed DEF EmptyStream, Fails, Lost, ReadStatus, Answering, request
    <3>5. CASE StreamEnds(c) \/ Won(c)
      BY <2>0, <3>5, GotoServed DEF StreamEnds, Won, Answering, request
    <3>6. CASE StreamBreaks(c) \/ WonRow(c)
      BY <2>0, <3>6, LeaveServed DEF StreamBreaks, WonRow
    <3> QED
      BY <2>2, <3>1, <3>2, <3>3, <3>4, <3>5, <3>6 DEF Proceed
  <2>3. ASSUME NEW p \in Mortal, Die(p)
        PROVE  AnswersInv'
    <3>1. /\ pc' = [c \in Call |-> IF Home[c] = p THEN "idle" ELSE pc[c]]
          /\ used' = [c \in Call |-> IF Home[c] = p THEN None ELSE used[c]]
          /\ served' = [c \in Call |-> IF Home[c] = p THEN {} ELSE served[c]]
      BY <2>3 DEF Die
    <3> QED
      BY <3>1 DEF AnswersInv, ServedOK
  <2>4. CASE UNCHANGED <<pc, used, served>>
    BY <2>4 DEF AnswersInv, ServedOK
  <2>5. ASSUME (\E m \in Model : ProbeModel(m)) \/ (\E p \in Proc : ResetAll(p)) \/ Tick
               \/ UNCHANGED vars
        PROVE  UNCHANGED <<pc, used, served>>
    BY <2>5 DEF ProbeModel, ResetAll, Tick, vars, request
  <2> QED
    BY <2>1, <2>2, <2>3, <2>4, <2>5 DEF Next
<1>3. AnswersInv => OneModelAnswers
  BY DEF AnswersInv, ServedOK, OneModelAnswers
<1> QED
  BY <1>1, <1>2, <1>3, TypeCorrect, PTL DEF Spec

-----------------------------------------------------------------------------
(* The answers of the cache are fresh.                                     *)

(* The ghost since is 0 while the row says 'healthy'.                      *)
RowFresh == \A m \in Model : health[m] = "healthy" => since[m] = 0

(* A positive entry of the cache is no younger than what it says.          *)
CacheFresh ==
    \A p \in Proc, m \in Model :
        known[p][m] /\ age[p][m] < CacheTTL => since[m] <= age[p][m]

(* What a request has read, and not yet acted upon, is as fresh.           *)
ReadFresh(c) ==
    /\ pc[c] = "cached" /\ sees[c] => since[At(c)] < CacheTTL
    /\ pc[c] = "read" /\ sees[c] => since[At(c)] = 0

FreshInv == RowFresh /\ CacheFresh /\ \A c \in Call : ReadFresh(c)

OnlyMoves(c) ==
    \A d \in Call \ {c} : /\ pc'[d] = pc[d] /\ cand'[d] = cand[d]
                          /\ pos'[d] = pos[d] /\ sees'[d] = sees[d]

Younger == \A m \in Model : since'[m] <= since[m]

(* The row is written, or not: either way it does not age.                 *)
LEMMA WriteRowFresh ==
  ASSUME RowOK, RowFresh, NEW m \in Model, NEW status, WriteRow(m, status), RowOK'
  PROVE  RowFresh' /\ Younger
<1>1. /\ since' = [since EXCEPT ![m] = IF health'[m] = "healthy" THEN 0 ELSE since[m]]
      /\ \A n \in Model \ {m} : health'[n] = health[n]
  BY DEF WriteRow, RowOK
<1>2. RowFresh'
  BY <1>1 DEF RowFresh, RowOK
<1>3. Younger
  BY <1>1 DEF Younger, RowOK
<1> QED
  BY <1>2, <1>3

(* A cache that is left alone stays fresh while the rows do not age.       *)
LEMMA CacheKept ==
  ASSUME RowOK, RowOK', CacheOK, CacheFresh, Younger, UNCHANGED cache
  PROVE  CacheFresh'
<1> SUFFICES ASSUME NEW p \in Proc, NEW m \in Model, known[p][m], age[p][m] < CacheTTL
             PROVE  since'[m] <= age[p][m]
  BY DEF CacheFresh, cache
<1>1. since'[m] <= since[m] /\ since[m] <= age[p][m]
  BY DEF Younger, CacheFresh
<1>2. since[m] \in Int /\ since'[m] \in Int /\ age[p][m] \in Int
  BY DEF RowOK, CacheOK
<1> QED
  BY <1>1, <1>2

(* A request that does not move keeps what it has read.                    *)
LEMMA ReadKept ==
  ASSUME RowOK, RowOK', RequestOK, Younger, NEW d \in Call, ReadFresh(d),
         pc'[d] = pc[d], cand'[d] = cand[d], pos'[d] = pos[d], sees'[d] = sees[d]
  PROVE  ReadFresh(d)'
<1>1. CASE pc[d] = "idle"
  BY <1>1 DEF ReadFresh
<1>2. CASE pc[d] # "idle"
  <2>1. At(d) \in Model /\ At(d)' = At(d)
    BY <1>2, AtModel DEF At
  <2>2. /\ since[At(d)] \in Nat /\ since'[At(d)] \in Nat
        /\ since'[At(d)] <= since[At(d)]
    BY <2>1 DEF RowOK, Younger
  <2>3. CacheTTL \in Nat
    BY TimeAssumption
  <2> QED
    BY <2>1, <2>2, <2>3 DEF ReadFresh
<1> QED
  BY <1>1, <1>2

(* The step of a request that neither leaves it with something read nor    *)
(* touches the cache.                                                      *)
LEMMA MovesFresh ==
  ASSUME RowOK, RowOK', CacheOK, RequestOK, FreshInv, NEW c \in Call,
         RowFresh', Younger, UNCHANGED cache, OnlyMoves(c), ReadFresh(c)'
  PROVE  FreshInv'
<1>1. CacheFresh'
  BY CacheKept DEF FreshInv
<1>2. ASSUME NEW d \in Call \ {c} PROVE ReadFresh(d)'
  BY ReadKept DEF FreshInv, OnlyMoves
<1> QED
  BY <1>1, <1>2 DEF FreshInv

(* Where a request goes when it leaves its candidate.                      *)
LEMMA LeaveMoves ==
  ASSUME RequestOK, NEW c \in Call, Leave(c)
  PROVE  OnlyMoves(c) /\ pc'[c] = "idle"
  BY DEF RequestOK, OnlyMoves, Leave, Goto

LEMMA NextMoves ==
  ASSUME RequestOK, NEW c \in Call, NextCandidate(c)
  PROVE  OnlyMoves(c) /\ pc'[c] \in {"idle", "check"}
<1>1. CASE pos[c] < Len(cand[c])
  <2>1. /\ pc' = [pc EXCEPT ![c] = "check"] /\ cand' = cand
        /\ pos' = [pos EXCEPT ![c] = pos[c] + 1]
        /\ sees' = [sees EXCEPT ![c] = FALSE]
    BY <1>1 DEF NextCandidate, Goto
  <2> QED
    BY <2>1 DEF RequestOK, OnlyMoves
<1>2. CASE ~(pos[c] < Len(cand[c]))
  BY <1>2, LeaveMoves DEF NextCandidate
<1> QED
  BY <1>1, <1>2

(* The entry a request leaves in the cache is fresh, because nothing the   *)
(* row can have become since the read is older than the read.              *)
LEMMA RememberFresh ==
  ASSUME CacheOK, FreshInv, NEW c \in Call, pc[c] \in {"cached", "read"},
         At(c) \in Model, Home[c] \in Proc, UNCHANGED row, Remember(c)
  PROVE  CacheFresh'
<1>1. CASE pc[c] = "read"
  <2>1. /\ known' = [known EXCEPT ![Home[c]][At(c)] = sees[c]]
        /\ age' = [age EXCEPT ![Home[c]][At(c)] = 0]
    BY <1>1 DEF Remember
  <2>2. sees[c] => since[At(c)] = 0
    BY <1>1 DEF FreshInv, ReadFresh
  <2>3. ASSUME NEW p \in Proc, NEW m \in Model, known'[p][m], age'[p][m] < CacheTTL
        PROVE  since'[m] <= age'[p][m]
    <3>1. since' = since
      BY DEF row
    <3>2. CASE p = Home[c] /\ m = At(c)
      BY <2>1, <2>2, <2>3, <3>1, <3>2 DEF CacheOK
    <3>3. CASE ~(p = Home[c] /\ m = At(c))
      <4>1. known'[p][m] = known[p][m] /\ age'[p][m] = age[p][m]
        BY <2>1, <3>3 DEF CacheOK
      <4> QED
        BY <2>3, <3>1, <4>1 DEF FreshInv, CacheFresh
    <3> QED
      BY <3>2, <3>3
  <2> QED
    BY <2>3 DEF CacheFresh
<1>2. CASE pc[c] # "read"
  BY <1>2 DEF Remember, cache, row, FreshInv, CacheFresh
<1> QED
  BY <1>1, <1>2

(* The step of Recovered and Skipped.                                      *)
LEMMA RememberedFresh ==
  ASSUME RowOK, CacheOK, RequestOK, FreshInv, NEW c \in Call, pc[c] \in {"cached", "read"},
         UNCHANGED row, Remember(c), OnlyMoves(c), pc'[c] \notin {"cached", "read"}
  PROVE  FreshInv'
<1>1. At(c) \in Model /\ Home[c] \in Proc
  BY AtModel, RequestAssumption
<1>2. CacheFresh'
  BY <1>1, RememberFresh
<1>3. RowOK' /\ RowFresh' /\ Younger
  BY Unchanged DEF FreshInv, RowFresh, Younger, RowOK, row
<1>4. ASSUME NEW d \in Call PROVE ReadFresh(d)'
  <2>1. CASE d = c
    BY <2>1 DEF ReadFresh
  <2>2. CASE d # c
    BY <1>3, <2>2, ReadKept DEF FreshInv, OnlyMoves
  <2> QED
    BY <2>1, <2>2
<1> QED
  BY <1>2, <1>3, <1>4 DEF FreshInv

(* No request passes an open breaker on an answer of the table that is     *)
(* CacheTTL old, whichever threads fill and read _HEALTH_CACHE and whoever *)
(* writes ai_model_health meanwhile.                                       *)
THEOREM Freshness == Spec => []FreshRecovery
<1>1. Init => FreshInv
  <2> SUFFICES ASSUME Init PROVE FreshInv
    OBVIOUS
  <2>1. RowFresh
    BY DEF Init, RowFresh
  <2>2. CacheFresh
    BY DEF Init, CacheFresh
  <2>3. \A c \in Call : ReadFresh(c)
    BY DEF Init, ReadFresh
  <2> QED
    BY <2>1, <2>2, <2>3 DEF FreshInv
<1>2. TypeOK /\ TypeOK' /\ FreshInv /\ [Next]_vars => FreshInv'
  <2> SUFFICES ASSUME TypeOK, TypeOK', FreshInv, [Next]_vars PROVE FreshInv'
    OBVIOUS
  <2>0. RowOK /\ CacheOK /\ RequestOK /\ RowOK' /\ CacheOK'
    BY Parts, PartsNext
  <2>r. ASSUME UNCHANGED row PROVE RowFresh' /\ Younger
    BY <2>0, <2>r DEF FreshInv, RowFresh, Younger, RowOK, row
  <2>1. ASSUME NEW c \in Call, Begin(c) \/ Proceed(c)
        PROVE  FreshInv'
    <3> DEFINE Away == OnlyMoves(c) /\ pc'[c] \notin {"cached", "read"}
    <3>0. ASSUME RowFresh', Younger, UNCHANGED cache, Away PROVE FreshInv'
      <4>1. ReadFresh(c)'
        BY <3>0 DEF ReadFresh
      <4> QED
        BY <2>0, <3>0, <4>1, MovesFresh
    <3>1. CASE Begin(c)
      <4>1. /\ pc' = [pc EXCEPT ![c] = "check"]
            /\ \E s \in Candidates : cand' = [cand EXCEPT ![c] = s]
            /\ pos' = [pos EXCEPT ![c] = 1] /\ sees' = sees
            /\ UNCHANGED <<row, cache>>
        BY <3>1 DEF Begin, Goto
      <4>2. Away
        BY <2>0, <4>1 DEF OnlyMoves, RequestOK
      <4> QED
        BY <2>r, <3>0, <4>1, <4>2
    <3>2. CASE Check(c) \/ Answers(c) \/ FirstChunk(c) \/ EmptyStream(c)
               \/ Fails(c) \/ StreamEnds(c) \/ Won(c) \/ Lost(c)
      <4>1. /\ \E where \in PC \ {"cached", "read"} : pc' = [pc EXCEPT ![c] = where]
            /\ UNCHANGED <<cand, pos, sees, row, cache>>
        BY <3>2 DEF Check, Answers, FirstChunk, EmptyStream, Serve, Fails, StreamEnds, Won,
                    Lost, Goto, PC, request
      <4>2. Away
        BY <2>0, <4>1 DEF OnlyMoves, RequestOK
      <4> QED
        BY <2>r, <3>0, <4>1, <4>2
    <3>3. CASE ReadStatus(c)
      <4>1. /\ pc' = [pc EXCEPT ![c] = "lostRow"]
            /\ \E v : sees' = [sees EXCEPT ![c] = v]
            /\ UNCHANGED <<cand, pos, row, cache>>
        BY <3>3 DEF ReadStatus, Goto, request
      <4>2. Away
        BY <2>0, <4>1 DEF OnlyMoves, RequestOK
      <4> QED
        BY <2>r, <3>0, <4>1, <4>2
    <3>4. CASE StreamBreaks(c)
      BY <2>0, <2>r, <3>0, <3>4, LeaveMoves DEF StreamBreaks
    <3>5. CASE WonRow(c) \/ LostRow(c)
      <4>1. PICK status : WriteRow(At(c), status)
        BY <3>5 DEF WonRow, LostRow
      <4>2. At(c) \in Model
        BY <2>0, <3>5, AtModel DEF WonRow, LostRow
      <4>3. RowFresh' /\ Younger
        BY <2>0, <4>1, <4>2, WriteRowFresh DEF FreshInv
      <4>4. Away
        BY <2>0, <3>5, LeaveMoves, NextMoves DEF WonRow, LostRow
      <4> QED
        BY <3>0, <3>5, <4>3, <4>4 DEF WonRow, LostRow
    <3>6. CASE ProbeCache(c) \/ ProbeTable(c)
      <4>1. /\ \E where : pc' = [pc EXCEPT ![c] = where]
            /\ \E v : sees' = [sees EXCEPT ![c] = v]
            /\ UNCHANGED <<cand, pos, row, cache>>
        BY <3>6 DEF ProbeCache, ProbeTable, Goto, request
      <4>2. OnlyMoves(c)
        BY <2>0, <4>1 DEF OnlyMoves, RequestOK
      <4>3. At(c) \in Model /\ Home[c] \in Proc /\ At(c)' = At(c) /\ since' = since
        BY <2>0, <3>6, <4>1, AtModel, RequestAssumption DEF ProbeCache, ProbeTable, At, row
      <4>4. CASE ProbeCache(c)
        <5>1. /\ pc'[c] = "cached" /\ age[Home[c]][At(c)] < CacheTTL
              /\ sees'[c] = known[Home[c]][At(c)]
          BY <2>0, <4>4 DEF ProbeCache, Goto, RequestOK
        <5>2. sees'[c] => since[At(c)] <= age[Home[c]][At(c)]
          BY <4>3, <5>1 DEF FreshInv, CacheFresh
        <5>3. since[At(c)] \in Int /\ age[Home[c]][At(c)] \in Int /\ CacheTTL \in Int
          BY <2>0, <4>3, TimeAssumption DEF RowOK, CacheOK
        <5>4. sees'[c] => since[At(c)] < CacheTTL
          BY <5>1, <5>2, <5>3
        <5>5. ReadFresh(c)'
          BY <4>3, <5>1, <5>4 DEF ReadFresh
        <5> QED
          BY <2>0, <2>r, <4>1, <4>2, <5>5, MovesFresh
      <4>5. CASE ProbeTable(c)
        <5>1. /\ pc'[c] = "read"
              /\ sees'[c] => health[At(c)] = "healthy"
          BY <2>0, <4>5 DEF ProbeTable, Goto, RequestOK
        <5>2. ReadFresh(c)'
          BY <4>3, <5>1 DEF ReadFresh, FreshInv, RowFresh
        <5> QED
          BY <2>0, <2>r, <4>1, <4>2, <5>2, MovesFresh
      <4> QED
        BY <3>6, <4>4, <4>5
    <3>7. CASE Recovered(c)
      <4>1. /\ pc' = [pc EXCEPT ![c] = "call"]
            /\ UNCHANGED <<cand, pos, sees, row>>
            /\ Remember(c) /\ pc[c] \in {"cached", "read"}
        BY <3>7 DEF Recovered, Goto, request
      <4>2. Away
        BY <2>0, <4>1 DEF OnlyMoves, RequestOK
      <4> QED
        BY <2>0, <4>1, <4>2, RememberedFresh
    <3>8. CASE Skipped(c)
      <4>1. Away
        BY <2>0, <3>8, NextMoves DEF Skipped
      <4> QED
        BY <2>0, <3>8, <4>1, RememberedFresh DEF Skipped
    <3> QED
      BY <2>1, <3>1, <3>2, <3>3, <3>4, <3>5, <3>6, <3>7, <3>8 DEF Proceed
  <2>q. ASSUME UNCHANGED <<pc, sees, request>>, Younger
        PROVE  \A d \in Call : ReadFresh(d)'
    BY <2>0, <2>q, ReadKept DEF FreshInv, request
  <2>2. ASSUME NEW m \in Model, ProbeModel(m)
        PROVE  FreshInv'
    <3>1. RowFresh' /\ Younger
      BY <2>0, <2>2, WriteRowFresh DEF ProbeModel, FreshInv
    <3>2. CacheFresh'
      BY <2>0, <2>2, <3>1, CacheKept DEF ProbeModel, FreshInv
    <3> QED
      BY <2>q, <2>2, <3>1, <3>2 DEF ProbeModel, FreshInv
  <2>3. ASSUME UNCHANGED <<row, cache, pc, sees, request>>
        PROVE  FreshInv'
    <3>1. RowFresh' /\ Younger
      BY <2>r, <2>3
    <3>2. CacheFresh'
      BY <2>0, <2>3, <3>1, CacheKept DEF FreshInv
    <3> QED
      BY <2>q, <2>3, <3>1, <3>2 DEF FreshInv
  <2>4. ASSUME NEW p \in Mortal, Die(p)
        PROVE  FreshInv'
    <3>1. /\ pc' = [c \in Call |-> IF Home[c] = p THEN "idle" ELSE pc[c]]
          /\ cand' = [c \in Call |-> IF Home[c] = p THEN <<>> ELSE cand[c]]
          /\ pos' = [c \in Call |-> IF Home[c] = p THEN 0 ELSE pos[c]]
          /\ sees' = [c \in Call |-> IF Home[c] = p THEN FALSE ELSE sees[c]]
          /\ UNCHANGED row
      BY <2>4 DEF Die
    <3>2. RowFresh' /\ Younger
      BY <2>r, <3>1
    <3>3. /\ known' = [known EXCEPT ![p] = [m \in Model |-> FALSE]]
          /\ age' = [age EXCEPT ![p] = [m \in Model |-> CacheTTL]]
      BY <2>4 DEF Die
    <3>4. p \in Proc /\ CacheTTL \in Nat
      BY RequestAssumption, TimeAssumption
    <3>5. CacheFresh'
      BY <2>0, <3>1, <3>3, <3>4 DEF FreshInv, CacheFresh, CacheOK, row
    <3>6. ASSUME NEW c \in Call PROVE ReadFresh(c)'
      <4>1. CASE Home[c] = p
        BY <3>1, <4>1 DEF ReadFresh
      <4>2. CASE Home[c] # p
        <5>1. pc'[c] = pc[c] /\ cand'[c] = cand[c] /\ pos'[c] = pos[c] /\ sees'[c] = sees[c]
          BY <3>1, <4>2
        <5> QED
          BY <2>0, <3>2, <5>1, ReadKept DEF FreshInv
      <4> QED
        BY <4>1, <4>2
    <3> QED
      BY <3>2, <3>5, <3>6 DEF FreshInv
  <2>5. ASSUME Tick
        PROVE  FreshInv'
    <3>1. /\ age' = [p \in Proc |-> [m \in Model |-> Smaller(age[p][m] + 1, CacheTTL)]]
          /\ since' = [m \in Model |-> IF health[m] = "healthy" THEN 0
                                       ELSE Smaller(since[m] + 1, CacheTTL)]
          /\ UNCHANGED <<health, known, pc>>
          /\ \A c \in Call : pc[c] \notin {"cached", "read"}
      BY <2>5 DEF Tick
    <3>2. RowFresh'
      BY <3>1 DEF RowFresh
    <3>3. ASSUME NEW p \in Proc, NEW m \in Model, known'[p][m], age'[p][m] < CacheTTL
          PROVE  since'[m] <= age'[p][m]
      <4>1. age[p][m] \in Nat /\ since[m] \in Nat /\ CacheTTL \in Nat
        BY <2>0, TimeAssumption DEF CacheOK, RowOK
      <4>2. age'[p][m] = age[p][m] + 1 /\ age[p][m] < CacheTTL
        BY <3>1, <3>3, <4>1 DEF Smaller
      <4>3. since[m] <= age[p][m]
        BY <3>1, <3>3, <4>2 DEF FreshInv, CacheFresh
      <4>4. since'[m] <= since[m] + 1
        BY <3>1, <4>1 DEF Smaller
      <4>5. since'[m] \in Nat
        BY <3>1, <4>1 DEF Smaller
      <4> QED
        BY <4>1, <4>2, <4>3, <4>4, <4>5
    <3>4. \A c \in Call : ReadFresh(c)'
      BY <3>1 DEF ReadFresh
    <3> QED
      BY <3>2, <3>3, <3>4 DEF FreshInv, CacheFresh
  <2>6. ASSUME (\E p \in Proc : ResetAll(p)) \/ UNCHANGED vars
        PROVE  UNCHANGED <<row, cache, pc, sees, request>>
    BY <2>6 DEF ResetAll, vars, row, cache, request
  <2> QED
    BY <2>1, <2>2, <2>3, <2>4, <2>5, <2>6 DEF Next
<1>3. TypeOK /\ FreshInv => FreshRecovery
  <2> SUFFICES ASSUME FreshInv, NEW c \in Call, pc[c] \in {"cached", "read"}, sees[c]
               PROVE  since[At(c)] < CacheTTL
    BY DEF FreshRecovery
  <2>1. CacheTTL > 0
    BY TimeAssumption
  <2> QED
    BY <2>1 DEF FreshInv, ReadFresh
<1> QED
  BY <1>1, <1>2, <1>3, TypeCorrect, PTL DEF Spec

=============================================================================
