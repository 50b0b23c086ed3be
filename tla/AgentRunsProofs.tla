--------------------------- MODULE AgentRunsProofs ---------------------------
(***************************************************************************)
(* Theorems about AgentRuns for every number of processes, executions,     *)
(* rounds, tool calls, cancels and faults.  None of the safety properties  *)
(* is inductive.  NoOrphans and ToldTheTruth follow from the transcripts   *)
(* (Transcripts: settled except in the execution that waits for its tools, *)
(* and sound with respect to what was asked for and what ran), whatever    *)
(* overlaps.  CancelIsDelivered and Remembered hold while no two           *)
(* executions overlap (solo) and need who is alive, in which order the     *)
(* executions come (Roles, Order, Alone), that one which was registered    *)
(* hears its row (Listens), and that the transcript in memory stands for   *)
(* every batch of the checkpoint (Carries).  NothingLeft needs an          *)
(* execution that will remove each registration (Cleared).                 *)
(*                                                                         *)
(* The proof goes by what a step does to transcripts: a step of iter_react *)
(* is a Loop step with the transcript it ends with, the bookkeeping steps  *)
(* around it are Quiet, and starts, resumes and crashes stand alone.       *)
(***************************************************************************)
EXTENDS AgentRuns, SequenceTheorems, TLAPS

\* An execution, and when it has begun to be one.
Exec == [pc : Steps, proc : Processes \union {NoProcess}, gated : BOOLEAN,
         round : 0..(MaxRounds + 1), msgs : Seq(Messages), fails : Nat, set : BOOLEAN,
         watch : BOOLEAN, stop : BOOLEAN, asked : BOOLEAN, deaf : BOOLEAN]

Starting(e) == exe[e].pc \in {"register", "persist"}
Holds(e) == Starting(e) \/ Loops(e)

\* A settled transcript: an answer with calls is followed by their results, and
\* a result belongs to a call of the answer before it.
Follows(m, j, i) ==
    /\ m[j].kind = "call" /\ m[j].batch = m[i].batch
    /\ i = j + m[i].call /\ m[i].call \in 1..m[j].calls
Settled(m) ==
    /\ \A j \in DOMAIN m : m[j].kind = "call" =>
        \A k \in 1..m[j].calls :
            /\ j + k \in DOMAIN m
            /\ m[j + k].kind = "result" /\ m[j + k].batch = m[j].batch /\ m[j + k].call = k
    /\ \A i \in DOMAIN m : m[i].kind = "result" => \E j \in DOMAIN m : Follows(m, j, i)
\* One that waits for the results of its last answer.
Asking(m) ==
    /\ m # <<>> /\ m[Len(m)].kind = "call"
    /\ Settled(SubSeq(m, 1, Len(m) - 1))

\* A sound transcript: it knows only batches that were asked for, reports of
\* each call what became of it, and calls none interrupted that may yet run.
Pending == {Asked(e).batch : e \in {f \in Executions : At(f, "tools")}}
Sound(m, known, done, pending) ==
    /\ Batches(m) \subseteq 1..known
    /\ \A i \in DOMAIN m : m[i].kind = "result" =>
        /\ m[i].batch \in 1..known
        /\ m[i].how = "interrupted" => <<m[i].batch, m[i].call>> \notin done
        /\ m[i].how = "interrupted" => m[i].batch \notin pending
        /\ m[i].how = "ran" => <<m[i].batch, m[i].call>> \in done

Transcripts ==
    /\ Sound(checkpoint.msgs, batches, ran, Pending) /\ Settled(checkpoint.msgs)
    /\ \A e \in Executions : Sound(exe[e].msgs, batches, ran, Pending)
    /\ \A e \in Executions :
        IF At(e, "tools") THEN Asking(exe[e].msgs) ELSE Settled(exe[e].msgs)
    /\ \A c \in ran : c[1] \in 1..batches

\* The rounds of an execution are counted from one and bounded.
Rounds ==
    \A e \in Executions :
        /\ Holds(e) => exe[e].round >= 1
        /\ exe[e].pc \in {"model", "tools", "save"} => exe[e].round <= MaxRounds
\* What a sub-agent, a live execution, an idle one and a finished one are.
Roles ==
    \A e \in Executions :
        /\ exe[e].gated => exe[e].pc \notin {"register", "persist", "unregister", "drop"}
        /\ exe[e].asked => Loops(e) /\ ~exe[e].gated
        /\ Live(e) => exe[e].proc \in Processes
        /\ At(e, "off") => exe[e].proc = NoProcess
        /\ ~Holds(e) => exe[e].msgs = <<>>
\* Resumes come in their order, after the first execution.
Order ==
    /\ \A e, f \in Executions : e < f /\ At(e, "off") => At(f, "off")
    /\ \A e \in Executions : e = 1 /\ At(e, "off") => checkpoint.msgs = <<>>
Alone == solo => \A e, f \in Executions : Live(e) /\ Live(f) => e = f
\* Compaction forgets no batch, and a resume begins with all of them.
Carries ==
    solo => \A e \in Executions : Holds(e) => Batches(checkpoint.msgs) \subseteq Batches(exe[e].msgs)
\* A registered execution is told by the event or by the thread that polls.
Listens ==
    solo => \A e \in Executions :
        /\ Starting(e) => ~exe[e].stop
        /\ Loops(e) /\ ~exe[e].gated /\ ~exe[e].deaf =>
            row.exists /\ (exe[e].set \/ (exe[e].watch /\ ~exe[e].stop))
\* Who will remove the entry of its process, and who the row.
Unregisters(e) == ~exe[e].gated /\ (At(e, "persist") \/ Loops(e) \/ At(e, "unregister"))
Drops(e) == ~exe[e].gated /\ (Loops(e) \/ At(e, "unregister") \/ At(e, "drop"))
Cleared ==
    /\ \A p \in Processes : registry[p] # NoExecution =>
        \E e \in Executions : exe[e].proc = p /\ Unregisters(e)
    /\ row.exists /\ ~stale => \E e \in Executions : Drops(e)

Control == Roles /\ Order /\ Alone /\ Listens /\ CancelIsDelivered /\ Cleared
Memory == Carries /\ Remembered
IInv == TypeOK /\ Rounds /\ Control /\ Transcripts /\ Memory

-----------------------------------------------------------------------------
\* What a transcript is made of.
Calling == [kind : {"call"}, batch : Nat, calls : 1..MaxCalls]
Reporting == [kind : {"result"}, batch : Nat, call : 1..MaxCalls,
              how : {"ran", "interrupted", "cancelled"}]
Standing == [kind : {"summary"}, stands : SUBSET Nat]

LEMMA Kinds ==
  ASSUME NEW x \in Messages
  PROVE  /\ x.kind = "query" => x = Query
         /\ x.kind = "call" => x \in Calling
         /\ x.kind = "result" => x \in Reporting
         /\ x.kind = "summary" => x \in Standing
         /\ x.kind \in {"query", "call", "result", "summary"}
  BY DEF Messages, Query, Calling, Reporting, Standing

LEMMA Made ==
  /\ Query \in Messages
  /\ \A B \in SUBSET Nat : Summary(B) \in Messages
  /\ \A b \in Nat, n \in 1..MaxCalls : Ask(b, n) \in Messages
  /\ \A b \in Nat, i \in 1..MaxCalls, how \in {"ran", "interrupted", "cancelled"} :
        Result(b, i, how) \in Messages
  BY DEF Messages, Query, Summary, Ask, Result

\* The batches of a transcript, without the CASE.
Of(x, b) ==
    \/ x.kind = "call" /\ x.batch = b
    \/ x.kind = "summary" /\ b \in x.stands

LEMMA BatchOf ==
  ASSUME NEW x, NEW b
  PROVE  b \in (CASE x.kind = "call" -> {x.batch} [] x.kind = "summary" -> x.stands [] OTHER -> {})
            <=> Of(x, b)
<1>1. CASE x.kind = "call"
  <2>1. Of(x, b) <=> b \in {x.batch}
    BY <1>1 DEF Of
  <2> QED BY <1>1, <2>1
<1>2. CASE x.kind = "summary"
  BY <1>2 DEF Of
<1>3. CASE x.kind \notin {"call", "summary"}
  BY <1>3 DEF Of
<1> QED BY <1>1, <1>2, <1>3

LEMMA BatchesMember ==
  ASSUME NEW m, NEW b
  PROVE  b \in Batches(m) <=> \E i \in DOMAIN m : Of(m[i], b)
<1> DEFINE S(i) == CASE m[i].kind = "call" -> {m[i].batch} [] m[i].kind = "summary" -> m[i].stands
                     [] OTHER -> {}
<1>1. b \in Batches(m) <=> \E i \in DOMAIN m : b \in S(i)
  BY Zenon DEF Batches
<1>2. \A i \in DOMAIN m : b \in S(i) <=> Of(m[i], b)
  BY BatchOf
<1> HIDE DEF S
<1> QED BY <1>1, <1>2

LEMMA BatchesNat ==
  ASSUME NEW m \in Seq(Messages)
  PROVE  Batches(m) \subseteq Nat
<1> SUFFICES ASSUME NEW b \in Batches(m) PROVE b \in Nat
  OBVIOUS
<1>1. PICK i \in DOMAIN m : Of(m[i], b)
  BY BatchesMember
<1>2. m[i] \in Messages
  BY <1>1
<1> QED BY <1>1, <1>2, Kinds DEF Of, Calling, Standing

LEMMA NoBatches == Batches(<<>>) = {} /\ Batches(<<Query>>) = {}
<1>1. \A b : b \notin Batches(<<>>)
  BY BatchesMember
<1>2. \A b : b \notin Batches(<<Query>>)
  BY BatchesMember DEF Of, Query
<1> QED BY <1>1, <1>2

LEMMA BatchesConcat ==
  ASSUME NEW m \in Seq(Messages), NEW n \in Seq(Messages)
  PROVE  Batches(m \o n) = Batches(m) \union Batches(n)
<1> DEFINE c == m \o n
<1>0. /\ DOMAIN m = 1..Len(m) /\ DOMAIN n = 1..Len(n) /\ DOMAIN c = 1..(Len(m) + Len(n))
      /\ \A i \in 1..Len(m) : c[i] = m[i]
      /\ \A i \in 1..Len(n) : c[Len(m) + i] = n[i]
      /\ \A i \in DOMAIN c : i \in DOMAIN m \/ \E k \in DOMAIN n : i = Len(m) + k
      /\ Len(m) \in Nat /\ Len(n) \in Nat
  <2>1. Len(m) \in Nat /\ Len(n) \in Nat
    OBVIOUS
  <2>2. /\ DOMAIN m = 1..Len(m) /\ DOMAIN n = 1..Len(n) /\ DOMAIN c = 1..(Len(m) + Len(n))
        /\ \A i \in 1..Len(m) : c[i] = m[i]
        /\ \A i \in 1..Len(n) : c[Len(m) + i] = n[i]
    OBVIOUS
  <2>3. \A i \in 1..(Len(m) + Len(n)) : i \in 1..Len(m) \/ (i - Len(m) \in 1..Len(n) /\ i = Len(m) + (i - Len(m)))
    BY <2>1
  <2> QED BY <2>1, <2>2, <2>3
<1> HIDE DEF c
<1>1. ASSUME NEW b PROVE b \in Batches(c) <=> b \in Batches(m) \/ b \in Batches(n)
  <2>1. ASSUME b \in Batches(c) PROVE b \in Batches(m) \/ b \in Batches(n)
    BY <1>0, <2>1, BatchesMember
  <2>2. ASSUME b \in Batches(m) PROVE b \in Batches(c)
    <3>1. PICK i \in DOMAIN m : Of(m[i], b)
      BY <2>2, BatchesMember
    <3>2. i \in DOMAIN c /\ c[i] = m[i]
      BY <1>0, <3>1
    <3> QED BY <3>1, <3>2, BatchesMember
  <2>3. ASSUME b \in Batches(n) PROVE b \in Batches(c)
    <3>1. PICK i \in DOMAIN n : Of(n[i], b)
      BY <2>3, BatchesMember
    <3>2. Len(m) + i \in DOMAIN c /\ c[Len(m) + i] = n[i]
      BY <1>0, <3>1
    <3> QED BY <3>1, <3>2, BatchesMember
  <2> QED BY <2>1, <2>2, <2>3
<1> QED BY <1>1 DEF c

LEMMA BatchesOne ==
  ASSUME NEW x \in Messages
  PROVE  /\ x.kind \in {"query", "result"} => Batches(<<x>>) = {}
         /\ x.kind = "call" => Batches(<<x>>) = {x.batch}
         /\ x.kind = "summary" => Batches(<<x>>) = x.stands
<1>1. \A b : b \in Batches(<<x>>) <=> Of(x, b)
  BY BatchesMember
<1> QED BY <1>1 DEF Of

-----------------------------------------------------------------------------
\* Compaction.
Cut(m, i) == <<Summary(Batches(SubSeq(m, 1, i - 1)))>> \o SubSeq(m, i, Len(m))

LEMMA ShrunkCuts ==
  ASSUME NEW m, NEW c \in Shrunk(m)
  PROVE  c = m \/ \E i \in DOMAIN m : m[i].kind \in {"query", "call"} /\ c = Cut(m, i)
  BY Zenon DEF Shrunk, Cut

LEMMA CutShape ==
  ASSUME NEW m \in Seq(Messages), NEW i \in DOMAIN m
  PROVE  /\ Cut(m, i) \in Seq(Messages)
         /\ DOMAIN Cut(m, i) = 1..(Len(m) - i + 2)
         /\ Cut(m, i)[1].kind = "summary"
         /\ \A k \in 1..(Len(m) - i + 1) : Cut(m, i)[k + 1] = m[i + k - 1]
         /\ Batches(Cut(m, i)) = Batches(m)
<1> DEFINE pre == SubSeq(m, 1, i - 1)
           suf == SubSeq(m, i, Len(m))
           s == Summary(Batches(pre))
<1>1. i \in 1..Len(m) /\ Len(m) \in Nat
  OBVIOUS
<1>2. pre \in Seq(Messages) /\ suf \in Seq(Messages) /\ Len(suf) = Len(m) - i + 1
      /\ \A k \in 1..(Len(m) - i + 1) : suf[k] = m[i + k - 1]
  BY <1>1
<1>3. m = pre \o suf
  <2>1. /\ 1 \in 1..Len(m) + 1 /\ i - 1 \in 1 - 1..Len(m) /\ Len(m) \in i - 1..Len(m)
        /\ (i - 1) + 1 = i
    BY <1>1
  <2>2. SubSeq(m, 1, i - 1) \o SubSeq(m, (i - 1) + 1, Len(m)) = SubSeq(m, 1, Len(m))
    BY <2>1, ConcatAdjacentSubSeq
  <2>3. SubSeq(m, 1, Len(m)) = m
    BY SubSeqFull
  <2> QED BY <2>1, <2>2, <2>3
<1>4. s \in Messages /\ s.kind = "summary" /\ s.stands = Batches(pre)
  BY <1>2, Made, BatchesNat DEF Summary
<1>8. Cut(m, i) = <<s>> \o suf
  BY DEF Cut
<1> HIDE DEF s, pre, suf
<1>5. Batches(<<s>>) = Batches(pre)
  BY <1>4, BatchesOne
<1>6. <<s>> \in Seq(Messages)
  BY <1>4
<1>7. Batches(<<s>> \o suf) = Batches(m)
  <2>1. Batches(<<s>> \o suf) = Batches(<<s>>) \union Batches(suf)
    BY <1>2, <1>6, BatchesConcat
  <2>2. Batches(pre \o suf) = Batches(pre) \union Batches(suf)
    BY <1>2, BatchesConcat
  <2> QED BY <1>3, <1>5, <2>1, <2>2
<1>9. /\ <<s>> \o suf \in Seq(Messages) /\ Len(<<s>> \o suf) = Len(m) - i + 2
      /\ (<<s>> \o suf)[1] = s
      /\ \A k \in 1..(Len(m) - i + 1) : (<<s>> \o suf)[k + 1] = suf[k]
  BY <1>1, <1>2, <1>6
<1> QED BY <1>1, <1>2, <1>4, <1>7, <1>8, <1>9

\* A cut before a query or an answer parts no answer from its results.
LEMMA CutSettled ==
  ASSUME NEW m \in Seq(Messages), NEW i \in DOMAIN m, m[i].kind \in {"query", "call"}, Settled(m)
  PROVE  Settled(Cut(m, i))
<1> DEFINE c == Cut(m, i)
<1>1. i \in 1..Len(m) /\ Len(m) \in Nat
  OBVIOUS
<1>2. /\ DOMAIN c = 1..(Len(m) - i + 2) /\ c[1].kind = "summary"
      /\ \A k \in 1..(Len(m) - i + 1) : c[k + 1] = m[i + k - 1]
  BY CutShape
<1> HIDE DEF c
<1>3. \A x \in DOMAIN c : x # 1 => x + i - 2 \in DOMAIN m /\ x + i - 2 >= i /\ c[x] = m[x + i - 2]
  <2> SUFFICES ASSUME NEW x \in DOMAIN c, x # 1
               PROVE  x + i - 2 \in DOMAIN m /\ x + i - 2 >= i /\ c[x] = m[x + i - 2]
    OBVIOUS
  <2>1. x - 1 \in 1..(Len(m) - i + 1) /\ (x - 1) + 1 = x /\ i + (x - 1) - 1 = x + i - 2
    BY <1>1, <1>2
  <2>2. c[(x - 1) + 1] = m[i + (x - 1) - 1]
    BY <1>2, <2>1
  <2> QED BY <1>1, <2>1, <2>2
<1>4. ASSUME NEW j \in DOMAIN c, c[j].kind = "call", NEW k \in 1..c[j].calls
      PROVE  j + k \in DOMAIN c /\ c[j + k].kind = "result"
             /\ c[j + k].batch = c[j].batch /\ c[j + k].call = k
  <2>1. j # 1 /\ j + i - 2 \in DOMAIN m /\ c[j] = m[j + i - 2] /\ j + i - 2 >= i
    BY <1>2, <1>3, <1>4
  <2>2. c[j] \in Calling
    BY <2>1, <1>4, Kinds
  <2>3. k \in Nat /\ k >= 1
    BY <2>2 DEF Calling
  <2>4. (j + i - 2) + k \in DOMAIN m /\ m[(j + i - 2) + k].kind = "result"
        /\ m[(j + i - 2) + k].batch = m[j + i - 2].batch /\ m[(j + i - 2) + k].call = k
    BY <1>4, <2>1 DEF Settled
  <2>5. j + k \in DOMAIN c /\ j + k # 1 /\ (j + k) + i - 2 = (j + i - 2) + k
    <3>1. j \in Int /\ j >= 2 /\ i \in Int /\ Len(m) \in Int /\ (j + i - 2) + k \in 1..Len(m)
      BY <1>1, <1>2, <2>1, <2>4
    <3>2. j + k \in 1..(Len(m) - i + 2) /\ j + k # 1 /\ (j + k) + i - 2 = (j + i - 2) + k
      BY <2>3, <3>1
    <3> QED BY <1>2, <3>2
  <2>6. c[j + k] = m[(j + i - 2) + k]
    BY <1>3, <2>5
  <2> QED BY <2>1, <2>4, <2>5, <2>6
<1>5. ASSUME NEW x \in DOMAIN c, c[x].kind = "result" PROVE \E j \in DOMAIN c : Follows(c, j, x)
  <2> DEFINE y == x + i - 2
  <2>0. y = x + i - 2
    OBVIOUS
  <2>1. x # 1 /\ y \in DOMAIN m /\ y >= i /\ c[x] = m[y]
    BY <1>2, <1>3, <1>5
  <2> HIDE DEF y
  <2>2. PICK j \in DOMAIN m : Follows(m, j, y)
    BY <1>5, <2>1 DEF Settled
  <2>3. m[j] \in Calling /\ m[y] \in Reporting
    BY <2>1, <2>2, <1>5, Kinds DEF Follows
  <2>4. j >= i
    <3>1. SUFFICES ASSUME j < i PROVE FALSE
      BY <1>1
    <3>2. i - j \in 1..m[j].calls
      BY <1>1, <2>1, <2>2, <2>3, <3>1 DEF Follows, Calling, Reporting
    <3>3. m[j + (i - j)].kind = "result"
      BY <2>2, <3>2 DEF Settled, Follows
    <3> QED BY <1>1, <3>3
  <2>5. j - i + 2 \in DOMAIN c /\ j - i + 2 # 1 /\ (j - i + 2) + i - 2 = j
    BY <1>1, <1>2, <2>4
  <2>6. c[j - i + 2] = m[j]
    BY <1>3, <2>5
  <2>7. x = (j - i + 2) + c[x].call
    <3>1. m[y].call \in Int /\ x \in Int /\ j \in Int
      BY <1>2, <2>3 DEF Reporting
    <3>2. y = j + m[y].call /\ c[x].call = m[y].call /\ i \in Int
      BY <1>1, <2>1, <2>2 DEF Follows
    <3>3. PICK n \in Int : n = m[y].call
      BY <3>1
    <3>4. y = j + n /\ c[x].call = n
      BY <3>2, <3>3
    <3>5. \A p, q, r \in Int : p + r - 2 = q + n => p = (q - r + 2) + n
      OBVIOUS
    <3>6. x + i - 2 = j + n /\ x \in Int /\ i \in Int /\ j \in Int
      BY <2>0, <3>1, <3>2, <3>4
    <3>7. x = (j - i + 2) + n
      BY <3>5, <3>6
    <3> QED BY <3>4, <3>7
  <2> QED BY <2>1, <2>2, <2>5, <2>6, <2>7 DEF Follows
<1> QED BY <1>4, <1>5 DEF Settled, c

\* The results of a cut are results of what was cut.
LEMMA CutResults ==
  ASSUME NEW m \in Seq(Messages), NEW i \in DOMAIN m,
         NEW x \in DOMAIN Cut(m, i), Cut(m, i)[x].kind = "result"
  PROVE  \E y \in DOMAIN m : Cut(m, i)[x] = m[y]
<1> DEFINE c == Cut(m, i)
<1>1. i \in 1..Len(m) /\ Len(m) \in Nat
  OBVIOUS
<1>2. /\ DOMAIN c = 1..(Len(m) - i + 2) /\ c[1].kind = "summary"
      /\ \A k \in 1..(Len(m) - i + 1) : c[k + 1] = m[i + k - 1]
  BY CutShape
<1> HIDE DEF c
<1>3. x \in 1..(Len(m) - i + 2) /\ x # 1
  BY <1>2 DEF c
<1>4. x - 1 \in 1..(Len(m) - i + 1) /\ (x - 1) + 1 = x /\ i + (x - 1) - 1 \in 1..Len(m)
  BY <1>1, <1>3
<1>5. c[(x - 1) + 1] = m[i + (x - 1) - 1]
  BY <1>2, <1>4
<1> QED BY <1>1, <1>4, <1>5 DEF c

-----------------------------------------------------------------------------
\* An answer with tool calls, and the results of its calls.
LEMMA AskShape ==
  ASSUME AgentAssumption, NEW m \in Seq(Messages), NEW b \in Nat, NEW n \in 1..MaxCalls
  PROVE  LET a == Append(m, Ask(b, n))
         IN  /\ a \in Seq(Messages) /\ a # <<>> /\ a[Len(a)] = Ask(b, n)
             /\ SubSeq(a, 1, Len(a) - 1) = m
             /\ Batches(a) = Batches(m) \union {b}
             /\ \A i \in DOMAIN a : a[i].kind = "result" => i \in DOMAIN m /\ a[i] = m[i]
<1> DEFINE q == Ask(b, n)
           a == Append(m, q)
<1>1. q \in Messages /\ q.kind = "call" /\ q.batch = b
  BY Made DEF Ask
<1> HIDE DEF q
<1>2. /\ a \in Seq(Messages) /\ a # <<>> /\ Len(a) = Len(m) + 1 /\ Len(m) \in Nat
      /\ a[Len(a)] = q /\ DOMAIN a = 1..(Len(m) + 1)
      /\ \A i \in 1..Len(m) : a[i] = m[i]
  BY <1>1
<1>3. a = m \o <<q>>
  BY <1>1, AppendIsConcat
<1>4. Batches(a) = Batches(m) \union {b}
  <2>1. Batches(<<q>>) = {b} /\ <<q>> \in Seq(Messages)
    BY <1>1, BatchesOne
  <2> QED BY <2>1, <1>3, BatchesConcat
<1> HIDE DEF a
<1>5. SubSeq(a, 1, Len(a) - 1) = m
  <2>1. Len(a) - 1 = Len(m)
    BY <1>2
  <2>2. \A i \in 1..Len(m) : a[i] \in Messages
    BY <1>2
  <2>3. /\ SubSeq(a, 1, Len(m)) \in Seq(Messages) /\ Len(SubSeq(a, 1, Len(m))) = Len(m)
        /\ \A i \in 1..Len(m) : SubSeq(a, 1, Len(m))[i] = m[i]
    BY <1>2, <2>2
  <2> QED BY <2>1, <2>3, SeqEqual
<1>6. \A i \in DOMAIN a : a[i].kind = "result" => i \in DOMAIN m /\ a[i] = m[i]
  <2>1. \A i \in 1..(Len(m) + 1) : i # Len(m) + 1 => i \in 1..Len(m)
    BY <1>2
  <2> QED BY <1>1, <1>2, <2>1
<1> QED BY <1>2, <1>4, <1>5, <1>6 DEF a, q

Outcomes == {"ran", "interrupted", "cancelled"}

LEMMA AnswerShape ==
  ASSUME NEW b \in Nat, NEW n \in 1..MaxCalls, NEW how \in [1..n -> Outcomes], AgentAssumption
  PROVE  /\ Results(b, how) \in Seq(Messages) /\ Len(Results(b, how)) = n
         /\ \A k \in 1..n : Results(b, how)[k] = Result(b, k, how[k])
         /\ Batches(Results(b, how)) = {}
<1> DEFINE r == Results(b, how)
<1>1. n \in Nat /\ DOMAIN how = 1..n
  BY DEF AgentAssumption
<1>2. r = [k \in 1..n |-> Result(b, k, how[k])]
  BY <1>1 DEF Results
<1>3. \A k \in 1..n : Result(b, k, how[k]) \in Messages /\ Result(b, k, how[k]).kind = "result"
  <2> SUFFICES ASSUME NEW k \in 1..n
               PROVE  Result(b, k, how[k]) \in Messages /\ Result(b, k, how[k]).kind = "result"
    OBVIOUS
  <2>1. k \in 1..MaxCalls /\ how[k] \in Outcomes
    BY <1>1 DEF AgentAssumption
  <2> QED BY <2>1, Made DEF Result, Outcomes
<1> HIDE DEF r
<1>4. r \in Seq(Messages) /\ Len(r) = n /\ DOMAIN r = 1..n
  BY <1>1, <1>2, <1>3
<1>5. \A c : c \notin Batches(r)
  BY <1>2, <1>3, <1>4, BatchesMember DEF Of
<1> QED BY <1>2, <1>4, <1>5 DEF r

\* The last answer with the results of all its calls, in their order, leaves
\* the transcript settled.
LEMMA AnswerSettles ==
  ASSUME AgentAssumption, NEW m \in Seq(Messages), Asking(m),
         NEW how \in [1..m[Len(m)].calls -> Outcomes]
  PROVE  LET b == m[Len(m)].batch
             r == m \o Results(b, how)
         IN  /\ r \in Seq(Messages) /\ Settled(r) /\ Batches(r) = Batches(m)
             /\ \A i \in DOMAIN r : r[i].kind = "result" =>
                  \/ i \in DOMAIN m /\ r[i] = m[i]
                  \/ \E k \in 1..m[Len(m)].calls : r[i] = Result(b, k, how[k])
<1> DEFINE L == Len(m)
           q == m[L]
           b == q.batch
           n == q.calls
           s == Results(b, how)
           r == m \o s
           f == SubSeq(m, 1, L - 1)
<1>1. L \in Nat /\ L >= 1 /\ DOMAIN m = 1..L /\ L \in DOMAIN m
  BY DEF Asking
<1>2. q.kind = "call" /\ q \in Calling
  <2>1. q \in Messages
    BY <1>1
  <2> QED BY <2>1, Kinds DEF Asking
<1>3. b \in Nat /\ n \in 1..MaxCalls /\ n \in Nat /\ n >= 1
  BY <1>2 DEF Calling, AgentAssumption
<1>4. Settled(f) /\ DOMAIN f = 1..(L - 1) /\ \A i \in 1..(L - 1) : f[i] = m[i]
  <2>1. Settled(f)
    BY DEF Asking
  <2>2. \A i \in 1..(L - 1) : m[i] \in Messages
    BY <1>1
  <2>3. 1 \in Int /\ L - 1 \in Int /\ (1 <= L - 1 => L - 1 - 1 + 1 = L - 1)
        /\ (~(1 <= L - 1) => 1..(L - 1) = {} /\ 1..0 = {}) /\ (\A i \in 1..(L - 1) : 1 + i - 1 = i)
        /\ L - 1 - 1 + 1 = L - 1
    BY <1>1
  <2>4. /\ f \in Seq(Messages) /\ Len(f) = IF 1 <= L - 1 THEN L - 1 - 1 + 1 ELSE 0
        /\ \A i \in 1..(L - 1 - 1 + 1) : f[i] = m[1 + i - 1]
    BY <2>2, <2>3, SubSeqProperties
  <2>5. DOMAIN f = 1..Len(f)
    BY <2>4
  <2> QED BY <2>1, <2>3, <2>4, <2>5
<1>5. /\ s \in Seq(Messages) /\ Len(s) = n /\ Batches(s) = {}
      /\ \A k \in 1..n : s[k] = Result(b, k, how[k])
  BY <1>3, AnswerShape
<1>6. /\ r \in Seq(Messages) /\ Batches(r) = Batches(m) /\ DOMAIN r = 1..(L + n)
      /\ \A i \in 1..L : r[i] = m[i]
      /\ \A k \in 1..n : r[L + k] = Result(b, k, how[k])
  <2> HIDE DEF s, b, n, q
  <2>1. Batches(m \o s) = Batches(m) \union Batches(s)
    BY <1>5, BatchesConcat
  <2>2. /\ m \o s \in Seq(Messages) /\ DOMAIN (m \o s) = 1..(L + n)
        /\ \A i \in 1..L : (m \o s)[i] = m[i]
        /\ \A k \in 1..n : (m \o s)[L + k] = s[k]
    BY <1>1, <1>3, <1>5
  <2> QED BY <1>5, <2>1, <2>2
<1> HIDE DEF r, f, s, q, b, n, L
<1>7. \A i \in DOMAIN r : i \in 1..(L - 1) \/ i = L \/ \E k \in 1..n : i = L + k
  <2>1. \A i \in 1..(L + n) : i \in 1..(L - 1) \/ i = L \/ (i - L \in 1..n /\ i = L + (i - L))
    BY <1>1, <1>3
  <2> QED BY <1>6, <2>1
<1>8. \A k \in 1..n : r[L + k].kind = "result" /\ r[L + k].batch = b /\ r[L + k].call = k
  <2>1. \A k, h : LET x == Result(b, k, h) IN x.kind = "result" /\ x.batch = b /\ x.call = k
    BY DEF Result
  <2> QED BY <1>6, <2>1
<1>9. /\ \A i \in 1..(L - 1) : i \in 1..L /\ i \in DOMAIN f /\ r[i] = f[i] /\ i \in DOMAIN r
      /\ L \in 1..L /\ L \in DOMAIN r /\ r[L] = q
      /\ \A k \in 1..n : L + k \in DOMAIN r
  <2>1. \A i \in 1..(L - 1) : i \in 1..L /\ i \in 1..(L + n)
    BY <1>1, <1>3
  <2>2. L \in 1..L /\ L \in 1..(L + n) /\ \A k \in 1..n : L + k \in 1..(L + n)
    BY <1>1, <1>3
  <2>3. m[L] = q
    BY DEF q
  <2> QED BY <1>4, <1>6, <2>1, <2>2, <2>3
<1>10. ASSUME NEW j \in DOMAIN r, r[j].kind = "call", NEW k \in 1..r[j].calls
       PROVE  /\ j + k \in DOMAIN r
              /\ r[j + k].kind = "result" /\ r[j + k].batch = r[j].batch /\ r[j + k].call = k
  <2>1. CASE j \in 1..(L - 1)
    <3>1. /\ j + k \in DOMAIN f
          /\ f[j + k].kind = "result" /\ f[j + k].batch = f[j].batch /\ f[j + k].call = k
      BY <1>4, <1>9, <1>10, <2>1 DEF Settled
    <3> QED BY <1>4, <1>9, <2>1, <3>1
  <2>2. CASE j = L
    BY <1>8, <1>9, <1>10, <2>2 DEF q, b, n
  <2>3. CASE \E i \in 1..n : j = L + i
    BY <1>8, <1>10, <2>3
  <2> QED BY <1>7, <2>1, <2>2, <2>3
<1>11. ASSUME NEW i \in DOMAIN r, r[i].kind = "result" PROVE \E j \in DOMAIN r : Follows(r, j, i)
  <2>1. CASE i \in 1..(L - 1)
    <3>1. PICK j \in DOMAIN f : Follows(f, j, i)
      BY <1>9, <1>11, <2>1, <1>4 DEF Settled
    <3> QED BY <1>4, <1>9, <2>1, <3>1 DEF Follows
  <2>2. CASE i = L
    BY <1>2, <1>9, <1>11, <2>2
  <2>3. ASSUME NEW k \in 1..n, i = L + k PROVE Follows(r, L, i)
    BY <1>2, <1>8, <1>9, <2>3 DEF Follows, q, b, n
  <2> QED BY <1>7, <1>9, <2>1, <2>2, <2>3
<1>12. Settled(r)
  BY <1>10, <1>11 DEF Settled
<1>13. \A i \in DOMAIN r : r[i].kind = "result" =>
         \/ i \in DOMAIN m /\ r[i] = m[i]
         \/ \E k \in 1..n : r[i] = Result(b, k, how[k])
  BY <1>1, <1>6, <1>7, <1>9
<1> QED BY <1>6, <1>12, <1>13 DEF r, s, n, b, q, L
-----------------------------------------------------------------------------
\* What a step inside iter_react does: `w` is the transcript it ends with.
LoopPcs == {"round", "model", "tools", "save", "close"}
Same(x, y) ==
    /\ x.proc = y.proc /\ x.gated = y.gated /\ x.set = y.set /\ x.watch = y.watch
    /\ x.stop = y.stop /\ x.asked = y.asked /\ x.deaf = y.deaf
Keeps(e, w) == /\ exe'[e].pc \in LoopPcs /\ exe'[e].msgs = w /\ Same(exe[e], exe'[e])
               /\ exe'[e].round >= 1
               /\ exe'[e].pc \in {"model", "tools", "save"} => exe'[e].round <= MaxRounds
Leaves(e, w) == exe'[e] = Leave(e) /\ Batches(w) \subseteq Batches(checkpoint'.msgs) \union lost'
Stores(w) ==
    \/ checkpoint' = checkpoint /\ lost \subseteq lost'
    \/ checkpoint'.msgs = w /\ lost' = lost
Loop(e, w) ==
    /\ Loops(e) /\ w \in Seq(Messages) /\ Batches(exe[e].msgs) \subseteq Batches(w)
    /\ \A f \in Executions : f # e => exe'[f] = exe[f]
    /\ Keeps(e, w) \/ Leaves(e, w)
    /\ Stores(w)
    /\ UNCHANGED <<registry, row, request, cancels, stale, solo>>

LEMMA ExecSet == TypeOK <=> 
    /\ exe \in [Executions -> Exec]
    /\ checkpoint \in [round : 0..MaxRounds, msgs : Seq(Messages),
                       status : {"none", "running", "completed", "cancelled", "error"}]
    /\ registry \in [Processes -> Executions \union {NoExecution}]
    /\ row \in [exists : BOOLEAN, cancel : BOOLEAN]
    /\ request \in Processes \union {NoProcess}
    /\ batches \in Nat /\ cancels \in Nat /\ faults \in Nat
    /\ ran \subseteq Nat \X (1..MaxCalls)
    /\ lost \subseteq Nat
    /\ stale \in BOOLEAN /\ solo \in BOOLEAN
  BY DEF TypeOK, Exec

LEMMA RowType ==
  ASSUME TypeOK
  PROVE  /\ row \in [exists : BOOLEAN, cancel : BOOLEAN] /\ NoRow \in [exists : BOOLEAN, cancel : BOOLEAN]
         /\ [exists |-> TRUE, cancel |-> FALSE] \in [exists : BOOLEAN, cancel : BOOLEAN]
         /\ faults \in Nat /\ cancels \in Nat /\ ~NoRow.exists /\ stale \in BOOLEAN
         /\ Fault => faults' \in Nat
<1>1. row \in [exists : BOOLEAN, cancel : BOOLEAN] /\ faults \in Nat /\ cancels \in Nat /\ stale \in BOOLEAN
  BY ExecSet
<1> QED BY <1>1 DEF NoRow, Fault

LEMMA OffType == AgentAssumption => Off \in Exec
<1> SUFFICES ASSUME AgentAssumption PROVE Off \in Exec
  OBVIOUS
<1>1. 0 \in 0..(MaxRounds + 1)
  BY DEF AgentAssumption
<1>2. <<>> \in Seq(Messages)
  OBVIOUS
<1> QED BY <1>1, <1>2 DEF Off, Exec, Steps

LEMMA LeaveType ==
  ASSUME AgentAssumption, TypeOK, NEW e \in Executions
  PROVE  /\ Leave(e) \in Exec
         /\ Leave(e).msgs = <<>> /\ ~Leave(e).asked /\ ~Leave(e).deaf
         /\ Leave(e).pc = (IF exe[e].gated THEN "ended" ELSE "unregister")
         /\ Leave(e).proc = exe[e].proc /\ Leave(e).gated = exe[e].gated
         /\ Leave(e).watch = exe[e].watch /\ Leave(e).stop = exe[e].stop
<1>1. exe[e] \in Exec
  BY ExecSet
<1>2. Off.msgs = <<>> /\ ~Off.asked /\ ~Off.deaf /\ Off \in Exec
  BY OffType DEF Off
<1> QED BY <1>1, <1>2 DEF Leave, Exec, Steps

\* Saving at the end of an execution.
LEMMA EndLeaves ==
  ASSUME AgentAssumption, TypeOK, NEW e \in Executions, NEW w \in Seq(Messages),
         NEW r \in 0..MaxRounds, NEW s \in {"running", "completed", "cancelled", "error"},
         End(e, w, r, s)
  PROVE  /\ Leaves(e, w) /\ Stores(w)
         /\ \A f \in Executions : f # e => exe'[f] = exe[f]
         /\ exe' \in [Executions -> Exec]
         /\ checkpoint' \in [round : 0..MaxRounds, msgs : Seq(Messages),
                             status : {"none", "running", "completed", "cancelled", "error"}]
         /\ lost' \subseteq Nat /\ faults' \in Nat
<1>1. /\ exe' = [exe EXCEPT ![e] = Leave(e)] /\ exe \in [Executions -> Exec] /\ Leave(e) \in Exec
  BY ExecSet, LeaveType DEF End
<1>2. CASE checkpoint' = [round |-> r, status |-> s, msgs |-> w] /\ UNCHANGED <<lost, faults>>
  BY <1>1, <1>2 DEF Leaves, Stores, TypeOK
<1>3. CASE /\ Fault /\ lost' = lost \union (Batches(w) \ Batches(checkpoint.msgs))
           /\ UNCHANGED checkpoint
  <2>0. Batches(w) \subseteq Nat
    BY BatchesNat
  <2>2. lost \subseteq Nat /\ faults \in Nat
    BY DEF TypeOK
  <2>3. lost' \subseteq Nat
    BY <1>3, <2>0, <2>2, Zenon
  <2>4. faults' \in Nat
    BY <1>3, <2>2 DEF Fault
  <2>1. lost' \subseteq Nat /\ faults' \in Nat
    BY <2>3, <2>4
  <2> QED BY <1>1, <1>3, <2>1 DEF Leaves, Stores, TypeOK
<1> QED BY <1>2, <1>3 DEF End, Save

-----------------------------------------------------------------------------
\* The steps of iter_react, one lemma each: what they do to the transcript, and
\* that they keep the types.
LEMMA LoopPc == \A e : Loops(e) <=> exe[e].pc \in LoopPcs
  BY DEF Loops, LoopPcs

LEMMA LoopHolds ==
  ASSUME TypeOK, Rounds, NEW e \in Executions, Loops(e)
  PROVE  /\ exe[e] \in Exec /\ exe \in [Executions -> Exec] /\ exe[e].msgs \in Seq(Messages)
         /\ exe[e].round \in Nat /\ exe[e].round >= 1
         /\ exe[e].pc \in {"model", "tools", "save"} => exe[e].round <= MaxRounds
<1>1. exe[e] \in Exec /\ exe \in [Executions -> Exec]
  BY ExecSet
<1>2. exe[e].msgs \in Seq(Messages) /\ exe[e].round \in 0..(MaxRounds + 1)
  BY <1>1 DEF Exec
<1> QED BY <1>1, <1>2 DEF Rounds, Holds

\* A step that goes on: program counter, round, failures and transcript change.
LEMMA GoesOn ==
  ASSUME AgentAssumption, TypeOK, NEW e \in Executions, NEW pc \in LoopPcs,
         NEW r \in 1..(MaxRounds + 1), NEW w \in Seq(Messages), NEW n \in Nat,
         pc \in {"model", "tools", "save"} => r <= MaxRounds,
         exe' = [exe EXCEPT ![e] = [exe[e] EXCEPT !.pc = pc, !.round = r, !.msgs = w, !.fails = n]]
  PROVE  /\ Keeps(e, w) /\ exe' \in [Executions -> Exec]
         /\ \A f \in Executions : f # e => exe'[f] = exe[f]
         /\ exe'[e].pc = pc
<1>1. exe[e] \in Exec /\ exe \in [Executions -> Exec]
  BY ExecSet
<1> DEFINE x == [exe[e] EXCEPT !.pc = pc, !.round = r, !.msgs = w, !.fails = n]
<1>2. pc \in Steps /\ r \in 0..(MaxRounds + 1) /\ r >= 1
  BY DEF LoopPcs, Steps, AgentAssumption
<1>3. x \in Exec /\ Same(exe[e], x) /\ x.pc = pc /\ x.round = r /\ x.msgs = w
  BY <1>1, <1>2 DEF Exec, Same
<1> HIDE DEF x
<1>4. exe' = [exe EXCEPT ![e] = x]
  BY DEF x
<1>5. exe'[e] = x /\ exe' \in [Executions -> Exec] /\ \A f \in Executions : f # e => exe'[f] = exe[f]
  BY <1>1, <1>3, <1>4
<1> QED BY <1>2, <1>3, <1>5 DEF Keeps

\* The fields an EXCEPT does not name are those there were.
LEMMA Unnamed ==
  ASSUME TypeOK, NEW e \in Executions
  PROVE  /\ \A pc : [exe EXCEPT ![e].pc = pc] = [exe EXCEPT ![e] =
                [exe[e] EXCEPT !.pc = pc, !.round = exe[e].round, !.msgs = exe[e].msgs, !.fails = exe[e].fails]]
         /\ \A pc, r : [exe EXCEPT ![e] = [@ EXCEPT !.pc = pc, !.round = r]] = [exe EXCEPT ![e] =
                [exe[e] EXCEPT !.pc = pc, !.round = r, !.msgs = exe[e].msgs, !.fails = exe[e].fails]]
         /\ \A pc, r, n : [exe EXCEPT ![e] = [exe[e] EXCEPT !.pc = pc, !.round = r, !.fails = n]] =
              [exe EXCEPT ![e] =
                [exe[e] EXCEPT !.pc = pc, !.round = r, !.msgs = exe[e].msgs, !.fails = n]]
         /\ \A pc, m : [exe EXCEPT ![e] = [@ EXCEPT !.pc = pc, !.msgs = m]] = [exe EXCEPT ![e] =
                [exe[e] EXCEPT !.pc = pc, !.round = exe[e].round, !.msgs = m, !.fails = exe[e].fails]]
<1>1. exe[e] \in Exec /\ exe \in [Executions -> Exec]
  BY ExecSet
<1> QED BY <1>1 DEF Exec

\* An action of the loop is such a step, and keeps what it does not name.
Frame == UNCHANGED <<registry, row, request, cancels, stale, solo>>

LEMMA LoopType ==
  ASSUME AgentAssumption, TypeOK, Frame,
         exe' \in [Executions -> Exec],
         checkpoint' = checkpoint \/
            checkpoint' \in [round : 0..MaxRounds, msgs : Seq(Messages),
                             status : {"none", "running", "completed", "cancelled", "error"}],
         lost' \subseteq Nat, faults' \in Nat, batches' \in Nat, ran' \subseteq Nat \X (1..MaxCalls)
  PROVE  TypeOK'
  BY ExecSet DEF Frame, TypeOK, Exec

LEMMA EndLoops ==
  ASSUME AgentAssumption, TypeOK, Rounds, NEW e \in Executions, Loops(e), Frame,
         batches' \in Nat, UNCHANGED ran,
         NEW w \in Seq(Messages), Batches(exe[e].msgs) \subseteq Batches(w),
         NEW r \in 0..MaxRounds, NEW s \in {"running", "completed", "cancelled", "error"},
         End(e, w, r, s)
  PROVE  TypeOK' /\ Loop(e, w) /\ exe'[e] = Leave(e) /\ exe'[e].pc # "tools"
<1>1. /\ Leaves(e, w) /\ Stores(w) /\ \A f \in Executions : f # e => exe'[f] = exe[f]
      /\ exe' \in [Executions -> Exec] /\ lost' \subseteq Nat /\ faults' \in Nat
      /\ checkpoint' \in [round : 0..MaxRounds, msgs : Seq(Messages),
                          status : {"none", "running", "completed", "cancelled", "error"}]
  BY EndLeaves
<1>2. ran' \subseteq Nat \X (1..MaxCalls)
  BY DEF TypeOK
<1>3. TypeOK'
  BY <1>1, <1>2, LoopType
<1>4. Loop(e, w)
  BY <1>1 DEF Loop, Frame
<1> QED BY <1>1, <1>3, <1>4, LeaveType DEF Leaves

LEMMA KeepsLoops ==
  ASSUME AgentAssumption, TypeOK, Rounds, NEW e \in Executions, Loops(e), Frame,
         batches' \in Nat, ran' \subseteq Nat \X (1..MaxCalls),
         NEW w \in Seq(Messages), Batches(exe[e].msgs) \subseteq Batches(w),
         NEW pc \in LoopPcs, NEW r \in 1..(MaxRounds + 1), NEW n \in Nat,
         pc \in {"model", "tools", "save"} => r <= MaxRounds,
         exe' = [exe EXCEPT ![e] = [exe[e] EXCEPT !.pc = pc, !.round = r, !.msgs = w, !.fails = n]],
         lost' \subseteq Nat, faults' \in Nat, Stores(w),
         checkpoint' = checkpoint \/
            checkpoint' \in [round : 0..MaxRounds, msgs : Seq(Messages),
                             status : {"none", "running", "completed", "cancelled", "error"}]
  PROVE  TypeOK' /\ Loop(e, w) /\ exe'[e].pc = pc /\ exe'[e].msgs = w
<1>1. /\ Keeps(e, w) /\ exe' \in [Executions -> Exec] /\ exe'[e].pc = pc
      /\ \A f \in Executions : f # e => exe'[f] = exe[f]
  BY GoesOn
<1>2. TypeOK'
  BY <1>1, LoopType
<1>3. Loop(e, w)
  BY <1>1 DEF Loop, Frame
<1> QED BY <1>1, <1>2, <1>3 DEF Keeps

LEMMA RoundLoops ==
  ASSUME AgentAssumption, TypeOK, Rounds, NEW e \in Executions, Round(e)
  PROVE  /\ TypeOK' /\ UNCHANGED <<batches, ran>> /\ ~At(e, "tools") /\ exe'[e].pc # "tools"
         /\ \E w : Loop(e, w) /\ (w = exe[e].msgs \/ w \in Shrunk(exe[e].msgs))
<1> DEFINE m == exe[e].msgs
           r == exe[e].round
<1>0. /\ At(e, "round") /\ Loops(e) /\ Frame /\ UNCHANGED <<batches, ran>> /\ ~At(e, "tools")
  BY DEF Round, At, Loops, Frame
<1>1. /\ m \in Seq(Messages) /\ r \in 1..(MaxRounds + 1) /\ exe[e].fails \in Nat
      /\ batches' \in Nat /\ ran' \subseteq Nat \X (1..MaxCalls)
      /\ lost \subseteq Nat /\ faults \in Nat
  BY <1>0, LoopHolds DEF Exec, TypeOK
<1>2. CASE Goto(e, "close") /\ UNCHANGED <<checkpoint, lost, faults>>
  <2>1. exe' = [exe EXCEPT ![e] = [exe[e] EXCEPT !.pc = "close", !.round = r, !.msgs = m,
                                                 !.fails = exe[e].fails]]
    BY <1>2, Unnamed DEF Goto
  <2>2. "close" \in LoopPcs /\ "close" \notin {"model", "tools", "save"} /\ Stores(m)
    BY <1>2 DEF LoopPcs, Stores
  <2>3. TypeOK' /\ Loop(e, m) /\ exe'[e].pc = "close"
    BY <1>0, <1>1, <1>2, <2>1, <2>2, KeepsLoops
  <2> QED BY <1>0, <2>3
<1>3. ASSUME NEW s \in {"completed", "cancelled"}, r <= MaxRounds, End(e, m, r - 1, s)
      PROVE  TypeOK' /\ Loop(e, m) /\ exe'[e].pc # "tools"
  <2>1. r - 1 \in 0..MaxRounds
    BY <1>1, <1>3 DEF AgentAssumption
  <2> QED BY <1>0, <1>1, <1>3, <2>1, EndLoops
<1>4. CASE r <= MaxRounds /\ UNCHANGED <<checkpoint, lost, faults>>
           /\ \E w \in Shrunk(m) : exe' = [exe EXCEPT ![e] = [@ EXCEPT !.pc = "model", !.msgs = w]]
  <2>1. PICK w \in Shrunk(m) : exe' = [exe EXCEPT ![e] = [@ EXCEPT !.pc = "model", !.msgs = w]]
    BY <1>4
  <2>2. w \in Seq(Messages) /\ Batches(w) = Batches(m)
    BY <1>1, ShrunkCuts, CutShape
  <2>3. exe' = [exe EXCEPT ![e] = [exe[e] EXCEPT !.pc = "model", !.round = r, !.msgs = w,
                                                 !.fails = exe[e].fails]]
    BY <2>1, Unnamed
  <2>4. "model" \in LoopPcs /\ Stores(w) /\ exe[e].fails \in Nat /\ w \in Seq(Messages)
    BY <1>1, <1>4, <2>2 DEF LoopPcs, Stores
  <2>6. lost' \subseteq Nat /\ faults' \in Nat /\ checkpoint' = checkpoint /\ r <= MaxRounds
        /\ Batches(m) \subseteq Batches(w)
    BY <1>1, <1>4, <2>2
  <2>5. TypeOK' /\ Loop(e, w) /\ exe'[e].pc = "model"
    <3> HIDE DEF m, r
    <3>1. r \in 1..(MaxRounds + 1) /\ batches' \in Nat /\ ran' \subseteq Nat \X (1..MaxCalls)
          /\ Batches(exe[e].msgs) \subseteq Batches(w)
      BY <1>1, <2>6 DEF m
    <3> QED BY <1>0, <2>3, <2>4, <2>6, <3>1, KeepsLoops
  <2> QED BY <1>0, <2>1, <2>5
<1>5. \/ Goto(e, "close") /\ UNCHANGED <<checkpoint, lost, faults>>
      \/ r <= MaxRounds /\ End(e, m, r - 1, "cancelled")
      \/ r <= MaxRounds /\ End(e, m, r - 1, "completed")
      \/ r <= MaxRounds /\ UNCHANGED <<checkpoint, lost, faults>>
         /\ \E w \in Shrunk(m) : exe' = [exe EXCEPT ![e] = [@ EXCEPT !.pc = "model", !.msgs = w]]
  <2>1. CASE r > MaxRounds
    BY <2>1 DEF Round
  <2>2. CASE ~(r > MaxRounds) /\ exe[e].set
    <3>1. End(e, m, r - 1, "cancelled")
      BY <2>2, Zenon DEF Round
    <3>2. r <= MaxRounds
      BY <1>1, <2>2 DEF AgentAssumption
    <3> HIDE DEF m, r
    <3> QED BY <3>1, <3>2
  <2>3. CASE ~(r > MaxRounds) /\ ~exe[e].set
    <3>1. \/ End(e, m, r - 1, "completed")
          \/ /\ UNCHANGED <<checkpoint, lost, faults>>
             /\ \E w \in Shrunk(m) : exe' = [exe EXCEPT ![e] = [@ EXCEPT !.pc = "model", !.msgs = w]]
      BY <2>3, Zenon DEF Round
    <3>2. r <= MaxRounds
      BY <1>1, <2>3 DEF AgentAssumption
    <3> HIDE DEF m, r
    <3> QED BY <3>1, <3>2
  <2> QED BY <2>1, <2>2, <2>3
<1> QED BY <1>0, <1>2, <1>3, <1>4, <1>5

\* A model that fails, ends or is closed leaves the transcript as it is.
Settles(e) == /\ TypeOK' /\ UNCHANGED <<batches, ran>> /\ ~At(e, "tools") /\ exe'[e].pc # "tools"
              /\ Loop(e, exe[e].msgs)

LEMMA ModelFailsLoops ==
  ASSUME AgentAssumption, TypeOK, Rounds, NEW e \in Executions, ModelFails(e)
  PROVE  Settles(e)
<1> DEFINE m == exe[e].msgs
           r == exe[e].round
           n == exe[e].fails
<1>0. /\ At(e, "model") /\ Loops(e) /\ Frame /\ UNCHANGED <<batches, ran>> /\ ~At(e, "tools")
  BY DEF ModelFails, At, Loops, Frame
<1>1. /\ m \in Seq(Messages) /\ r \in 1..MaxRounds /\ n \in Nat
      /\ batches' \in Nat /\ ran' \subseteq Nat \X (1..MaxCalls)
      /\ lost \subseteq Nat /\ faults \in Nat
  BY <1>0, LoopHolds DEF Exec, TypeOK, At, AgentAssumption
<1>2. CASE End(e, m, r - 1, "error")
  <2>1. r - 1 \in 0..MaxRounds
    BY <1>1 DEF AgentAssumption
  <2> QED BY <1>0, <1>1, <1>2, <2>1, EndLoops DEF Settles
<1>3. CASE /\ exe' = [exe EXCEPT ![e] = [exe[e] EXCEPT !.pc = "round", !.round = r + 1, !.fails = n + 1]]
           /\ UNCHANGED <<checkpoint, lost, faults>>
  <2>1. exe' = [exe EXCEPT ![e] = [exe[e] EXCEPT !.pc = "round", !.round = r + 1, !.msgs = m,
                                                 !.fails = n + 1]]
    BY <1>3, Unnamed
  <2>2. "round" \in LoopPcs /\ "round" \notin {"model", "tools", "save"} /\ Stores(m)
    BY <1>3 DEF LoopPcs, Stores
  <2>3. r + 1 \in 1..(MaxRounds + 1) /\ n + 1 \in Nat
    BY <1>1 DEF AgentAssumption
  <2>4. lost' \subseteq Nat /\ faults' \in Nat /\ checkpoint' = checkpoint
    BY <1>1, <1>3
  <2>5. TypeOK' /\ Loop(e, m) /\ exe'[e].pc = "round"
    BY <1>0, <1>1, <2>1, <2>2, <2>3, <2>4, KeepsLoops
  <2> QED BY <1>0, <2>5 DEF Settles
<1> QED BY <1>2, <1>3 DEF ModelFails

LEMMA ModelEndsLoops ==
  ASSUME AgentAssumption, TypeOK, Rounds, NEW e \in Executions, ModelEnds(e)
  PROVE  Settles(e)
<1>0. /\ At(e, "model") /\ Loops(e) /\ Frame /\ UNCHANGED <<batches, ran>> /\ ~At(e, "tools")
  BY DEF ModelEnds, At, Loops, Frame
<1>1. /\ exe[e].msgs \in Seq(Messages) /\ exe[e].round \in 1..MaxRounds /\ batches' \in Nat
  BY <1>0, LoopHolds DEF Exec, TypeOK, At, AgentAssumption
<1>2. PICK back \in {0, 1} : End(e, exe[e].msgs, exe[e].round - back, "completed")
  BY DEF ModelEnds
<1>3. exe[e].round - back \in 0..MaxRounds
  BY <1>1, <1>2 DEF AgentAssumption
<1> QED BY <1>0, <1>1, <1>2, <1>3, EndLoops DEF Settles

LEMMA CloseLoops ==
  ASSUME AgentAssumption, TypeOK, Rounds, NEW e \in Executions, Close(e)
  PROVE  Settles(e)
<1>0. /\ Loops(e) /\ Frame /\ UNCHANGED <<batches, ran>> /\ ~At(e, "tools")
      /\ End(e, exe[e].msgs, MaxRounds, "completed")
  BY DEF Close, At, Loops, Frame
<1>1. exe[e].msgs \in Seq(Messages) /\ batches' \in Nat /\ MaxRounds \in 0..MaxRounds
  BY <1>0, LoopHolds DEF TypeOK, AgentAssumption
<1> QED BY <1>0, <1>1, EndLoops DEF Settles

\* Tool calls: the answer that asks for them, their execution, their results.
LEMMA AskedCalls ==
  ASSUME TypeOK, NEW e \in Executions, exe[e].msgs # <<>>,
         exe[e].msgs[Len(exe[e].msgs)].kind = "call"
  PROVE  /\ Asked(e) \in Calling /\ Asked(e) = exe[e].msgs[Len(exe[e].msgs)]
         /\ Asked(e).batch \in Batches(exe[e].msgs)
         /\ Calls(e) = {<<Asked(e).batch, i>> : i \in 1..Asked(e).calls}
<1>1. exe[e].msgs \in Seq(Messages)
  BY ExecSet DEF Exec
<1>2. Len(exe[e].msgs) \in DOMAIN exe[e].msgs /\ exe[e].msgs[Len(exe[e].msgs)] \in Messages
  BY <1>1
<1> QED BY <1>2, Kinds, BatchesMember DEF Asked, Calls, Of

LEMMA ModelAsksLoops ==
  ASSUME AgentAssumption, TypeOK, Rounds, NEW e \in Executions, ModelAsks(e)
  PROVE  /\ TypeOK' /\ batches' = batches + 1 /\ UNCHANGED ran /\ ~At(e, "tools")
         /\ \E n \in 1..MaxCalls :
              LET a == Append(exe[e].msgs, Ask(batches + 1, n))
              IN  \/ /\ Loop(e, a) /\ exe'[e].pc = "tools" /\ exe'[e].msgs = a /\ checkpoint' = checkpoint
                  \/ /\ Loop(e, a \o Results(batches + 1, [i \in 1..n |-> "interrupted"]))
                     /\ exe'[e].pc # "tools"
<1> DEFINE m == exe[e].msgs
           r == exe[e].round
           b == batches + 1
<1>0. /\ At(e, "model") /\ Loops(e) /\ Frame /\ batches' = batches + 1 /\ UNCHANGED ran /\ ~At(e, "tools")
  BY DEF ModelAsks, At, Loops, Frame
<1>1. /\ m \in Seq(Messages) /\ r \in 1..MaxRounds /\ exe[e].fails \in Nat /\ b \in Nat
      /\ batches' \in Nat /\ ran' \subseteq Nat \X (1..MaxCalls)
      /\ lost \subseteq Nat /\ faults \in Nat
  BY <1>0, LoopHolds DEF Exec, TypeOK, At, AgentAssumption
<1>2. PICK n \in 1..MaxCalls :
        LET asks == Append(m, Ask(b, n))
            told == Results(b, [i \in 1..n |-> "interrupted"])
        IN  IF exe[e].set THEN End(e, asks \o told, r - 1, "cancelled")
            ELSE /\ exe' = [exe EXCEPT ![e] = [@ EXCEPT !.pc = "tools", !.msgs = asks]]
                 /\ UNCHANGED <<checkpoint, lost, faults>>
  BY DEF ModelAsks
<1> DEFINE a == Append(m, Ask(b, n))
           t == Results(b, [i \in 1..n |-> "interrupted"])
<1>3. a \in Seq(Messages) /\ Batches(a) = Batches(m) \union {b}
  BY <1>1, AskShape
<1>4. t \in Seq(Messages) /\ a \o t \in Seq(Messages) /\ Batches(a \o t) = Batches(a)
  <2>1. [i \in 1..n |-> "interrupted"] \in [1..n -> Outcomes]
    BY DEF Outcomes
  <2>2. t \in Seq(Messages) /\ Batches(t) = {}
    BY <1>1, <2>1, AnswerShape
  <2> HIDE DEF a, t
  <2> QED BY <1>3, <2>2, BatchesConcat
<1>5. CASE exe[e].set
  <2>1. End(e, a \o t, r - 1, "cancelled")
    BY <1>2, <1>5
  <2>2. r - 1 \in 0..MaxRounds /\ Batches(m) \subseteq Batches(a \o t) /\ UNCHANGED ran
    BY <1>0, <1>1, <1>3, <1>4 DEF AgentAssumption
  <2> HIDE DEF a, t
  <2>3. TypeOK' /\ Loop(e, a \o t) /\ exe'[e].pc # "tools"
    BY <1>0, <1>1, <1>4, <2>1, <2>2, EndLoops
  <2> QED BY <1>0, <2>3 DEF a, t
<1>6. CASE ~exe[e].set
  <2>1. /\ exe' = [exe EXCEPT ![e] = [@ EXCEPT !.pc = "tools", !.msgs = a]]
        /\ UNCHANGED <<checkpoint, lost, faults>>
    BY <1>2, <1>6
  <2> HIDE DEF a, t
  <2>2. exe' = [exe EXCEPT ![e] = [exe[e] EXCEPT !.pc = "tools", !.round = r, !.msgs = a,
                                                 !.fails = exe[e].fails]]
    BY <2>1, Unnamed
  <2>3. "tools" \in LoopPcs /\ Stores(a) /\ Batches(m) \subseteq Batches(a)
    BY <1>3, <2>1 DEF LoopPcs, Stores
  <2>4. r \in 1..(MaxRounds + 1) /\ r <= MaxRounds
    BY <1>1 DEF AgentAssumption
  <2>5. lost' \subseteq Nat /\ faults' \in Nat /\ checkpoint' = checkpoint
    BY <1>1, <2>1
  <2>6. TypeOK' /\ Loop(e, a) /\ exe'[e].pc = "tools" /\ exe'[e].msgs = a
    BY <1>0, <1>1, <1>3, <2>2, <2>3, <2>4, <2>5, KeepsLoops
  <2> QED BY <1>0, <2>5, <2>6 DEF a, t
<1> QED BY <1>5, <1>6

LEMMA RunToolLoops ==
  ASSUME AgentAssumption, TypeOK, Transcripts, NEW e \in Executions, RunTool(e)
  PROVE  /\ TypeOK' /\ At(e, "tools") /\ UNCHANGED <<exe, checkpoint, batches, lost>> /\ Frame
         /\ \E c \in Calls(e) : ran' = ran \union {c}
<1>1. /\ At(e, "tools") /\ UNCHANGED <<exe, checkpoint, batches, lost, faults>> /\ Frame
      /\ \E c \in Calls(e) : ran' = ran \union {c}
  BY DEF RunTool, Frame
<1>2. Calls(e) \subseteq Nat \X (1..MaxCalls)
  <2>1. exe[e].msgs # <<>> /\ exe[e].msgs[Len(exe[e].msgs)].kind = "call"
    BY <1>1 DEF Transcripts, Asking
  <2>2. Asked(e) \in Calling /\ Calls(e) = {<<Asked(e).batch, i>> : i \in 1..Asked(e).calls}
    BY <2>1, AskedCalls
  <2>3. Asked(e).batch \in Nat /\ \A i \in 1..Asked(e).calls : i \in 1..MaxCalls
    BY <2>2 DEF Calling, AgentAssumption
  <2> QED BY <2>2, <2>3
<1>3. ran' \subseteq Nat \X (1..MaxCalls)
  BY <1>1, <1>2 DEF TypeOK
<1>4. TypeOK'
  BY <1>1, <1>3 DEF TypeOK, Frame
<1> QED BY <1>1, <1>4

LEMMA ToolsAnswerLoops ==
  ASSUME AgentAssumption, TypeOK, Rounds, Transcripts, NEW e \in Executions, ToolsAnswer(e)
  PROVE  /\ TypeOK' /\ UNCHANGED <<batches, ran, checkpoint>> /\ At(e, "tools") /\ exe'[e].pc # "tools"
         /\ Calls(e) \subseteq ran
         /\ \E how \in [1..Asked(e).calls -> {"ran", "cancelled"}] :
              Loop(e, exe[e].msgs \o Results(Asked(e).batch, how))
<1> DEFINE m == exe[e].msgs
           r == exe[e].round
           q == Asked(e)
<1>0. /\ At(e, "tools") /\ Loops(e) /\ Frame /\ UNCHANGED <<batches, ran, checkpoint, lost>>
      /\ Calls(e) \subseteq ran
  BY DEF ToolsAnswer, At, Loops, Frame, history
<1>1. /\ m \in Seq(Messages) /\ r \in 1..MaxRounds /\ exe[e].fails \in Nat
      /\ batches' \in Nat /\ ran' \subseteq Nat \X (1..MaxCalls)
      /\ lost' \subseteq Nat /\ faults \in Nat
  BY <1>0, LoopHolds DEF Exec, TypeOK, At, AgentAssumption
<1>2. PICK how \in [1..q.calls -> {"ran", "cancelled"}] :
        /\ IF \A i \in DOMAIN how : how[i] = "ran" THEN UNCHANGED faults ELSE Len(how) > 1 /\ Fault
        /\ exe' = [exe EXCEPT ![e] = [@ EXCEPT !.pc = "save", !.msgs = m \o Results(q.batch, how)]]
  BY DEF ToolsAnswer
<1>3. Asking(m)
  BY <1>0 DEF Transcripts
<1>4. q = m[Len(m)]
  BY <1>3, AskedCalls DEF Asking
<1> HIDE DEF q
<1> DEFINE w == m \o Results(q.batch, how)
<1>5. w \in Seq(Messages) /\ Batches(w) = Batches(m)
  <2>1. how \in [1..m[Len(m)].calls -> Outcomes]
    BY <1>2, <1>4 DEF Outcomes
  <2> QED BY <1>1, <1>3, <1>4, <2>1, AnswerSettles
<1>6. exe' = [exe EXCEPT ![e] = [exe[e] EXCEPT !.pc = "save", !.round = r, !.msgs = w,
                                               !.fails = exe[e].fails]]
  <2>1. exe \in [Executions -> Exec]
    BY ExecSet
  <2>2. exe' = [exe EXCEPT ![e] = [@ EXCEPT !.pc = "save", !.msgs = w]]
    BY <1>2, <2>1 DEF Exec
  <2> QED BY <2>2, Unnamed
<1> HIDE DEF w, r
<1>7. "save" \in LoopPcs /\ Stores(w) /\ Batches(exe[e].msgs) \subseteq Batches(w)
  BY <1>0, <1>5 DEF LoopPcs, Stores
<1>8. r \in 1..(MaxRounds + 1) /\ r <= MaxRounds /\ faults' \in Nat /\ checkpoint' = checkpoint
  BY <1>0, <1>1, <1>2 DEF AgentAssumption, Fault
<1> HIDE DEF m
<1>9. TypeOK' /\ Loop(e, w) /\ exe'[e].pc = "save"
  <2> DEFINE pc == "save"
             n == exe[e].fails
  <2>1. exe' = [exe EXCEPT ![e] = [exe[e] EXCEPT !.pc = pc, !.round = r, !.msgs = w, !.fails = n]]
    BY <1>6
  <2>2. /\ pc \in LoopPcs /\ n \in Nat
        /\ pc \in {"model", "tools", "save"} => r <= MaxRounds
    BY <1>1, <1>7, <1>8
  <2>3. /\ Loops(e) /\ Frame /\ batches' \in Nat /\ ran' \subseteq Nat \X (1..MaxCalls)
        /\ lost' \subseteq Nat /\ faults' \in Nat /\ checkpoint' = checkpoint
    BY <1>0, <1>1, <1>8
  <2> HIDE DEF pc, n
  <2>4. TypeOK' /\ Loop(e, w) /\ exe'[e].pc = pc
    BY <1>5, <1>7, <1>8, <2>1, <2>2, <2>3, KeepsLoops
  <2> QED BY <2>4 DEF pc
<1> QED BY <1>0, <1>2, <1>9 DEF w, q, m

LEMMA EndOfRoundLoops ==
  ASSUME AgentAssumption, TypeOK, Rounds, NEW e \in Executions, EndOfRound(e)
  PROVE  Settles(e)
<1> DEFINE m == exe[e].msgs
           r == exe[e].round
<1>0. /\ At(e, "save") /\ Loops(e) /\ Frame /\ UNCHANGED <<batches, ran>> /\ ~At(e, "tools")
  BY DEF EndOfRound, At, Loops, Frame
<1>1. /\ m \in Seq(Messages) /\ r \in 1..MaxRounds /\ exe[e].fails \in Nat
      /\ batches' \in Nat /\ ran' \subseteq Nat \X (1..MaxCalls)
      /\ lost \subseteq Nat /\ faults \in Nat
  <2>1. exe[e] \in Exec /\ m \in Seq(Messages) /\ r \in Nat /\ r >= 1 /\ r <= MaxRounds
    BY <1>0, LoopHolds DEF At
  <2>2. exe[e].fails \in Nat /\ r \in 1..MaxRounds
    BY <2>1 DEF Exec, AgentAssumption
  <2> QED BY <1>0, <2>1, <2>2 DEF TypeOK
<1>2. r - 1 \in 0..MaxRounds /\ r \in 0..MaxRounds /\ r + 1 \in 1..(MaxRounds + 1)
  BY <1>1 DEF AgentAssumption
<1>3. ASSUME NEW k \in 0..MaxRounds, NEW s \in {"completed", "cancelled"}, End(e, m, k, s)
      PROVE  Settles(e)
  BY <1>0, <1>1, <1>3, EndLoops DEF Settles
<1>4. CASE Save(m, r, "running") /\ exe' = [exe EXCEPT ![e] = [@ EXCEPT !.pc = "round", !.round = r + 1]]
  <2>1. exe' = [exe EXCEPT ![e] = [@ EXCEPT !.pc = "round", !.round = r + 1]]
    <3>1. exe \in [Executions -> Exec]
      BY ExecSet
    <3> QED BY <1>4, <3>1 DEF Exec
  <2>2. exe' = [exe EXCEPT ![e] = [exe[e] EXCEPT !.pc = "round", !.round = r + 1, !.msgs = m,
                                                 !.fails = exe[e].fails]]
    BY <2>1, Unnamed
  <2>3. /\ Stores(m) /\ lost' \subseteq Nat /\ faults' \in Nat
        /\ \/ checkpoint' = checkpoint
           \/ checkpoint' \in [round : 0..MaxRounds, msgs : Seq(Messages),
                               status : {"none", "running", "completed", "cancelled", "error"}]
    <3>1. Batches(m) \subseteq Nat
      BY <1>1, BatchesNat
    <3>2. CASE checkpoint' = [round |-> r, status |-> "running", msgs |-> m] /\ UNCHANGED <<lost, faults>>
      BY <1>1, <1>2, <3>2 DEF Stores
    <3>3. CASE /\ Fault /\ lost' = lost \union (Batches(m) \ Batches(checkpoint.msgs))
               /\ UNCHANGED checkpoint
      <4> HIDE DEF m
      <4>1. lost \subseteq lost' /\ lost' \subseteq Nat
        BY <1>1, <3>1, <3>3
      <4>2. faults' \in Nat
        BY <1>1, <3>3 DEF Fault
      <4> QED BY <3>3, <4>1, <4>2 DEF Stores
    <3> QED BY <1>4, <3>2, <3>3 DEF Save
  <2>4. "round" \in LoopPcs /\ "round" \notin {"model", "tools", "save"}
    BY DEF LoopPcs
  <2>5. TypeOK' /\ Loop(e, m) /\ exe'[e].pc = "round"
    <3> HIDE DEF m, r
    <3>1. Batches(exe[e].msgs) \subseteq Batches(m)
      BY DEF m
    <3> DEFINE k == r + 1
               n == exe[e].fails
    <3>2. k \in 1..(MaxRounds + 1) /\ n \in Nat
      BY <1>1, <1>2
    <3>3. exe' = [exe EXCEPT ![e] = [exe[e] EXCEPT !.pc = "round", !.round = k, !.msgs = m, !.fails = n]]
      BY <2>2
    <3> HIDE DEF k, n
    <3> QED BY <1>0, <1>1, <2>3, <2>4, <3>1, <3>2, <3>3, KeepsLoops
  <2> QED BY <1>0, <2>5 DEF Settles
<1>5. \/ End(e, m, r - 1, "cancelled") \/ End(e, m, r, "completed")
      \/ Save(m, r, "running") /\ exe' = [exe EXCEPT ![e] = [@ EXCEPT !.pc = "round", !.round = r + 1]]
  BY DEF EndOfRound
<1> QED BY <1>2, <1>3, <1>4, <1>5

LEMMA UnsavedMember ==
  ASSUME NEW E, NEW b
  PROVE  b \in Unsaved(E) <=> /\ \E f \in E : Loops(f) /\ b \in Batches(exe[f].msgs)
                              /\ b \notin Batches(checkpoint.msgs)
<1> DEFINE L == {f \in E : Loops(f)}
           B(e) == Batches(exe[e].msgs)
<1>1. Unsaved(E) = (UNION {B(e) : e \in L}) \ Batches(checkpoint.msgs)
  BY Zenon DEF Unsaved
<1>2. \A f : f \in L <=> f \in E /\ Loops(f)
  OBVIOUS
<1> HIDE DEF L, B
<1>3. b \in UNION {B(e) : e \in L} <=> \E f \in L : b \in B(f)
  OBVIOUS
<1>4. b \in Unsaved(E) <=> (\E f \in E : Loops(f) /\ b \in B(f)) /\ b \notin Batches(checkpoint.msgs)
  <2>1. (\E f \in L : b \in B(f)) <=> (\E f \in E : Loops(f) /\ b \in B(f))
    BY <1>2, Zenon
  <2>2. b \in Unsaved(E) <=> b \in UNION {B(e) : e \in L} /\ b \notin Batches(checkpoint.msgs)
    BY <1>1, Zenon
  <2> QED BY <1>3, <2>1, <2>2, Zenon
<1> QED BY <1>4 DEF B

\* A client that goes away takes the transcript with it.
LEMMA DisconnectLoops ==
  ASSUME AgentAssumption, TypeOK, Rounds, NEW e \in Executions, Disconnect(e)
  PROVE  /\ TypeOK' /\ UNCHANGED <<batches, ran, checkpoint>> /\ exe'[e] = Leave(e)
         /\ Loop(e, exe[e].msgs)
<1>0. /\ Loops(e) /\ Frame /\ UNCHANGED <<batches, ran, checkpoint>> /\ Fault
      /\ exe' = [exe EXCEPT ![e] = Leave(e)] /\ lost' = lost \union Unsaved({e})
  BY DEF Disconnect, Frame
<1>1. exe \in [Executions -> Exec] /\ Leave(e) \in Exec /\ exe[e].msgs \in Seq(Messages)
  BY <1>0, LoopHolds, LeaveType
<1>2. /\ exe' \in [Executions -> Exec] /\ exe'[e] = Leave(e)
      /\ \A f \in Executions : f # e => exe'[f] = exe[f]
  BY <1>0, <1>1
<1>3. Unsaved({e}) = Batches(exe[e].msgs) \ Batches(checkpoint.msgs)
  BY <1>0, UnsavedMember
<1>4. lost \subseteq Nat /\ Batches(exe[e].msgs) \subseteq Nat
  BY <1>1, BatchesNat DEF TypeOK
<1>5. lost' \subseteq Nat /\ lost \subseteq lost'
      /\ Batches(exe[e].msgs) \subseteq Batches(checkpoint.msgs) \union lost'
  BY <1>0, <1>3, <1>4
<1>6. faults' \in Nat /\ batches' \in Nat /\ ran' \subseteq Nat \X (1..MaxCalls)
  BY <1>0 DEF Fault, TypeOK
<1>7. TypeOK'
  BY <1>0, <1>2, <1>5, <1>6, LoopType
<1>8. Loop(e, exe[e].msgs)
  BY <1>0, <1>1, <1>2, <1>5 DEF Loop, Leaves, Stores, Frame
<1> QED BY <1>0, <1>2, <1>7, <1>8

-----------------------------------------------------------------------------
\* A step of the loop and everything but the transcripts: the execution stays
\* in the loop as it was, or leaves it, and nothing is registered or deleted.
LEMMA LoopStates ==
  ASSUME AgentAssumption, TypeOK, Roles, NEW e \in Executions, NEW w, Loop(e, w)
  PROVE  /\ exe[e].pc \in LoopPcs /\ Loops(e) /\ Live(e) /\ Holds(e)
         /\ \A f \in Executions : f # e =>
              /\ Live(f)' <=> Live(f)
              /\ Loops(f)' <=> Loops(f)
              /\ Starting(f)' <=> Starting(f)
              /\ Holds(f)' <=> Holds(f)
              /\ exe'[f] = exe[f]
         /\ \/ Loops(e)' /\ Live(e)' /\ Holds(e)' /\ ~Starting(e)' /\ Keeps(e, w)
            \/ /\ ~Loops(e)' /\ ~Holds(e)' /\ exe'[e] = Leave(e)
               /\ exe'[e].pc \in {"unregister", "ended"} /\ Leaves(e, w)
               /\ exe'[e].pc = "ended" <=> exe[e].gated
         /\ exe'[e].proc = exe[e].proc /\ exe'[e].gated = exe[e].gated
<1>1. exe[e].pc \in LoopPcs /\ Loops(e) /\ Live(e) /\ Holds(e)
  BY LoopPc DEF Loop, LoopPcs, Live, Holds
<1>2. ASSUME NEW f \in Executions, f # e
      PROVE  /\ Live(f)' <=> Live(f)
             /\ Loops(f)' <=> Loops(f)
             /\ Starting(f)' <=> Starting(f)
             /\ Holds(f)' <=> Holds(f)
             /\ exe'[f] = exe[f]
  BY <1>2 DEF Loop, Live, Loops, Starting, Holds
<1>3. CASE Keeps(e, w)
  BY <1>1, <1>2, <1>3 DEF Keeps, LoopPcs, Loops, Live, Holds, Starting, Same
<1>4. CASE Leaves(e, w)
  <2>1. /\ exe'[e] = Leave(e) /\ exe'[e].pc = (IF exe[e].gated THEN "ended" ELSE "unregister")
        /\ exe'[e].proc = exe[e].proc /\ exe'[e].gated = exe[e].gated /\ exe[e].gated \in BOOLEAN
    BY <1>4, LeaveType, ExecSet DEF Leaves, Exec
  <2> QED BY <1>1, <1>2, <1>4, <2>1 DEF Loops, Holds, Starting
<1> QED BY <1>3, <1>4 DEF Loop

LEMMA LoopRounds ==
  ASSUME AgentAssumption, TypeOK, Roles, Rounds, NEW e \in Executions, NEW w, Loop(e, w)
  PROVE  Rounds'
<1> SUFFICES ASSUME NEW f \in Executions
             PROVE  /\ Holds(f)' => exe'[f].round >= 1
                    /\ exe'[f].pc \in {"model", "tools", "save"} => exe'[f].round <= MaxRounds
  BY DEF Rounds
<1>1. CASE f # e
  BY <1>1, LoopStates DEF Rounds
<1>2. CASE f = e
  BY <1>2, LoopStates DEF Keeps
<1> QED BY <1>1, <1>2

LEMMA LoopControl ==
  ASSUME AgentAssumption, TypeOK, Control, NEW e \in Executions, NEW w, Loop(e, w)
  PROVE  Control'
<1> USE DEF Control
<1>0. /\ UNCHANGED <<registry, row, solo, stale>> /\ exe[e] \in Exec /\ Leave(e).msgs = <<>>
      /\ ~Leave(e).asked /\ ~Leave(e).deaf
  BY LeaveType, ExecSet DEF Loop
<1>1. Roles'
  <2> SUFFICES ASSUME NEW f \in Executions
               PROVE  /\ exe'[f].gated => exe'[f].pc \notin {"register", "persist", "unregister", "drop"}
                      /\ exe'[f].asked => Loops(f)' /\ ~exe'[f].gated
                      /\ Live(f)' => exe'[f].proc \in Processes
                      /\ At(f, "off")' => exe'[f].proc = NoProcess
                      /\ ~Holds(f)' => exe'[f].msgs = <<>>
    BY DEF Roles
  <2>1. CASE f # e
    BY <2>1, LoopStates DEF Roles, At
  <2>2. CASE f = e
    BY <1>0, <2>2, LoopStates DEF Roles, Keeps, Same, LoopPcs, At
  <2> QED BY <2>1, <2>2
<1>2. Order'
  <2>1. \A f \in Executions : At(f, "off")' <=> At(f, "off")
    BY LoopStates DEF At, LoopPcs, Keeps
  <2>2. \A f \in Executions : f = 1 /\ At(f, "off") => FALSE
    <3> SUFFICES ASSUME NEW f \in Executions, f = 1, At(f, "off") PROVE FALSE
      OBVIOUS
    <3>1. f < e \/ f = e
      BY DEF Executions, AgentAssumption
    <3> QED BY <3>1, LoopStates DEF Order, At, LoopPcs
  <2> QED BY <2>1, <2>2 DEF Order
<1>3. Alone'
  BY <1>0, LoopStates DEF Alone
<1>4. Listens'
  <2> SUFFICES ASSUME solo', NEW f \in Executions
               PROVE  /\ Starting(f)' => ~exe'[f].stop
                      /\ Loops(f)' /\ ~exe'[f].gated /\ ~exe'[f].deaf =>
                           row'.exists /\ (exe'[f].set \/ (exe'[f].watch /\ ~exe'[f].stop))
    BY DEF Listens
  <2>1. CASE f # e
    BY <1>0, <2>1, LoopStates DEF Listens
  <2>2. CASE f = e
    <3>1. ~Starting(e)'
      BY LoopStates DEF Starting, Holds
    <3>2. CASE ~Loops(e)'
      BY <2>2, <3>1, <3>2
    <3>3. CASE Loops(e)'
      <4>1. Same(exe[e], exe'[e]) /\ Loops(e)
        BY <3>3, LoopStates DEF Keeps
      <4> QED BY <1>0, <2>2, <3>1, <4>1 DEF Listens, Same
    <3> QED BY <3>2, <3>3
  <2> QED BY <2>1, <2>2
<1>5. CancelIsDelivered'
  <2> SUFFICES ASSUME solo', NEW f \in Executions, Loops(f)', exe'[f].asked, ~exe'[f].deaf
               PROVE  CancelReaches(f)'
    BY DEF CancelIsDelivered
  <2>1. CASE f # e
    BY <1>0, <2>1, LoopStates DEF CancelIsDelivered, CancelReaches
  <2>2. CASE f = e
    BY <1>0, <2>2, LoopStates DEF CancelIsDelivered, CancelReaches, Keeps, Same
  <2> QED BY <2>1, <2>2
<1>6. Cleared'
  <2>1. \A f \in Executions : (Unregisters(f) => Unregisters(f)') /\ (Drops(f) => Drops(f)')
                              /\ exe'[f].proc = exe[f].proc
    <3> SUFFICES ASSUME NEW f \in Executions
                 PROVE  (Unregisters(f) => Unregisters(f)') /\ (Drops(f) => Drops(f)')
                        /\ exe'[f].proc = exe[f].proc
      OBVIOUS
    <3>1. CASE f # e
      BY <3>1, LoopStates DEF Unregisters, Drops, At
    <3>2. CASE f = e
      BY <3>2, LoopStates DEF Unregisters, Drops, At, LoopPcs
    <3> QED BY <3>1, <3>2
  <2> QED BY <1>0, <2>1 DEF Cleared
<1> QED BY <1>1, <1>2, <1>3, <1>4, <1>5, <1>6

\* What was remembered is in the new transcript, the checkpoint, or lost.
LEMMA LoopMemory ==
  ASSUME AgentAssumption, TypeOK, Control, Memory, NEW e \in Executions, NEW w, Loop(e, w),
         UNCHANGED ran
  PROVE  Memory'
<1> USE DEF Control, Memory
<1> SUFFICES ASSUME solo' PROVE Carries' /\ Remembered'
  BY DEF Carries, Remembered
<1>1. solo /\ \A f \in Executions : Live(f) => f = e
  BY LoopStates DEF Loop, Alone
<1>2. Batches(checkpoint.msgs) \subseteq Batches(exe[e].msgs) /\ Batches(exe[e].msgs) \subseteq Batches(w)
  BY <1>1, LoopStates DEF Carries, Loop
<1>3. Carries'
  <2> SUFFICES ASSUME NEW f \in Executions, Holds(f)'
               PROVE  Batches(checkpoint'.msgs) \subseteq Batches(exe'[f].msgs)
    BY DEF Carries
  <2>1. f = e
    <3> SUFFICES ASSUME f # e PROVE FALSE
      OBVIOUS
    <3>1. Live(f)
      BY LoopStates DEF Holds, Starting, Loops, Live
    <3> QED BY <1>1, <3>1
  <2>2. exe'[e].msgs = w
    BY <2>1, LoopStates DEF Keeps
  <2> QED BY <1>2, <2>1, <2>2 DEF Loop, Stores
<1>4. Remembered'
  <2> SUFFICES ASSUME NEW c \in ran'
               PROVE  \/ c[1] \in Batches(checkpoint'.msgs) \union lost'
                      \/ \E f \in Executions : Loops(f)' /\ c[1] \in Batches(exe'[f].msgs)
    BY DEF Remembered
  <2>1. \/ c[1] \in Batches(checkpoint.msgs) \union lost
        \/ \E f \in Executions : Loops(f) /\ c[1] \in Batches(exe[f].msgs)
    BY <1>1 DEF Remembered
  <2>2. c[1] \in Batches(w) \union lost
    BY <1>1, <1>2, <2>1 DEF Live, Loops
  <2>3. lost \subseteq lost'
    BY DEF Loop, Stores
  <2>4. CASE c[1] \in Batches(w)
    BY <2>4, LoopStates DEF Keeps, Leaves
  <2> QED BY <2>2, <2>3, <2>4
<1> QED BY <1>3, <1>4

-----------------------------------------------------------------------------
\* The steps outside iter_react that leave every transcript as it is: the
\* bookkeeping before and after it, and the cancels.
Moves(f) ==
    \/ exe'[f].pc = exe[f].pc
    \/ exe[f].pc = "register" /\ exe'[f].pc = "persist"
    \/ exe[f].pc = "persist" /\ exe'[f].pc = "round"
    \/ exe[f].pc = "unregister" /\ exe'[f].pc = "drop"
    \/ exe[f].pc = "drop" /\ exe'[f].pc = "ended"
Quiet ==
    /\ \A f \in Executions :
        Moves(f) /\ exe'[f].msgs = exe[f].msgs /\ (Holds(f)' => exe'[f].round = exe[f].round)
    /\ UNCHANGED <<checkpoint, batches, ran, lost, solo>>

LEMMA QuietStates ==
  ASSUME Quiet, NEW f \in Executions
  PROVE  /\ Loops(f) => Loops(f)' /\ exe'[f].pc = exe[f].pc
         /\ Holds(f)' <=> Holds(f)
         /\ Live(f)' => Live(f)
         /\ At(f, "tools")' <=> At(f, "tools")
         /\ At(f, "off")' <=> At(f, "off")
         /\ Loops(f)' => Loops(f) \/ (At(f, "persist") /\ exe'[f].pc = "round")
         /\ Starting(f)' => Starting(f)
  BY DEF Quiet, Moves, Loops, Holds, Starting, Live, At

LEMMA QuietRounds ==
  ASSUME Quiet, Rounds
  PROVE  Rounds'
<1> SUFFICES ASSUME NEW f \in Executions
             PROVE  /\ Holds(f)' => exe'[f].round >= 1
                    /\ exe'[f].pc \in {"model", "tools", "save"} => exe'[f].round <= MaxRounds
  BY DEF Rounds
<1>1. Holds(f)' => exe'[f].round >= 1
  BY QuietStates DEF Quiet, Rounds
<1>2. exe'[f].pc \in {"model", "tools", "save"} => exe[f].pc = exe'[f].pc /\ Holds(f)'
  BY DEF Quiet, Moves, Holds, Loops
<1> QED BY <1>1, <1>2 DEF Quiet, Rounds

\* A sound transcript stays sound as long as no call of it is run.
LEMMA SoundStays ==
  ASSUME NEW m, NEW n \in Nat, NEW k \in Nat, n <= k, NEW R, NEW P, NEW Q, Q \subseteq P,
         Sound(m, n, R, P)
  PROVE  Sound(m, k, R, Q)
<1>1. 1..n \subseteq 1..k
  OBVIOUS
<1> QED BY <1>1 DEF Sound

LEMMA PendingMember ==
  ASSUME NEW b
  PROVE  b \in Pending <=> \E f \in Executions : At(f, "tools") /\ b = Asked(f).batch
  BY DEF Pending

LEMMA PendingKept ==
  ASSUME \A f \in Executions : At(f, "tools")' => At(f, "tools") /\ exe'[f].msgs = exe[f].msgs
  PROVE  Pending' \subseteq Pending
<1>1. \A f \in Executions : At(f, "tools")' => At(f, "tools") /\ Asked(f)' = Asked(f)
  BY DEF Asked
<1> QED BY <1>1 DEF Pending

LEMMA QuietTranscripts ==
  ASSUME TypeOK, Quiet, Transcripts
  PROVE  Transcripts'
<1>1. /\ UNCHANGED <<checkpoint, batches, ran>> /\ batches \in Nat
      /\ \A f \in Executions : exe'[f].msgs = exe[f].msgs
      /\ \A f \in Executions : At(f, "tools")' <=> At(f, "tools")
  BY QuietStates DEF Quiet, TypeOK
<1>2. Pending' \subseteq Pending
  BY <1>1, PendingKept
<1>3. \A m : Sound(m, batches, ran, Pending) => Sound(m, batches, ran, Pending')
  BY <1>1, <1>2, SoundStays
<1>4. /\ Sound(checkpoint'.msgs, batches', ran', Pending') /\ Settled(checkpoint'.msgs)
      /\ \A f \in Executions : Sound(exe'[f].msgs, batches', ran', Pending')
  BY <1>1, <1>3 DEF Transcripts
<1> QED BY <1>1, <1>4 DEF Transcripts

LEMMA QuietMemory ==
  ASSUME Quiet, Memory
  PROVE  Memory'
<1> USE DEF Memory
<1>1. /\ UNCHANGED <<checkpoint, lost, ran, solo>>
      /\ \A f \in Executions : /\ exe'[f].msgs = exe[f].msgs /\ (Holds(f)' => Holds(f))
                                /\ (Loops(f) => Loops(f)')
  BY QuietStates DEF Quiet
<1>2. Carries'
  BY <1>1 DEF Carries
<1>3. Remembered'
  BY <1>1 DEF Remembered
<1> QED BY <1>2, <1>3

\* Part of the control that follows from what a step does to every execution.
LEMMA RolesFollow ==
  ASSUME Quiet, Roles,
         \A f \in Executions :
           /\ exe'[f].gated => exe[f].gated
           /\ exe'[f].asked => exe[f].asked \/ (Loops(f) /\ ~exe[f].gated)
           /\ exe'[f].proc = exe[f].proc \/ At(f, "ended")'
  PROVE  Roles'
<1> SUFFICES ASSUME NEW f \in Executions
             PROVE  /\ exe'[f].gated => exe'[f].pc \notin {"register", "persist", "unregister", "drop"}
                    /\ exe'[f].asked => Loops(f)' /\ ~exe'[f].gated
                    /\ Live(f)' => exe'[f].proc \in Processes
                    /\ At(f, "off")' => exe'[f].proc = NoProcess
                    /\ ~Holds(f)' => exe'[f].msgs = <<>>
  BY DEF Roles
<1>1. exe'[f].gated => exe'[f].pc \notin {"register", "persist", "unregister", "drop"}
  BY DEF Quiet, Moves, Roles
<1>2. exe'[f].asked => Loops(f)' /\ ~exe'[f].gated
  BY QuietStates DEF Roles
<1>3. Live(f)' => exe'[f].proc \in Processes
  BY QuietStates DEF Roles, At, Live
<1>4. ~Holds(f)' => exe'[f].msgs = <<>>
  BY QuietStates DEF Roles, Quiet
<1>5. At(f, "off")' => exe'[f].proc = NoProcess
  BY QuietStates DEF Roles, At
<1> QED BY <1>1, <1>2, <1>3, <1>4, <1>5

LEMMA OrderFollows ==
  ASSUME Quiet, Order, Alone
  PROVE  Order' /\ Alone'
<1>1. \A f \in Executions : (At(f, "off")' <=> At(f, "off")) /\ (Live(f)' => Live(f))
  BY QuietStates
<1>2. Order'
  BY <1>1 DEF Order, Quiet
<1>3. Alone'
  BY <1>1 DEF Alone, Quiet
<1> QED BY <1>2, <1>3

LEMMA RegisterKeeps ==
  ASSUME AgentAssumption, TypeOK, Control, NEW e \in Executions, Register(e)
  PROVE  TypeOK' /\ Quiet /\ Control'
<1> USE DEF Control
<1>1. /\ At(e, "register") /\ exe \in [Executions -> Exec] /\ exe[e] \in Exec
      /\ exe' = [exe EXCEPT ![e] = [exe[e] EXCEPT !.pc = "persist"]]
      /\ registry' = [registry EXCEPT ![exe[e].proc] = e]
      /\ UNCHANGED <<checkpoint, row, request, batches, cancels, faults, ran, lost, stale, solo>>
  BY ExecSet DEF Register, history, Exec
<1>2. [exe[e] EXCEPT !.pc = "persist"] \in Exec
  BY <1>1 DEF Exec, Steps
<1>3. exe' \in [Executions -> Exec] /\ registry' \in [Processes -> Executions \union {NoExecution}]
  BY <1>1, <1>2 DEF TypeOK
<1>4. TypeOK'
  BY <1>1, <1>3, ExecSet DEF TypeOK, Exec
<1>5. /\ exe'[e] = [exe[e] EXCEPT !.pc = "persist"] /\ exe'[e].pc = "persist"
      /\ \A f \in Executions : f # e => exe'[f] = exe[f]
      /\ \A f \in Executions :
           /\ exe'[f].proc = exe[f].proc /\ exe'[f].gated = exe[f].gated /\ exe'[f].round = exe[f].round
           /\ exe'[f].msgs = exe[f].msgs /\ exe'[f].set = exe[f].set /\ exe'[f].watch = exe[f].watch
           /\ exe'[f].stop = exe[f].stop /\ exe'[f].asked = exe[f].asked /\ exe'[f].deaf = exe[f].deaf
  BY <1>1 DEF Exec
<1>6. Quiet
  BY <1>1, <1>5 DEF Quiet, Moves, At
<1>7. Roles' /\ Order' /\ Alone'
  BY <1>5, <1>6, RolesFollow, OrderFollows
<1>8. \A f \in Executions : (Loops(f)' <=> Loops(f)) /\ (Starting(f)' <=> Starting(f))
  BY <1>1, <1>5 DEF Loops, Starting, At
<1>9. Listens' /\ CancelIsDelivered'
  BY <1>1, <1>5, <1>8 DEF Listens, CancelIsDelivered, CancelReaches
<1>10. Cleared'
  <2>1. \A f \in Executions : (Unregisters(f) => Unregisters(f)') /\ (Drops(f) => Drops(f)')
    BY <1>1, <1>5, <1>8 DEF Unregisters, Drops, At
  <2>2. Unregisters(e)'
    BY <1>1, <1>5 DEF Unregisters, At, Roles
  <2>3. \A p \in Processes : p # exe[e].proc => registry'[p] = registry[p]
    BY <1>1 DEF TypeOK
  <2> QED BY <1>1, <1>5, <2>1, <2>2, <2>3 DEF Cleared
<1> QED BY <1>4, <1>6, <1>7, <1>9, <1>10

LEMMA PersistKeeps ==
  ASSUME AgentAssumption, TypeOK, Control, NEW e \in Executions, Persist(e)
  PROVE  TypeOK' /\ Quiet /\ Control'
<1> USE DEF Control
<1>1. PICK deaf \in BOOLEAN :
      /\ At(e, "persist") /\ exe \in [Executions -> Exec] /\ exe[e] \in Exec
      /\ exe' = [exe EXCEPT ![e] = [exe[e] EXCEPT !.pc = "round", !.watch = TRUE, !.deaf = deaf]]
      /\ (deaf /\ row' = row) \/ row' = [exists |-> TRUE, cancel |-> FALSE]
      /\ ~deaf => row' = [exists |-> TRUE, cancel |-> FALSE]
      /\ faults' \in Nat
      /\ UNCHANGED <<checkpoint, registry, request, batches, cancels, ran, lost, stale, solo>>
  <2>0. /\ At(e, "persist")
        /\ UNCHANGED <<checkpoint, registry, request, batches, cancels, ran, lost, stale, solo>>
    BY DEF Persist, history
  <2>1. exe \in [Executions -> Exec] /\ exe[e] \in Exec /\ faults \in Nat
    BY ExecSet
  <2>2. CASE /\ row' = [exists |-> TRUE, cancel |-> FALSE]
             /\ exe' = [exe EXCEPT ![e] = [@ EXCEPT !.pc = "round", !.watch = TRUE]]
             /\ UNCHANGED faults
    <3>1. exe' = [exe EXCEPT ![e] = [exe[e] EXCEPT !.pc = "round", !.watch = TRUE, !.deaf = exe[e].deaf]]
      BY <2>1, <2>2 DEF Exec
    <3>2. exe[e].deaf \in BOOLEAN
      BY <2>1 DEF Exec
    <3> QED BY <2>0, <2>1, <2>2, <3>1, <3>2
  <2>3. CASE /\ Fault
             /\ exe' = [exe EXCEPT ![e] = [@ EXCEPT !.pc = "round", !.watch = TRUE, !.deaf = TRUE]]
             /\ UNCHANGED row
    <3>1. exe' = [exe EXCEPT ![e] = [exe[e] EXCEPT !.pc = "round", !.watch = TRUE, !.deaf = TRUE]]
      BY <2>1, <2>3 DEF Exec
    <3>2. faults' \in Nat /\ TRUE \in BOOLEAN
      BY <2>1, <2>3 DEF Fault
    <3> QED BY <2>0, <2>1, <2>3, <3>1, <3>2
  <2> QED BY <2>2, <2>3 DEF Persist
<1>2. [exe[e] EXCEPT !.pc = "round", !.watch = TRUE, !.deaf = deaf] \in Exec
  BY <1>1 DEF Exec, Steps
<1>3. exe' \in [Executions -> Exec] /\ row' \in [exists : BOOLEAN, cancel : BOOLEAN]
  <2>1. row' \in [exists : BOOLEAN, cancel : BOOLEAN]
    BY <1>1, RowType
  <2> QED BY <1>1, <1>2, <2>1
<1>4. TypeOK'
  BY <1>1, <1>3, ExecSet DEF TypeOK, Exec
<1>5. /\ exe'[e].pc = "round" /\ exe'[e].watch /\ exe'[e].deaf = deaf
      /\ \A f \in Executions : f # e => exe'[f] = exe[f]
      /\ \A f \in Executions :
           /\ exe'[f].proc = exe[f].proc /\ exe'[f].gated = exe[f].gated /\ exe'[f].round = exe[f].round
           /\ exe'[f].msgs = exe[f].msgs /\ exe'[f].set = exe[f].set
           /\ exe'[f].stop = exe[f].stop /\ exe'[f].asked = exe[f].asked
  BY <1>1 DEF Exec
<1>6. Quiet
  BY <1>1, <1>5 DEF Quiet, Moves, At
<1>7. Roles' /\ Order' /\ Alone'
  BY <1>5, <1>6, RolesFollow, OrderFollows
<1>8. solo => \A f \in Executions : f # e => ~Live(f) /\ ~Live(f)' /\ ~Loops(f)' /\ ~Starting(f)'
  BY <1>1, <1>5 DEF Alone, Live, At, Loops, Starting
<1>9. Listens'
  <2> SUFFICES ASSUME solo', NEW f \in Executions
               PROVE  /\ Starting(f)' => ~exe'[f].stop
                      /\ Loops(f)' /\ ~exe'[f].gated /\ ~exe'[f].deaf =>
                           row'.exists /\ (exe'[f].set \/ (exe'[f].watch /\ ~exe'[f].stop))
    BY DEF Listens
  <2>1. CASE f = e
    <3>1. ~exe[e].stop
      BY <1>1 DEF Listens, Starting, At
    <3> QED BY <1>1, <1>5, <2>1, <3>1 DEF Starting
  <2> QED BY <1>1, <1>8, <2>1
<1>10. CancelIsDelivered'
  BY <1>1, <1>5, <1>8 DEF CancelIsDelivered, Roles, Loops, At
<1>11. Cleared'
  <2>1. \A f \in Executions : Unregisters(f) => Unregisters(f)'
    BY <1>1, <1>5, QuietStates, <1>6 DEF Unregisters, At, Loops
  <2>2. Drops(e)' /\ \A f \in Executions : Drops(f) => Drops(f)'
    BY <1>1, <1>5 DEF Drops, At, Loops, Roles
  <2> QED BY <1>1, <1>5, <2>1, <2>2 DEF Cleared
<1> QED BY <1>4, <1>6, <1>7, <1>9, <1>10, <1>11

LEMMA UnregisterKeeps ==
  ASSUME AgentAssumption, TypeOK, Control, NEW e \in Executions, Unregister(e)
  PROVE  TypeOK' /\ Quiet /\ Control'
<1> USE DEF Control
<1>1. /\ At(e, "unregister") /\ exe \in [Executions -> Exec] /\ exe[e] \in Exec
      /\ exe' = [f \in Executions |->
                   [exe[f] EXCEPT !.pc = IF f = e THEN "drop" ELSE exe[f].pc,
                                  !.stop = exe[f].stop \/ registry[exe[e].proc] = f]]
      /\ registry' = [registry EXCEPT ![exe[e].proc] = NoExecution]
      /\ UNCHANGED <<checkpoint, row, request, batches, cancels, faults, ran, lost, stale, solo>>
  BY ExecSet DEF Unregister, history, Exec
<1>2. ASSUME NEW f \in Executions
      PROVE  [exe[f] EXCEPT !.pc = IF f = e THEN "drop" ELSE exe[f].pc,
                            !.stop = exe[f].stop \/ registry[exe[e].proc] = f] \in Exec
  BY <1>1 DEF Exec, Steps
<1>3. exe' \in [Executions -> Exec] /\ registry' \in [Processes -> Executions \union {NoExecution}]
  BY <1>1, <1>2 DEF TypeOK
<1>4. TypeOK'
  BY <1>1, <1>3, ExecSet DEF TypeOK, Exec
<1>5. /\ exe'[e].pc = "drop" 
      /\ \A f \in Executions : f # e => exe'[f].pc = exe[f].pc
      /\ \A f \in Executions :
           /\ exe'[f].proc = exe[f].proc /\ exe'[f].gated = exe[f].gated /\ exe'[f].round = exe[f].round
           /\ exe'[f].msgs = exe[f].msgs /\ exe'[f].set = exe[f].set /\ exe'[f].watch = exe[f].watch
           /\ exe'[f].asked = exe[f].asked /\ exe'[f].deaf = exe[f].deaf
  BY <1>1 DEF Exec
<1>6. Quiet
  BY <1>1, <1>5 DEF Quiet, Moves, At
<1>7. Roles' /\ Order' /\ Alone'
  BY <1>5, <1>6, RolesFollow, OrderFollows
<1>8. /\ solo => \A f \in Executions : ~Loops(f)' /\ ~Starting(f)'
  BY <1>1, <1>5 DEF Alone, Live, At, Loops, Starting
<1>9. Listens' /\ CancelIsDelivered'
  BY <1>1, <1>8 DEF Listens, CancelIsDelivered
<1>10. Cleared'
  <2>1. \A p \in Processes : registry'[p] = IF p = exe[e].proc THEN NoExecution ELSE registry[p]
    BY <1>1 DEF TypeOK
  <2>2. \A f \in Executions : f # e => (Unregisters(f) => Unregisters(f)')
    BY <1>5 DEF Unregisters, At, Loops
  <2>3. Drops(e)' /\ \A f \in Executions : Drops(f) => Drops(f)'
    BY <1>1, <1>5 DEF Drops, At, Loops, Roles
  <2>4. ASSUME NEW p \in Processes, registry'[p] # NoExecution
        PROVE  \E f \in Executions : exe'[f].proc = p /\ Unregisters(f)'
    <3>1. p # exe[e].proc /\ registry[p] # NoExecution
      BY <2>1, <2>4
    <3>2. PICK f \in Executions : exe[f].proc = p /\ Unregisters(f)
      BY <3>1 DEF Cleared
    <3> QED BY <1>5, <2>2, <3>1, <3>2
  <2>5. row'.exists /\ ~stale' => \E f \in Executions : Drops(f)'
    BY <1>1, <2>3
  <2> QED BY <2>4, <2>5 DEF Cleared
<1> QED BY <1>4, <1>6, <1>7, <1>9, <1>10

LEMMA DropRowKeeps ==
  ASSUME AgentAssumption, TypeOK, Control, NEW e \in Executions, DropRow(e)
  PROVE  TypeOK' /\ Quiet /\ Control'
<1> USE DEF Control
<1> DEFINE x == [Off EXCEPT !.pc = "ended", !.watch = exe[e].watch, !.stop = exe[e].stop]
<1>1. /\ At(e, "drop") /\ exe \in [Executions -> Exec] /\ exe[e] \in Exec
      /\ exe' = [exe EXCEPT ![e] = x]
      /\ row' = NoRow \/ (stale' = TRUE /\ row' = row)
      /\ faults' \in Nat /\ stale' \in BOOLEAN /\ (stale => stale')
      /\ UNCHANGED <<checkpoint, registry, request, batches, cancels, ran, lost, solo>>
  <2>1. /\ At(e, "drop") /\ exe' = [exe EXCEPT ![e] = x]
        /\ \/ row' = NoRow /\ UNCHANGED <<faults, stale>>
           \/ Fault /\ stale' = TRUE /\ UNCHANGED row
        /\ UNCHANGED <<checkpoint, registry, request, batches, cancels, ran, lost, solo>>
    BY DEF DropRow
  <2> HIDE DEF x
  <2>2. exe \in [Executions -> Exec] /\ exe[e] \in Exec
    BY ExecSet
  <2>3. faults' \in Nat /\ stale' \in BOOLEAN /\ (stale => stale')
    <3>1. CASE UNCHANGED <<faults, stale>>
      BY <3>1, RowType
    <3>2. CASE Fault /\ stale' = TRUE
      BY <3>2, RowType
    <3> QED BY <2>1, <3>1, <3>2
  <2> QED BY <2>1, <2>2, <2>3
<1>2. x \in Exec /\ x.pc = "ended" /\ x.msgs = <<>> /\ ~x.gated /\ ~x.asked
  <2>1. Off \in Exec /\ Off.msgs = <<>> /\ ~Off.gated /\ ~Off.asked
    BY OffType DEF Off
  <2> QED BY <1>1, <2>1 DEF Exec, Steps
<1> HIDE DEF x
<1>3. exe' \in [Executions -> Exec] /\ row' \in [exists : BOOLEAN, cancel : BOOLEAN]
  <2>1. row' \in [exists : BOOLEAN, cancel : BOOLEAN]
    BY <1>1, RowType
  <2> QED BY <1>1, <1>2, <2>1
<1>4. TypeOK'
  BY <1>1, <1>3, ExecSet DEF TypeOK, Exec
<1>5. exe'[e] = x /\ \A f \in Executions : f # e => exe'[f] = exe[f]
  BY <1>1
<1>6. Quiet
  <2>1. exe[e].msgs = <<>>
    BY <1>1 DEF Roles, At, Holds, Starting, Loops
  <2> QED BY <1>1, <1>2, <1>5, <2>1 DEF Quiet, Moves, At, Holds, Starting, Loops
<1>7. Roles' /\ Order' /\ Alone'
  <2>1. \A f \in Executions :
           /\ exe'[f].gated => exe[f].gated
           /\ exe'[f].asked => exe[f].asked \/ (Loops(f) /\ ~exe[f].gated)
           /\ exe'[f].proc = exe[f].proc \/ At(f, "ended")'
    BY <1>2, <1>5 DEF At
  <2> QED BY <2>1, <1>6, RolesFollow, OrderFollows
<1>8. solo => \A f \in Executions : ~Loops(f)' /\ ~Starting(f)'
  BY <1>1, <1>2, <1>5 DEF Alone, Live, At, Loops, Starting
<1>9. Listens' /\ CancelIsDelivered'
  BY <1>1, <1>8 DEF Listens, CancelIsDelivered
<1>10. Cleared'
  <2>1. \A f \in Executions : Unregisters(f) => f # e /\ Unregisters(f)'
    BY <1>1, <1>5 DEF Unregisters, At, Loops
  <2>2. \A f \in Executions : f # e /\ Drops(f) => Drops(f)'
    BY <1>5 DEF Drops, At, Loops
  <2>3. row'.exists /\ ~stale' => FALSE
    BY <1>1, RowType
  <2> QED BY <1>1, <1>5, <2>1, <2>2, <2>3 DEF Cleared
<1> QED BY <1>4, <1>6, <1>7, <1>9, <1>10

LEMMA CancelKeeps ==
  ASSUME AgentAssumption, TypeOK, Control, NEW p \in Processes, Cancel(p)
  PROVE  TypeOK' /\ Quiet /\ Control'
<1> USE DEF Control
<1>1. /\ exe \in [Executions -> Exec]
      /\ exe' = [f \in Executions |-> [exe[f] EXCEPT !.set = exe[f].set \/ (registry[p] = f /\ Open(f))]]
      /\ cancels' \in Nat /\ request' = p
      /\ UNCHANGED <<checkpoint, registry, row, batches, faults, ran, lost, stale, solo>>
  BY ExecSet DEF Cancel, history, Exec
<1>2. ASSUME NEW f \in Executions
      PROVE  [exe[f] EXCEPT !.set = exe[f].set \/ (registry[p] = f /\ Open(f))] \in Exec
  BY <1>1 DEF Exec
<1>3. exe' \in [Executions -> Exec]
  BY <1>1, <1>2
<1>4. TypeOK'
  BY <1>1, <1>3, ExecSet DEF TypeOK, Exec
<1>5. \A f \in Executions :
           /\ exe'[f].pc = exe[f].pc
           /\ exe'[f].proc = exe[f].proc /\ exe'[f].gated = exe[f].gated /\ exe'[f].round = exe[f].round
           /\ exe'[f].msgs = exe[f].msgs /\ (exe[f].set => exe'[f].set) /\ exe'[f].watch = exe[f].watch
           /\ exe'[f].stop = exe[f].stop
           /\ exe'[f].asked = exe[f].asked /\ exe'[f].deaf = exe[f].deaf
  BY <1>1 DEF Exec
<1>6. Quiet
  BY <1>1, <1>5 DEF Quiet, Moves
<1>7. Roles' /\ Order' /\ Alone'
  BY <1>5, <1>6, RolesFollow, OrderFollows
<1>8. \A f \in Executions : (Loops(f)' <=> Loops(f)) /\ (Starting(f)' <=> Starting(f))
  BY <1>5 DEF Loops, Starting
<1>9. Listens' /\ CancelIsDelivered'
  <2>0. row' = row /\ solo' = solo
    BY <1>1
  <2>1. Listens'
    BY <2>0, <1>5, <1>8 DEF Listens
  <2>2. \A f \in Executions : CancelReaches(f) => CancelReaches(f)'
    BY <2>0, <1>5 DEF CancelReaches
  <2>3. CancelIsDelivered'
    BY <2>0, <1>5, <1>8, <2>2 DEF CancelIsDelivered
  <2> QED BY <2>1, <2>3
<1>10. Cleared'
  <2>1. \A f \in Executions : (Unregisters(f) => Unregisters(f)') /\ (Drops(f) => Drops(f)')
    BY <1>5, <1>8 DEF Unregisters, Drops, At
  <2>2. /\ registry' = registry /\ row' = row /\ stale' = stale
        /\ \A f \in Executions : exe'[f].proc = exe[f].proc
    BY <1>1, <1>5
  <2> QED BY <2>1, <2>2 DEF Cleared
<1> QED BY <1>4, <1>6, <1>7, <1>9, <1>10

LEMMA MarkRowKeeps ==
  ASSUME AgentAssumption, TypeOK, Control, MarkRow
  PROVE  TypeOK' /\ Quiet /\ Control'
<1> USE DEF Control
<1>0. /\ request' = NoProcess
      /\ UNCHANGED <<checkpoint, registry, batches, cancels, ran, lost, stale, solo>>
      /\ exe \in [Executions -> Exec] /\ row \in [exists : BOOLEAN, cancel : BOOLEAN]
  BY ExecSet DEF MarkRow, history
<1>1. CASE Fault /\ UNCHANGED <<row, exe>>
  <2>1. faults' \in Nat
    BY <1>1 DEF Fault, TypeOK
  <2>2. TypeOK'
    BY <1>0, <1>1, <2>1 DEF TypeOK
  <2>3. Quiet
    BY <1>0, <1>1 DEF Quiet, Moves
  <2>4. Control'
    BY <1>0, <1>1 DEF Roles, Order, Alone, Listens, CancelIsDelivered, CancelReaches, Cleared,
       Loops, Starting, Live, At, Holds, Unregisters, Drops
  <2> QED BY <2>2, <2>3, <2>4
<1>2. CASE /\ row' = [row EXCEPT !.cancel = row.exists] /\ UNCHANGED faults
           /\ exe' = [f \in Executions |->
                        [exe[f] EXCEPT !.asked = exe[f].asked \/ (Loops(f) /\ ~exe[f].gated)]]
  <2>1. ASSUME NEW f \in Executions
        PROVE  [exe[f] EXCEPT !.asked = exe[f].asked \/ (Loops(f) /\ ~exe[f].gated)] \in Exec
    BY <1>0 DEF Exec
  <2>2. /\ exe' \in [Executions -> Exec] /\ row' \in [exists : BOOLEAN, cancel : BOOLEAN]
        /\ row'.exists = row.exists /\ row'.cancel = row.exists
    BY <1>0, <1>2, <2>1
  <2>3. TypeOK'
    BY <1>0, <1>2, <2>2, ExecSet DEF TypeOK, Exec
  <2>4. \A f \in Executions :
             /\ exe'[f].pc = exe[f].pc
             /\ exe'[f].proc = exe[f].proc /\ exe'[f].gated = exe[f].gated /\ exe'[f].round = exe[f].round
             /\ exe'[f].msgs = exe[f].msgs /\ exe'[f].set = exe[f].set /\ exe'[f].watch = exe[f].watch
             /\ exe'[f].stop = exe[f].stop /\ exe'[f].deaf = exe[f].deaf
             /\ exe'[f].asked => exe[f].asked \/ (Loops(f) /\ ~exe[f].gated)
    BY <1>0, <1>2 DEF Exec
  <2>5. Quiet
    BY <1>0, <2>4 DEF Quiet, Moves
  <2>6. Roles' /\ Order' /\ Alone'
    BY <2>4, <2>5, RolesFollow, OrderFollows
  <2>7. \A f \in Executions : (Loops(f)' <=> Loops(f)) /\ (Starting(f)' <=> Starting(f))
    BY <2>4 DEF Loops, Starting
  <2>8. Listens'
    BY <1>0, <2>2, <2>4, <2>7 DEF Listens
  <2>9. CancelIsDelivered'
    BY <1>0, <2>2, <2>4, <2>7, <2>8 DEF Listens, CancelIsDelivered, CancelReaches, Roles
  <2>10. Cleared'
    <3>1. \A f \in Executions : (Unregisters(f) => Unregisters(f)') /\ (Drops(f) => Drops(f)')
      BY <2>4, <2>7 DEF Unregisters, Drops, At
    <3> QED BY <1>0, <2>2, <2>4, <3>1 DEF Cleared
  <2> QED BY <2>3, <2>5, <2>6, <2>8, <2>9, <2>10
<1> QED BY <1>1, <1>2 DEF MarkRow, Answered

LEMMA WatchKeeps ==
  ASSUME AgentAssumption, TypeOK, Control, NEW e \in Executions, Watch(e)
  PROVE  TypeOK' /\ Quiet /\ Control'
<1> USE DEF Control
<1>1. PICK set \in BOOLEAN, deaf \in BOOLEAN :
        /\ \/ (exe[e].stop \/ ~row.exists) /\ ~set /\ ~deaf /\ UNCHANGED faults
           \/ ~exe[e].stop /\ row.cancel /\ set /\ ~deaf /\ UNCHANGED faults
           \/ ~exe[e].stop /\ ~set /\ deaf /\ Fault
        /\ exe' = [exe EXCEPT ![e] = [@ EXCEPT !.watch = FALSE, !.stop = FALSE,
                                        !.set = exe[e].set \/ (set /\ Open(e)),
                                        !.deaf = exe[e].deaf \/ (deaf /\ Open(e))]]
  BY DEF Watch
<1> DEFINE x == [exe[e] EXCEPT !.watch = FALSE, !.stop = FALSE,
                               !.set = exe[e].set \/ (set /\ Open(e)),
                               !.deaf = exe[e].deaf \/ (deaf /\ Open(e))]
<1>2. /\ exe \in [Executions -> Exec] /\ exe[e] \in Exec /\ exe' = [exe EXCEPT ![e] = x]
      /\ faults' \in Nat
      /\ UNCHANGED <<checkpoint, registry, row, request, batches, cancels, ran, lost, stale, solo>>
  <2>1. /\ exe \in [Executions -> Exec] /\ exe[e] \in Exec /\ faults' \in Nat
    BY <1>1, ExecSet, RowType
  <2>2. UNCHANGED <<checkpoint, registry, row, request, batches, cancels, ran, lost, stale, solo>>
    BY DEF Watch, history
  <2> QED BY <1>1, <2>1, <2>2
<1>3. x \in Exec
  BY <1>2 DEF Exec
<1>4. exe' \in [Executions -> Exec]
  BY <1>2, <1>3
<1>5. TypeOK'
  BY <1>2, <1>4, ExecSet DEF TypeOK, Exec
<1>6. /\ \A f \in Executions : f # e => exe'[f] = exe[f]
      /\ \A f \in Executions :
           /\ exe'[f].pc = exe[f].pc
           /\ exe'[f].proc = exe[f].proc /\ exe'[f].gated = exe[f].gated /\ exe'[f].round = exe[f].round
           /\ exe'[f].msgs = exe[f].msgs /\ exe'[f].asked = exe[f].asked
      /\ (exe'[e].set <=> exe[e].set \/ (set /\ Open(e))) /\ ~exe'[e].stop
      /\ (exe'[e].deaf <=> exe[e].deaf \/ (deaf /\ Open(e)))
  BY <1>2 DEF Exec
<1>7. Quiet
  BY <1>2, <1>6 DEF Quiet, Moves
<1>8. Roles' /\ Order' /\ Alone'
  BY <1>6, <1>7, RolesFollow, OrderFollows
<1>9. \A f \in Executions : /\ (Loops(f)' <=> Loops(f)) /\ (Starting(f)' <=> Starting(f))
                            /\ (Loops(f) => Open(f))
  BY <1>6 DEF Loops, Starting, Open
<1>10. Listens'
  <2> SUFFICES ASSUME solo', NEW f \in Executions
               PROVE  /\ Starting(f)' => ~exe'[f].stop
                      /\ Loops(f)' /\ ~exe'[f].gated /\ ~exe'[f].deaf =>
                           row'.exists /\ (exe'[f].set \/ (exe'[f].watch /\ ~exe'[f].stop))
    BY DEF Listens
  <2>1. CASE f = e
    <3>1. ASSUME Loops(f)', ~exe'[f].gated, ~exe'[f].deaf PROVE row.exists /\ exe'[e].set
      <4>1. Loops(e) /\ Open(e) /\ ~exe[e].gated /\ ~exe[e].deaf /\ ~deaf /\ solo
        BY <1>2, <1>6, <1>9, <2>1, <3>1
      <4>2. row.exists /\ (exe[e].set \/ ~exe[e].stop)
        BY <4>1 DEF Listens
      <4> QED BY <1>1, <1>6, <4>1, <4>2
    <3> QED BY <1>2, <1>6, <2>1, <3>1
  <2>2. CASE f # e
    BY <1>2, <1>6, <1>9, <2>2 DEF Listens
  <2> QED BY <2>1, <2>2
<1>11. CancelIsDelivered'
  <2> SUFFICES ASSUME solo', NEW f \in Executions, Loops(f)', exe'[f].asked, ~exe'[f].deaf
               PROVE  CancelReaches(f)'
    BY DEF CancelIsDelivered
  <2>1. CASE f = e
    <3>1. exe'[f].set \/ (exe'[f].watch /\ ~exe'[f].stop)
      BY <1>8, <1>10, <2>1 DEF Listens, Roles
    <3>2. ~exe'[e].watch
      BY <1>2 DEF Exec
    <3> QED BY <2>1, <3>1, <3>2 DEF CancelReaches
  <2>2. CASE f # e
    BY <1>2, <1>6, <1>9, <2>2 DEF CancelIsDelivered, CancelReaches
  <2> QED BY <2>1, <2>2
<1>12. Cleared'
  <2>1. \A f \in Executions : (Unregisters(f) => Unregisters(f)') /\ (Drops(f) => Drops(f)')
    BY <1>6, <1>9 DEF Unregisters, Drops, At
  <2> QED BY <1>2, <1>6, <2>1 DEF Cleared
<1> QED BY <1>5, <1>7, <1>8, <1>10, <1>11, <1>12

-----------------------------------------------------------------------------
\* The first execution begins with the query; nothing else is there yet.
LEMMA SettledQuery == Settled(<<Query>>) /\ Settled(<<>>)
<1>1. \A i \in DOMAIN <<Query>> : <<Query>>[i].kind = "query"
  BY DEF Query
<1> QED BY <1>1 DEF Settled

LEMMA SoundQuery ==
  ASSUME NEW n, NEW R, NEW P
  PROVE  Sound(<<Query>>, n, R, P) /\ Sound(<<>>, n, R, P)
<1>1. \A i \in DOMAIN <<Query>> : <<Query>>[i].kind = "query"
  BY DEF Query
<1> QED BY <1>1, NoBatches DEF Sound

LEMMA StartKeeps ==
  ASSUME AgentAssumption, IInv, NEW gated \in BOOLEAN, Start(gated)
  PROVE  IInv'
<1> USE DEF IInv, Control, Memory
<1> DEFINE x == [Off EXCEPT !.pc = IF gated THEN "round" ELSE "register", !.proc = Home,
                            !.gated = gated, !.round = 1, !.msgs = <<Query>>]
<1>1. /\ 1 \in Executions /\ At(1, "off") /\ exe \in [Executions -> Exec]
      /\ exe' = [exe EXCEPT ![1] = x]
      /\ UNCHANGED <<checkpoint, registry, row, request, batches, cancels, faults, ran, lost, stale, solo>>
  BY ExecSet DEF Start, history, Executions, AgentAssumption
<1>2. /\ x \in Exec /\ x.pc = (IF gated THEN "round" ELSE "register") /\ x.proc = Home
      /\ x.gated = gated /\ x.round = 1 /\ x.msgs = <<Query>> /\ ~x.set /\ ~x.watch /\ ~x.stop
      /\ ~x.asked /\ ~x.deaf
  <2>1. /\ Off \in Exec /\ ~Off.set /\ ~Off.watch /\ ~Off.stop /\ ~Off.asked /\ ~Off.deaf
    BY OffType DEF Off
  <2>2. <<Query>> \in Seq(Messages) /\ 1 \in 0..(MaxRounds + 1) /\ Home \in Processes
    BY Made DEF AgentAssumption
  <2> QED BY <2>1, <2>2 DEF Exec, Steps
<1> HIDE DEF x
<1>3. exe'[1] = x /\ exe' \in [Executions -> Exec] /\ \A f \in Executions : f # 1 => exe'[f] = exe[f]
  BY <1>1, <1>2
<1>4. TypeOK'
  BY <1>1, <1>3, ExecSet DEF TypeOK, Exec
<1>5. /\ \A f \in Executions : At(f, "off") /\ ~Live(f) /\ ~Loops(f) /\ ~Holds(f)
      /\ \A f \in Executions : f # 1 => ~Live(f)' /\ ~Loops(f)' /\ ~Holds(f)' /\ ~Starting(f)'
      /\ checkpoint.msgs = <<>>
  <2>1. \A f \in Executions : f # 1 => 1 < f
    BY DEF Executions, AgentAssumption
  <2>2. \A f \in Executions : At(f, "off")
    BY <1>1, <2>1 DEF Order
  <2>3. checkpoint.msgs = <<>>
    BY <1>1 DEF Order
  <2> QED BY <1>3, <2>2, <2>3 DEF At, Live, Loops, Holds, Starting
<1>6. Rounds'
  BY <1>2, <1>3, <1>5 DEF Rounds, Holds, Loops
<1>7. Roles'
  BY <1>2, <1>3, <1>5 DEF Roles, Holds, Loops, Starting, Live, At, AgentAssumption
<1>8. Order' /\ Alone'
  <2>1. \A e, f \in Executions : e < f => f # 1
    BY DEF Executions, AgentAssumption
  <2>2. ~At(1, "off")'
    BY <1>2, <1>3 DEF At
  <2>3. \A f \in Executions : f # 1 => At(f, "off")'
    BY <1>3, <1>5 DEF At
  <2> QED BY <1>5, <2>1, <2>2, <2>3 DEF Order, Alone
<1>9. Listens' /\ CancelIsDelivered'
  BY <1>2, <1>3, <1>5 DEF Listens, CancelIsDelivered, Loops, Starting
<1>10. Cleared'
  BY <1>1, <1>5 DEF Cleared, Unregisters, Drops, At
<1>11. Transcripts'
  <2>1. \A f \in Executions : ~At(f, "tools") /\ ~At(f, "tools")'
    BY <1>2, <1>3, <1>5 DEF At
  <2>2. Pending' = Pending
    BY <2>1 DEF Pending
  <2>3. \A f \in Executions : exe'[f].msgs = exe[f].msgs \/ exe'[f].msgs = <<Query>>
    BY <1>2, <1>3
  <2> QED BY <1>1, <2>1, <2>2, <2>3, SettledQuery, SoundQuery DEF Transcripts
<1>12. Carries' /\ Remembered'
  <2>1. Batches(checkpoint.msgs) = {}
    BY <1>5, NoBatches
  <2>2. Carries'
    BY <1>1, <2>1 DEF Carries
  <2>3. Remembered'
    BY <1>1, <1>5 DEF Remembered
  <2> QED BY <2>2, <2>3
<1> QED BY <1>4, <1>6, <1>7, <1>8, <1>9, <1>10, <1>11, <1>12

\* A resume begins with the transcript of the checkpoint, alone or not.
LEMMA ResumeKeeps ==
  ASSUME AgentAssumption, IInv, NEW e \in Executions, NEW p \in Processes, Resume(e, p)
  PROVE  IInv'
<1> USE DEF IInv, Control, Memory
<1> DEFINE x == [Off EXCEPT !.pc = "register", !.proc = p, !.round = checkpoint.round + 1,
                            !.msgs = checkpoint.msgs]
<1>1. /\ e > 1 /\ At(e, "off") /\ ~At(e - 1, "off") /\ exe \in [Executions -> Exec]
      /\ exe' = [exe EXCEPT ![e] = x]
      /\ solo' = (solo /\ \A f \in Executions : ~Live(f))
      /\ UNCHANGED <<checkpoint, registry, row, request, batches, cancels, faults, ran, lost, stale>>
  BY ExecSet DEF Resume
<1>2. /\ x \in Exec /\ x.pc = "register" /\ x.proc = p /\ ~x.gated /\ x.round >= 1
      /\ x.msgs = checkpoint.msgs /\ ~x.stop /\ ~x.asked /\ ~x.deaf
  <2>1. /\ Off \in Exec /\ ~Off.gated /\ ~Off.stop /\ ~Off.asked /\ ~Off.deaf
    BY OffType DEF Off
  <2>2. checkpoint.msgs \in Seq(Messages) /\ checkpoint.round \in 0..MaxRounds
    BY ExecSet
  <2>3. checkpoint.round + 1 \in 0..(MaxRounds + 1) /\ checkpoint.round + 1 >= 1
    BY <2>2 DEF AgentAssumption
  <2> QED BY <2>1, <2>2, <2>3 DEF Exec, Steps
<1> HIDE DEF x
<1>3. exe'[e] = x /\ exe' \in [Executions -> Exec] /\ \A f \in Executions : f # e => exe'[f] = exe[f]
  BY <1>1, <1>2
<1>4. TypeOK'
  <2>1. solo' \in BOOLEAN
    BY <1>1 DEF TypeOK
  <2> QED BY <1>1, <1>3, <2>1, ExecSet DEF TypeOK, Exec
<1>5. /\ ~Loops(e)' /\ ~Loops(e) /\ Starting(e)' /\ ~Starting(e)
      /\ \A f \in Executions : f # e =>
           /\ Loops(f)' <=> Loops(f)
           /\ Starting(f)' <=> Starting(f)
           /\ Holds(f)' <=> Holds(f)
           /\ Live(f)' <=> Live(f)
      /\ \A f \in Executions : At(f, "tools")' <=> At(f, "tools")
      /\ solo' => solo /\ \A f \in Executions : ~Live(f)
  BY <1>1, <1>2, <1>3 DEF Loops, Starting, Holds, Live, At
<1>6. Rounds'
  BY <1>2, <1>3, <1>5 DEF Rounds
<1>7. Roles'
  BY <1>2, <1>3, <1>5 DEF Roles, Holds, Loops, Starting, Live, At
<1>8. Order' /\ Alone'
  <2>1. e - 1 \in Executions /\ \A f \in Executions : f < e => f < e - 1 \/ f = e - 1
    BY <1>1 DEF Executions, AgentAssumption
  <2>2. \A f \in Executions : f < e => ~At(f, "off")
    BY <1>1, <2>1 DEF Order
  <2>3. ~At(e, "off")' /\ \A f \in Executions : f # e => (At(f, "off")' <=> At(f, "off"))
    BY <1>2, <1>3 DEF At
  <2>4. \A f \in Executions : f = 1 => f # e
    BY <1>1
  <2>5. Order'
    BY <1>1, <2>2, <2>3, <2>4 DEF Order
  <2>6. Alone'
    BY <1>5 DEF Alone
  <2> QED BY <2>5, <2>6
<1>9. Listens' /\ CancelIsDelivered'
  <2>1. \A f \in Executions : solo' /\ f # e => ~Loops(f)' /\ ~Starting(f)'
    BY <1>5 DEF Loops, Live, Starting
  <2> QED BY <1>2, <1>3, <1>5, <2>1 DEF Listens, CancelIsDelivered
<1>10. Cleared'
  <2>1. \A f \in Executions : /\ Unregisters(f) => f # e /\ Unregisters(f)'
                              /\ Drops(f) => f # e /\ Drops(f)'
    BY <1>1, <1>3, <1>5 DEF Unregisters, Drops, At
  <2>2. \A f \in Executions : f # e => exe'[f].proc = exe[f].proc
    BY <1>3
  <2> QED BY <1>1, <2>1, <2>2 DEF Cleared
<1>11. Transcripts'
  <2>1. \A f \in Executions : At(f, "tools")' => At(f, "tools") /\ exe'[f].msgs = exe[f].msgs
    BY <1>1, <1>3, <1>5 DEF At
  <2>2. Pending' \subseteq Pending /\ batches \in Nat
    BY <2>1, PendingKept DEF TypeOK
  <2>3. \A m : Sound(m, batches, ran, Pending) => Sound(m, batches, ran, Pending')
    BY <2>2, SoundStays
  <2>4. \A f \in Executions : exe'[f].msgs = IF f = e THEN checkpoint.msgs ELSE exe[f].msgs
    BY <1>2, <1>3
  <2>5. ~At(e, "tools")'
    BY <1>2, <1>3 DEF At
  <2> QED BY <1>1, <1>5, <2>3, <2>4, <2>5 DEF Transcripts
<1>12. Carries' /\ Remembered'
  <2>1. Carries'
    BY <1>1, <1>2, <1>3, <1>5 DEF Carries, Holds, Live, Loops, Starting
  <2>2. Remembered'
    BY <1>1, <1>3, <1>5 DEF Remembered
  <2> QED BY <2>1, <2>2
<1> QED BY <1>4, <1>6, <1>7, <1>8, <1>9, <1>10, <1>11, <1>12

-----------------------------------------------------------------------------
\* The transcripts and the steps of iter_react.

\* What is asked is known, and what is pending was asked.
LEMMA PendingKnown ==
  ASSUME TypeOK, Transcripts
  PROVE  /\ Pending \subseteq 1..batches
         /\ \A e \in Executions : At(e, "tools") =>
              /\ Asked(e) = exe[e].msgs[Len(exe[e].msgs)] /\ Asked(e) \in Calling
              /\ Asked(e).batch \in Pending /\ Asked(e).batch \in 1..batches
              /\ Asked(e).batch \in Batches(exe[e].msgs)
              /\ Calls(e) = {<<Asked(e).batch, i>> : i \in 1..Asked(e).calls}
<1>1. ASSUME NEW e \in Executions, At(e, "tools")
      PROVE  /\ Asked(e) = exe[e].msgs[Len(exe[e].msgs)] /\ Asked(e) \in Calling
             /\ Asked(e).batch \in Pending /\ Asked(e).batch \in 1..batches
             /\ Asked(e).batch \in Batches(exe[e].msgs)
             /\ Calls(e) = {<<Asked(e).batch, i>> : i \in 1..Asked(e).calls}
  <2>1. Asking(exe[e].msgs)
    BY <1>1 DEF Transcripts
  <2>2. /\ Asked(e) \in Calling /\ Asked(e) = exe[e].msgs[Len(exe[e].msgs)]
        /\ Asked(e).batch \in Batches(exe[e].msgs)
        /\ Calls(e) = {<<Asked(e).batch, i>> : i \in 1..Asked(e).calls}
    BY <2>1, AskedCalls DEF Asking
  <2>3. Asked(e).batch \in Pending
    BY <1>1, PendingMember
  <2>4. Batches(exe[e].msgs) \subseteq 1..batches
    BY DEF Transcripts, Sound
  <2> QED BY <2>2, <2>3, <2>4
<1>2. Pending \subseteq 1..batches
  BY <1>1, PendingMember
<1> QED BY <1>1, <1>2

\* A step that is not the start of a batch, and that ends with a settled and
\* sound transcript in the execution or in the checkpoint.
LEMMA LoopTranscripts ==
  ASSUME AgentAssumption, TypeOK, Transcripts, NEW e \in Executions, NEW w, Loop(e, w),
         UNCHANGED ran, batches' \in Nat, batches <= batches', exe'[e].pc # "tools",
         Settled(w), Sound(w, batches', ran, Pending)
  PROVE  Transcripts'
<1>1. batches \in Nat /\ \A f \in Executions : f # e => exe'[f] = exe[f]
  BY DEF Loop, TypeOK
<1>2. \A f \in Executions : At(f, "tools")' => f # e /\ At(f, "tools") /\ exe'[f].msgs = exe[f].msgs
  BY <1>1 DEF At
<1>3. Pending' \subseteq Pending
  BY <1>2, PendingKept
<1>4. /\ \A m : Sound(m, batches, ran, Pending) => Sound(m, batches', ran', Pending')
      /\ Sound(w, batches', ran', Pending')
  <2>1. ASSUME NEW m, Sound(m, batches, ran, Pending) PROVE Sound(m, batches', ran', Pending')
    BY <1>1, <1>3, <2>1, SoundStays
  <2>2. Sound(w, batches', ran', Pending')
    BY <1>3, SoundStays
  <2> QED BY <2>1, <2>2
<1>5. exe'[e].msgs = w \/ exe'[e].msgs = <<>>
  BY LeaveType DEF Loop, Keeps, Leaves
<1>6. checkpoint'.msgs = checkpoint.msgs \/ checkpoint'.msgs = w
  BY DEF Loop, Stores
<1>7. Sound(<<>>, batches', ran', Pending') /\ Settled(<<>>)
  BY SoundQuery, SettledQuery
<1>8. /\ Sound(checkpoint'.msgs, batches', ran', Pending') /\ Settled(checkpoint'.msgs)
  BY <1>4, <1>6 DEF Transcripts
<1>9. ASSUME NEW f \in Executions
      PROVE  /\ Sound(exe'[f].msgs, batches', ran', Pending')
             /\ IF At(f, "tools")' THEN Asking(exe'[f].msgs) ELSE Settled(exe'[f].msgs)
  <2>1. CASE f = e
    BY <1>2, <1>4, <1>5, <1>7, <2>1
  <2>2. CASE f # e
    BY <1>1, <1>4, <2>2 DEF Transcripts, At
  <2> QED BY <2>1, <2>2
<1>10. \A c \in ran' : c[1] \in 1..batches'
  <2>1. 1..batches \subseteq 1..batches'
    BY <1>1
  <2> QED BY <2>1 DEF Transcripts
<1> QED BY <1>8, <1>9, <1>10 DEF Transcripts

\* The invariant for these steps, from what they do to the transcript.
LEMMA LoopKeeps ==
  ASSUME AgentAssumption, IInv, TypeOK', NEW e \in Executions, NEW w, Loop(e, w),
         UNCHANGED ran, batches' \in Nat, batches <= batches', exe'[e].pc # "tools",
         Settled(w), Sound(w, batches', ran, Pending)
  PROVE  IInv'
<1> USE DEF IInv
<1>1. Rounds'
  BY LoopRounds DEF Control
<1>2. Control'
  BY LoopControl
<1>3. Memory'
  BY LoopMemory
<1>4. Transcripts'
  BY LoopTranscripts
<1> QED BY <1>1, <1>2, <1>3, <1>4

LEMMA RoundKeeps ==
  ASSUME AgentAssumption, IInv, NEW e \in Executions, Round(e)
  PROVE  IInv'
<1> USE DEF IInv
<1>1. /\ TypeOK' /\ UNCHANGED <<batches, ran>> /\ ~At(e, "tools") /\ exe'[e].pc # "tools"
  BY RoundLoops
<1>2. PICK w : Loop(e, w) /\ (w = exe[e].msgs \/ w \in Shrunk(exe[e].msgs))
  BY RoundLoops
<1> DEFINE m == exe[e].msgs
<1>3. m \in Seq(Messages) /\ Settled(m) /\ Sound(m, batches, ran, Pending)
      /\ batches' \in Nat /\ batches <= batches'
  BY <1>1, <1>2, LoopHolds DEF Loop, Transcripts, TypeOK
<1>4. Settled(w) /\ Sound(w, batches, ran, Pending)
  <2>1. CASE w = m
    BY <1>3, <2>1
  <2>2. CASE w # m
    <3>1. PICK i \in DOMAIN m : m[i].kind \in {"query", "call"} /\ w = Cut(m, i)
      BY <1>2, <2>2, ShrunkCuts
    <3> HIDE DEF m
    <3>2. Settled(w)
      BY <1>3, <3>1, CutSettled
    <3>3. Batches(w) = Batches(m)
      BY <1>3, <3>1, CutShape
    <3>4. \A x \in DOMAIN w : w[x].kind = "result" => \E y \in DOMAIN m : w[x] = m[y]
      BY <1>3, <3>1, CutResults
    <3>5. Sound(w, batches, ran, Pending)
      BY <1>3, <3>3, <3>4 DEF Sound
    <3> QED BY <3>2, <3>5
  <2> QED BY <2>1, <2>2
<1> QED BY <1>1, <1>2, <1>3, <1>4, LoopKeeps

LEMMA SettlesKeeps ==
  ASSUME AgentAssumption, IInv, NEW e \in Executions, Settles(e)
  PROVE  IInv'
<1>1. /\ TypeOK' /\ UNCHANGED <<batches, ran>> /\ ~At(e, "tools") /\ exe'[e].pc # "tools"
      /\ Loop(e, exe[e].msgs)
  BY DEF Settles
<1>2. /\ Settled(exe[e].msgs) /\ Sound(exe[e].msgs, batches', ran, Pending)
      /\ batches' \in Nat /\ batches <= batches'
  BY <1>1 DEF IInv, Transcripts, TypeOK
<1> QED BY <1>1, <1>2, LoopKeeps

\* An execution that is left has nothing in memory that matters: the step is
\* one that stores nothing.
LEMMA DisconnectKeeps ==
  ASSUME AgentAssumption, IInv, NEW e \in Executions, Disconnect(e)
  PROVE  IInv'
<1> USE DEF IInv
<1>1. /\ TypeOK' /\ UNCHANGED <<batches, ran, checkpoint>> /\ exe'[e] = Leave(e)
      /\ Loop(e, exe[e].msgs)
  BY DisconnectLoops
<1>2. Rounds' /\ Control' /\ Memory'
  BY <1>1, LoopRounds, LoopControl, LoopMemory DEF Control
<1>3. /\ batches \in Nat /\ \A f \in Executions : f # e => exe'[f] = exe[f]
      /\ exe'[e].pc \in {"ended", "unregister"} /\ exe'[e].msgs = <<>>
  BY <1>1, LeaveType DEF Loop, TypeOK
<1>4. \A f \in Executions : At(f, "tools")' => At(f, "tools") /\ exe'[f].msgs = exe[f].msgs
  BY <1>3 DEF At
<1>5. Pending' \subseteq Pending
  BY <1>4, PendingKept
<1>6. \A m : Sound(m, batches, ran, Pending) => Sound(m, batches, ran, Pending')
  BY <1>3, <1>5, SoundStays
<1>7. Sound(<<>>, batches, ran, Pending') /\ Settled(<<>>)
  BY SoundQuery, SettledQuery
<1>8. \A f \in Executions : /\ Sound(exe'[f].msgs, batches, ran, Pending')
                            /\ IF At(f, "tools")' THEN Asking(exe'[f].msgs) ELSE Settled(exe'[f].msgs)
  <2> SUFFICES ASSUME NEW f \in Executions
               PROVE  /\ Sound(exe'[f].msgs, batches, ran, Pending')
                      /\ IF At(f, "tools")' THEN Asking(exe'[f].msgs) ELSE Settled(exe'[f].msgs)
    OBVIOUS
  <2>1. CASE f = e
    BY <1>3, <1>7, <2>1 DEF At
  <2>2. CASE f # e
    BY <1>3, <1>6, <2>2 DEF Transcripts, At
  <2> QED BY <2>1, <2>2
<1>9. Transcripts'
  BY <1>1, <1>6, <1>8 DEF Transcripts
<1> QED BY <1>1, <1>2, <1>9

\* The results of a batch say of each call that it ran, or that it was left.
LEMMA ToolsAnswerKeeps ==
  ASSUME AgentAssumption, IInv, NEW e \in Executions, ToolsAnswer(e)
  PROVE  IInv'
<1> USE DEF IInv
<1>1. /\ TypeOK' /\ UNCHANGED <<batches, ran, checkpoint>> /\ At(e, "tools") /\ exe'[e].pc # "tools"
      /\ Calls(e) \subseteq ran
  BY ToolsAnswerLoops
<1>2. PICK how \in [1..Asked(e).calls -> {"ran", "cancelled"}] :
        Loop(e, exe[e].msgs \o Results(Asked(e).batch, how))
  BY ToolsAnswerLoops
<1> DEFINE m == exe[e].msgs
           q == Asked(e)
           w == m \o Results(q.batch, how)
<1>3. /\ q = m[Len(m)] /\ q \in Calling /\ q.batch \in 1..batches
      /\ \A k \in 1..q.calls : <<q.batch, k>> \in ran
  BY <1>1, PendingKnown
<1>4. m \in Seq(Messages) /\ Asking(m) /\ Sound(m, batches, ran, Pending)
      /\ batches' \in Nat /\ batches <= batches'
  BY <1>1, <1>2, LoopHolds DEF Loop, Transcripts, TypeOK
<1>5. how \in [1..m[Len(m)].calls -> Outcomes]
  BY <1>2, <1>3 DEF Outcomes
<1> HIDE DEF m, q
<1>6. /\ Settled(w) /\ Batches(w) = Batches(m)
      /\ \A i \in DOMAIN w : w[i].kind = "result" =>
           \/ i \in DOMAIN m /\ w[i] = m[i]
           \/ \E k \in 1..q.calls : w[i] = Result(q.batch, k, how[k])
  BY <1>3, <1>4, <1>5, AnswerSettles
<1> HIDE DEF w
<1>7. Sound(w, batches, ran, Pending)
  <2> SUFFICES ASSUME NEW i \in DOMAIN w, w[i].kind = "result"
               PROVE  /\ w[i].batch \in 1..batches
                      /\ w[i].how = "interrupted" => <<w[i].batch, w[i].call>> \notin ran
                      /\ w[i].how = "interrupted" => w[i].batch \notin Pending
                      /\ w[i].how = "ran" => <<w[i].batch, w[i].call>> \in ran
    BY <1>4, <1>6 DEF Sound
  <2>1. CASE i \in DOMAIN m /\ w[i] = m[i]
    BY <1>4, <2>1 DEF Sound
  <2>2. ASSUME NEW k \in 1..q.calls, w[i] = Result(q.batch, k, how[k])
        PROVE  /\ w[i].batch \in 1..batches
               /\ w[i].how = "interrupted" => <<w[i].batch, w[i].call>> \notin ran
               /\ w[i].how = "interrupted" => w[i].batch \notin Pending
               /\ w[i].how = "ran" => <<w[i].batch, w[i].call>> \in ran
    <3>1. how[k] \in {"ran", "cancelled"}
      BY <1>2 DEF q
    <3>2. w[i].batch = q.batch /\ w[i].call = k /\ w[i].how = how[k]
      BY <2>2 DEF Result
    <3> QED BY <1>3, <3>1, <3>2
  <2> QED BY <1>6, <2>1, <2>2
<1> QED BY <1>1, <1>2, <1>4, <1>6, <1>7, LoopKeeps DEF w, m, q

\* A new batch is in no transcript yet.
LEMMA SoundNew ==
  ASSUME NEW m, NEW n \in Nat, NEW R, NEW P, Sound(m, n, R, P)
  PROVE  Sound(m, n + 1, R, P \union {n + 1})
<1>1. 1..n \subseteq 1..(n + 1) /\ n + 1 \notin 1..n
  OBVIOUS
<1> QED BY <1>1 DEF Sound

\* Running a pending call makes no transcript untrue.
LEMMA SoundRun ==
  ASSUME NEW m, NEW n, NEW R, NEW P, Sound(m, n, R, P), NEW b \in P, NEW i
  PROVE  Sound(m, n, R \union {<<b, i>>}, P)
<1>1. \A c, k : <<c, k>> = <<b, i>> => c \in P
  OBVIOUS
<1> QED BY <1>1 DEF Sound

\* An answer with tool calls, cancelled or on its way to the tools.
LEMMA ModelAsksKeeps ==
  ASSUME AgentAssumption, IInv, NEW e \in Executions, ModelAsks(e)
  PROVE  IInv'
<1> USE DEF IInv
<1> DEFINE m == exe[e].msgs
           b == batches + 1
<1>1. TypeOK' /\ batches' = b /\ UNCHANGED ran /\ ~At(e, "tools")
  BY ModelAsksLoops
<1>2. PICK n \in 1..MaxCalls :
        LET a == Append(m, Ask(b, n))
        IN  \/ /\ Loop(e, a) /\ exe'[e].pc = "tools" /\ exe'[e].msgs = a /\ checkpoint' = checkpoint
            \/ /\ Loop(e, a \o Results(b, [i \in 1..n |-> "interrupted"]))
               /\ exe'[e].pc # "tools"
  BY ModelAsksLoops
<1> DEFINE a == Append(m, Ask(b, n))
           how == [i \in 1..n |-> "interrupted"]
           t == a \o Results(b, how)
<1>3. /\ batches \in Nat /\ b \in Nat /\ batches <= b /\ m \in Seq(Messages)
      /\ Settled(m) /\ Sound(m, batches, ran, Pending)
      /\ b \notin 1..batches /\ b \in 1..b /\ 1..batches \subseteq 1..b
  <2>1. batches \in Nat /\ m \in Seq(Messages)
    BY ExecSet DEF Exec
  <2> QED BY <1>1, <2>1 DEF Transcripts
<1>4. /\ b \notin Pending /\ \A k : <<b, k>> \notin ran
  BY <1>3, PendingKnown DEF Transcripts
<1> HIDE DEF b
<1>5. /\ a \in Seq(Messages) /\ a # <<>> /\ a[Len(a)] = Ask(b, n)
      /\ SubSeq(a, 1, Len(a) - 1) = m
      /\ Batches(a) = Batches(m) \union {b}
      /\ \A i \in DOMAIN a : a[i].kind = "result" => i \in DOMAIN m /\ a[i] = m[i]
  BY <1>3, AskShape
<1>6. a[Len(a)].kind = "call" /\ a[Len(a)].batch = b /\ a[Len(a)].calls = n
  BY <1>5 DEF Ask
<1> HIDE DEF m, a
<1>7. Asking(a)
  BY <1>3, <1>5, <1>6 DEF Asking
<1>8. Sound(a, b, ran, Pending)
  <2>1. Batches(a) \subseteq 1..b
    BY <1>3, <1>5 DEF Sound
  <2> QED BY <1>3, <1>5, <2>1 DEF Sound
<1>9. CASE Loop(e, t) /\ exe'[e].pc # "tools"
  <2>1. how \in [1..a[Len(a)].calls -> Outcomes]
    BY <1>6 DEF Outcomes
  <2>2. \A k \in 1..n : how[k] = "interrupted"
    OBVIOUS
  <2> HIDE DEF how
  <2>3. /\ Settled(t) /\ Batches(t) = Batches(a)
        /\ \A i \in DOMAIN t : t[i].kind = "result" =>
             \/ i \in DOMAIN a /\ t[i] = a[i]
             \/ \E k \in 1..n : t[i] = Result(b, k, how[k])
    BY <1>5, <1>6, <1>7, <2>1, AnswerSettles
  <2> HIDE DEF t
  <2>4. Sound(t, b, ran, Pending)
    <3> SUFFICES ASSUME NEW i \in DOMAIN t, t[i].kind = "result"
                 PROVE  /\ t[i].batch \in 1..b
                        /\ t[i].how = "interrupted" => <<t[i].batch, t[i].call>> \notin ran
                        /\ t[i].how = "interrupted" => t[i].batch \notin Pending
                        /\ t[i].how = "ran" => <<t[i].batch, t[i].call>> \in ran
      BY <1>8, <2>3 DEF Sound
    <3>1. CASE i \in DOMAIN a /\ t[i] = a[i]
      BY <1>8, <3>1 DEF Sound
    <3>2. ASSUME NEW k \in 1..n, t[i] = Result(b, k, how[k])
          PROVE  t[i].batch = b /\ t[i].how = "interrupted"
      BY <2>2, <3>2 DEF Result
    <3> QED BY <1>3, <1>4, <2>3, <3>1, <3>2
  <2> QED BY <1>1, <1>3, <1>9, <2>3, <2>4, LoopKeeps
<1>10. CASE /\ Loop(e, a) /\ exe'[e].pc = "tools" /\ exe'[e].msgs = a /\ checkpoint' = checkpoint
  <2>1. Rounds' /\ Control' /\ Memory'
    BY <1>1, <1>10, LoopRounds, LoopControl, LoopMemory DEF Control
  <2>2. \A f \in Executions : f # e => exe'[f] = exe[f]
    BY <1>10 DEF Loop
  <2>3. Pending' \subseteq Pending \union {b}
    <3> SUFFICES ASSUME NEW f \in Executions, At(f, "tools")'
                 PROVE  (Asked(f).batch)' \in Pending \union {b}
      BY DEF Pending
    <3>1. CASE f = e
      BY <1>6, <1>10, <3>1 DEF Asked
    <3>2. CASE f # e
      <4>1. At(f, "tools") /\ Asked(f)' = Asked(f)
        BY <2>2, <3>2 DEF At, Asked
      <4> QED BY <4>1, PendingMember
    <3> QED BY <3>1, <3>2
  <2>4. \A x : Sound(x, batches, ran, Pending) => Sound(x, b, ran, Pending')
    <3> SUFFICES ASSUME NEW x, Sound(x, batches, ran, Pending) PROVE Sound(x, b, ran, Pending')
      OBVIOUS
    <3>1. Sound(x, b, ran, Pending \union {b})
      BY <1>3, SoundNew DEF b
    <3> QED BY <1>3, <2>3, <3>1, SoundStays
  <2>5. Sound(a, b, ran, Pending')
    <3>1. Sound(m, b, ran, Pending')
      BY <1>3, <2>4
    <3> QED BY <1>5, <1>8, <3>1 DEF Sound
  <2>6. \A f \in Executions : /\ Sound(exe'[f].msgs, b, ran, Pending')
                              /\ IF At(f, "tools")' THEN Asking(exe'[f].msgs) ELSE Settled(exe'[f].msgs)
    <3> SUFFICES ASSUME NEW f \in Executions
                 PROVE  /\ Sound(exe'[f].msgs, b, ran, Pending')
                        /\ IF At(f, "tools")' THEN Asking(exe'[f].msgs) ELSE Settled(exe'[f].msgs)
      OBVIOUS
    <3>1. CASE f = e
      BY <1>7, <1>10, <2>5, <3>1 DEF At
    <3>2. CASE f # e
      BY <2>2, <2>4, <3>2 DEF Transcripts, At
    <3> QED BY <3>1, <3>2
  <2>7. Transcripts'
    BY <1>1, <1>3, <1>10, <2>4, <2>6 DEF Transcripts
  <2> QED BY <1>1, <2>1, <2>7
<1> QED BY <1>2, <1>9, <1>10 DEF a

\* A tool is executed: its batch is pending, so no transcript denies the call.
LEMMA RunToolKeeps ==
  ASSUME AgentAssumption, IInv, NEW e \in Executions, RunTool(e)
  PROVE  IInv'
<1> USE DEF IInv
<1>1. /\ TypeOK' /\ At(e, "tools") /\ UNCHANGED <<exe, checkpoint, batches, lost>> /\ Frame
  BY RunToolLoops
<1>2. PICK c \in Calls(e) : ran' = ran \union {c}
  BY RunToolLoops
<1>3. PICK i \in 1..Asked(e).calls : c = <<Asked(e).batch, i>>
  BY <1>1, <1>2, PendingKnown
<1>4. Asked(e).batch \in Pending /\ c[1] \in 1..batches /\ c[1] \in Batches(exe[e].msgs)
  BY <1>1, <1>3, PendingKnown
<1>5. Rounds'
  BY <1>1 DEF Rounds, Holds, Starting, Loops
<1>6. Control'
  BY <1>1 DEF Control, Frame, Roles, Order, Alone, Listens, CancelIsDelivered, CancelReaches, Cleared,
              Unregisters, Drops, Holds, Starting, Loops, Live, At
<1>7. Transcripts'
  <2>1. Pending' = Pending
    BY <1>1 DEF Pending, Asked, At
  <2>2. \A m : Sound(m, batches, ran, Pending) => Sound(m, batches, ran', Pending)
    BY <1>2, <1>3, <1>4, SoundRun
  <2>3. \A d \in ran' : d[1] \in 1..batches
    BY <1>2, <1>4 DEF Transcripts
  <2>4. \A f \in Executions : exe'[f] = exe[f] /\ (At(f, "tools")' <=> At(f, "tools"))
    BY <1>1 DEF At
  <2> QED BY <1>1, <2>1, <2>2, <2>3, <2>4 DEF Transcripts
<1>8. Memory'
  <2>1. Carries'
    BY <1>1 DEF Memory, Carries, Frame, Holds, Starting, Loops
  <2>2. Remembered'
    <3>1. Loops(e)
      BY <1>1 DEF Loops, At
    <3>2. \A f \in Executions : Loops(f)' <=> Loops(f)
      BY <1>1 DEF Loops
    <3> QED BY <1>1, <1>2, <1>4, <3>1, <3>2 DEF Memory, Remembered, Frame
  <2> QED BY <2>1, <2>2 DEF Memory
<1> QED BY <1>1, <1>5, <1>6, <1>7, <1>8

-----------------------------------------------------------------------------
\* A process dies: its executions are gone, with what they had in memory.
LEMMA CrashKeeps ==
  ASSUME AgentAssumption, IInv, NEW p \in Processes, Crash(p)
  PROVE  IInv'
<1> USE DEF IInv, Control, Memory
<1> DEFINE here == {e \in Executions : Live(e) /\ exe[e].proc = p}
           Dead(e) == [Off EXCEPT !.pc = "ended", !.gated = exe[e].gated]
<1>1. /\ Fault /\ lost' = lost \union Unsaved(here)
      /\ exe' = [e \in Executions |-> IF exe[e].proc = p THEN Dead(e) ELSE exe[e]]
      /\ registry' = [registry EXCEPT ![p] = NoExecution]
      /\ request' = (IF request = p THEN NoProcess ELSE request)
      /\ stale' = TRUE
      /\ UNCHANGED <<checkpoint, row, batches, cancels, ran, solo>>
      /\ exe \in [Executions -> Exec]
  BY ExecSet DEF Crash
<1>2. ASSUME NEW e \in Executions
      PROVE  /\ Dead(e) \in Exec /\ Dead(e).pc = "ended" /\ Dead(e).msgs = <<>>
             /\ Dead(e).gated = exe[e].gated /\ ~Dead(e).asked
  <2>1. Off \in Exec /\ ~Off.asked /\ Off.msgs = <<>> /\ exe[e].gated \in BOOLEAN
    BY <1>1, OffType DEF Off, Exec
  <2> QED BY <2>1 DEF Exec, Steps
<1>3. \A f \in here : f \in Executions /\ Live(f) /\ exe[f].proc = p
  OBVIOUS
<1>4. \A f \in Executions : Live(f) /\ exe[f].proc = p => f \in here
  OBVIOUS
<1> HIDE DEF here, Dead
<1>5. /\ exe' \in [Executions -> Exec]
      /\ \A f \in Executions : exe[f].proc = p => exe'[f] = Dead(f)
      /\ \A f \in Executions : exe[f].proc # p => exe'[f] = exe[f]
  BY <1>1, <1>2
<1>6. \A b : b \in Unsaved(here) <=> /\ \E f \in here : Loops(f) /\ b \in Batches(exe[f].msgs)
                                     /\ b \notin Batches(checkpoint.msgs)
  BY UnsavedMember
<1>7. TypeOK'
  <2>1. lost' \subseteq Nat
    <3>1. \A f \in here : Batches(exe[f].msgs) \subseteq Nat
      BY <1>1, <1>3, BatchesNat DEF Exec
    <3>2. Unsaved(here) \subseteq Nat /\ lost \subseteq Nat
      BY <1>6, <3>1 DEF TypeOK
    <3> QED BY <1>1, <3>2
  <2>2. /\ registry' \in [Processes -> Executions \union {NoExecution}]
        /\ request' \in Processes \union {NoProcess} /\ faults' \in Nat /\ stale' \in BOOLEAN
    BY <1>1 DEF TypeOK, Fault
  <2> QED BY <1>1, <1>5, <2>1, <2>2 DEF TypeOK, Exec
<1>8. ASSUME NEW f \in Executions
      PROVE  /\ Live(f)' => exe'[f] = exe[f] /\ Live(f)
             /\ Holds(f)' => exe'[f] = exe[f] /\ Holds(f)
             /\ Loops(f)' => exe'[f] = exe[f] /\ Loops(f)
             /\ Starting(f)' => exe'[f] = exe[f] /\ Starting(f)
             /\ At(f, "tools")' => exe'[f] = exe[f] /\ At(f, "tools")
             /\ At(f, "off")' <=> At(f, "off")
             /\ At(f, "off")' => exe'[f] = exe[f]
             /\ exe'[f] = exe[f] \/ (exe'[f] = Dead(f) /\ exe[f].proc = p)
  <2>1. CASE exe[f].proc = p
    <3>1. ~At(f, "off") /\ exe'[f] = Dead(f)
      BY <1>5, <2>1 DEF Roles, AgentAssumption
    <3> QED BY <1>2, <2>1, <3>1 DEF Live, Holds, Loops, Starting, At
  <2>2. CASE exe[f].proc # p
    BY <1>5, <2>2 DEF Live, Holds, Loops, Starting, At
  <2> QED BY <2>1, <2>2
<1>9. Rounds'
  <2>1. \A f \in Executions : exe'[f].pc \in {"model", "tools", "save"} => Holds(f)'
    BY DEF Holds, Loops
  <2> QED BY <1>8, <2>1 DEF Rounds
<1>10. Roles'
  <2> SUFFICES ASSUME NEW f \in Executions
               PROVE  /\ exe'[f].gated => exe'[f].pc \notin {"register", "persist", "unregister", "drop"}
                      /\ exe'[f].asked => Loops(f)' /\ ~exe'[f].gated
                      /\ Live(f)' => exe'[f].proc \in Processes
                      /\ At(f, "off")' => exe'[f].proc = NoProcess
                      /\ ~Holds(f)' => exe'[f].msgs = <<>>
    BY DEF Roles
  <2>1. CASE exe'[f] = exe[f]
    BY <2>1 DEF Roles, Holds, Loops, Starting, Live, At
  <2>2. CASE exe'[f] = Dead(f)
    BY <1>2, <2>2 DEF Live, At
  <2> QED BY <1>8, <2>1, <2>2
<1>11. Order' /\ Alone'
  BY <1>1, <1>8 DEF Order, Alone
<1>12. Listens' /\ CancelIsDelivered'
  <2>1. Listens'
    BY <1>1, <1>8 DEF Listens
  <2>2. CancelIsDelivered'
    BY <1>1, <1>8 DEF CancelIsDelivered, CancelReaches
  <2> QED BY <2>1, <2>2
<1>13. Cleared'
  <2> SUFFICES ASSUME NEW q \in Processes, registry'[q] # NoExecution
               PROVE  \E e \in Executions : exe'[e].proc = q /\ Unregisters(e)'
    BY <1>1 DEF Cleared
  <2>1. q # p /\ registry[q] # NoExecution
    BY <1>1 DEF TypeOK
  <2>2. PICK e \in Executions : exe[e].proc = q /\ Unregisters(e)
    BY <2>1 DEF Cleared
  <2>3. exe'[e] = exe[e]
    BY <1>5, <2>1, <2>2
  <2> QED BY <2>2, <2>3 DEF Unregisters, At, Loops
<1>14. Transcripts'
  <2>1. Pending' \subseteq Pending /\ batches \in Nat
    <3>1. \A f \in Executions : At(f, "tools")' => At(f, "tools") /\ exe'[f].msgs = exe[f].msgs
      BY <1>8
    <3> QED BY <3>1, PendingKept DEF TypeOK
  <2>2. \A m : Sound(m, batches, ran, Pending) => Sound(m, batches, ran, Pending')
    BY <2>1, SoundStays
  <2>3. Sound(<<>>, batches, ran, Pending') /\ Settled(<<>>)
    BY SoundQuery, SettledQuery
  <2>4. ASSUME NEW f \in Executions
        PROVE  /\ Sound(exe'[f].msgs, batches, ran, Pending')
               /\ IF At(f, "tools")' THEN Asking(exe'[f].msgs) ELSE Settled(exe'[f].msgs)
    <3>1. CASE exe'[f] = exe[f]
      BY <2>2, <3>1 DEF Transcripts, At
    <3>2. CASE exe'[f] = Dead(f)
      BY <1>2, <2>3, <3>2 DEF At
    <3> QED BY <1>8, <3>1, <3>2
  <2> QED BY <1>1, <2>2, <2>4 DEF Transcripts
<1>15. Carries' /\ Remembered'
  <2>1. Carries'
    BY <1>1, <1>8 DEF Carries
  <2>2. Remembered'
    <3> SUFFICES ASSUME solo, NEW c \in ran
                 PROVE  \/ c[1] \in Batches(checkpoint.msgs) \union lost'
                        \/ \E f \in Executions : Loops(f)' /\ c[1] \in Batches(exe'[f].msgs)
      BY <1>1 DEF Remembered
    <3>1. CASE c[1] \in Batches(checkpoint.msgs) \union lost
      BY <1>1, <3>1
    <3>2. ASSUME NEW f \in Executions, Loops(f), c[1] \in Batches(exe[f].msgs)
          PROVE  \/ c[1] \in Batches(checkpoint.msgs) \union lost'
                 \/ \E g \in Executions : Loops(g)' /\ c[1] \in Batches(exe'[g].msgs)
      <4>1. CASE exe[f].proc = p
        <5>1. f \in here
          BY <1>4, <3>2, <4>1 DEF Live, Loops
        <5> QED BY <1>1, <1>6, <3>2, <5>1
      <4>2. CASE exe[f].proc # p
        BY <1>5, <3>2, <4>2 DEF Loops
      <4> QED BY <4>1, <4>2
    <3> QED BY <3>1, <3>2 DEF Remembered
  <2> QED BY <2>1, <2>2
<1> QED BY <1>7, <1>9, <1>10, <1>11, <1>12, <1>13, <1>14, <1>15

\* The bookkeeping steps keep the rest as well.
LEMMA QuietKeeps ==
  ASSUME AgentAssumption, IInv, TypeOK' /\ Quiet /\ Control'
  PROVE  IInv'
  BY QuietRounds, QuietTranscripts, QuietMemory DEF IInv

LEMMA InitHolds == AgentAssumption /\ Init => IInv
<1> SUFFICES ASSUME AgentAssumption, Init PROVE IInv
  OBVIOUS
<1> USE DEF IInv, Control, Memory
<1>1. /\ exe \in [Executions -> Exec] /\ \A e \in Executions : exe[e] = Off
      /\ checkpoint.msgs = <<>>
  BY OffType DEF Init, NoCheckpoint
<1>2. TypeOK
  <2>1. checkpoint \in [round : 0..MaxRounds, msgs : Seq(Messages),
                        status : {"none", "running", "completed", "cancelled", "error"}]
    <3>1. 0 \in 0..MaxRounds /\ <<>> \in Seq(Messages)
      BY DEF AgentAssumption
    <3> QED BY <3>1 DEF Init, NoCheckpoint
  <2>2. row \in [exists : BOOLEAN, cancel : BOOLEAN]
    BY DEF Init, NoRow
  <2> QED BY <1>1, <2>1, <2>2 DEF TypeOK, Init, Exec
<1>3. \A e \in Executions : /\ At(e, "off") /\ ~Live(e) /\ ~Loops(e) /\ ~Starting(e) /\ ~Holds(e)
                            /\ ~At(e, "tools") /\ exe[e].msgs = <<>> /\ ~exe[e].gated /\ ~exe[e].asked
                            /\ exe[e].pc = "off" /\ exe[e].proc = NoProcess
  BY <1>1 DEF At, Live, Loops, Starting, Holds, Off
<1>4. Rounds /\ Roles /\ Order /\ Alone /\ Listens /\ CancelIsDelivered
  BY <1>1, <1>3 DEF Rounds, Roles, Order, Alone, Listens, CancelIsDelivered
<1>5. Cleared
  BY DEF Init, Cleared, NoRow
<1>6. Transcripts
  BY <1>1, <1>3, SettledQuery, SoundQuery DEF Init, Transcripts
<1>7. Carries /\ Remembered
  BY <1>3 DEF Init, Carries, Remembered
<1> QED BY <1>2, <1>4, <1>5, <1>6, <1>7

LEMMA NextKeeps ==
  ASSUME AgentAssumption, IInv, [Next]_vars
  PROVE  IInv'
<1>0. TypeOK /\ Rounds /\ Control
  BY DEF IInv
<1>1. ASSUME NEW gated \in BOOLEAN, Start(gated) PROVE IInv'
  BY <1>1, StartKeeps
<1>2. ASSUME NEW p \in Processes, NEW e \in Executions, Resume(e, p) PROVE IInv'
  BY <1>2, ResumeKeeps
<1>3. ASSUME NEW p \in Processes, Cancel(p) PROVE IInv'
  BY <1>0, <1>3, CancelKeeps, QuietKeeps
<1>4. ASSUME NEW p \in Processes, Crash(p) PROVE IInv'
  BY <1>4, CrashKeeps
<1>5. ASSUME NEW e \in Executions, Step(e) PROVE IInv'
  <2>1. CASE Register(e)
    BY <1>0, <2>1, RegisterKeeps, QuietKeeps
  <2>2. CASE Persist(e)
    BY <1>0, <2>2, PersistKeeps, QuietKeeps
  <2>3. CASE Round(e)
    BY <2>3, RoundKeeps
  <2>4. CASE ModelFails(e)
    BY <1>0, <2>4, ModelFailsLoops, SettlesKeeps
  <2>5. CASE ModelEnds(e)
    BY <1>0, <2>5, ModelEndsLoops, SettlesKeeps
  <2>6. CASE ModelAsks(e)
    BY <2>6, ModelAsksKeeps
  <2>7. CASE RunTool(e)
    BY <2>7, RunToolKeeps
  <2>8. CASE ToolsAnswer(e)
    BY <2>8, ToolsAnswerKeeps
  <2>9. CASE EndOfRound(e)
    BY <1>0, <2>9, EndOfRoundLoops, SettlesKeeps
  <2>10. CASE Close(e)
    BY <1>0, <2>10, CloseLoops, SettlesKeeps
  <2>11. CASE Unregister(e)
    BY <1>0, <2>11, UnregisterKeeps, QuietKeeps
  <2>12. CASE DropRow(e)
    BY <1>0, <2>12, DropRowKeeps, QuietKeeps
  <2> QED BY <1>5, <2>1, <2>2, <2>3, <2>4, <2>5, <2>6, <2>7, <2>8, <2>9, <2>10, <2>11, <2>12
          DEF Step
<1>6. ASSUME NEW e \in Executions, Disconnect(e) PROVE IInv'
  BY <1>6, DisconnectKeeps
<1>7. ASSUME NEW e \in Executions, Watch(e) PROVE IInv'
  BY <1>0, <1>7, WatchKeeps, QuietKeeps
<1>8. CASE MarkRow
  BY <1>0, <1>8, MarkRowKeeps, QuietKeeps
<1>9. CASE UNCHANGED vars
  <2>1. UNCHANGED <<exe, checkpoint, registry, row, request, batches, cancels, faults, ran, lost, stale, solo>>
    BY <1>9 DEF vars, history
  <2>2. Quiet
    BY <2>1 DEF Quiet, Moves
  <2>3. TypeOK'
    BY <1>0, <2>1 DEF TypeOK
  <2>4. Control'
    BY <1>0, <2>1 DEF Control, Roles, Order, Alone, Listens, CancelIsDelivered, CancelReaches, Cleared,
                Unregisters, Drops, Holds, Starting, Loops, Live, At
  <2> QED BY <2>2, <2>3, <2>4, QuietKeeps
<1> QED BY <1>1, <1>2, <1>3, <1>4, <1>5, <1>6, <1>7, <1>8, <1>9 DEF Next

-----------------------------------------------------------------------------
\* The inductive invariant holds in every state the run can reach, for any
\* number of processes, executions, rounds, calls, cancels and faults.
THEOREM InvariantHolds == Spec => []IInv
<1> USE AgentAssumption
<1>1. Init => IInv
  BY InitHolds
<1>2. IInv /\ [Next]_vars => IInv'
  BY NextKeeps
<1> QED BY <1>1, <1>2, PTL DEF Spec

\* Types: every transcript, in memory and in the checkpoint, is made of
\* messages, and a round never passes the one after the last.
THEOREM TypeCorrect == Spec => []TypeOK
<1>1. IInv => TypeOK
  BY DEF IInv
<1> QED BY <1>1, InvariantHolds, PTL

\* What the model is sent and what a resume starts from never parts a tool
\* call from its results, through compaction, cancels, crashes and overlaps.
THEOREM NoOrphansHolds == Spec => []NoOrphans
<1>1. ASSUME TypeOK, NEW m \in Seq(Messages), Settled(m) PROVE Paired(m)
  <2>1. ASSUME NEW i \in DOMAIN m, m[i].kind = "result"
        PROVE  \E j \in DOMAIN m :
                 j < i /\ m[j].kind = "call" /\ m[j].batch = m[i].batch /\ i = j + m[i].call
    <3>1. PICK j \in DOMAIN m : Follows(m, j, i)
      BY <1>1, <2>1 DEF Settled
    <3>2. m[i] \in Reporting /\ m[i].call \in Nat /\ m[i].call >= 1
      <4>1. m[i] \in Reporting
        BY <2>1, Kinds
      <4> QED BY <4>1 DEF Reporting
    <3>3. j < i
      BY <3>1, <3>2 DEF Follows
    <3> QED BY <3>1, <3>3 DEF Follows
  <2> QED BY <1>1, <2>1 DEF Settled, Paired
<1>2. IInv => NoOrphans
  <2> SUFFICES ASSUME IInv PROVE NoOrphans
    OBVIOUS
  <2>1. TypeOK /\ Transcripts
    BY DEF IInv
  <2>2. checkpoint.msgs \in Seq(Messages) /\ \A e \in Executions : exe[e].msgs \in Seq(Messages)
    BY <2>1, ExecSet DEF Exec
  <2>3. \A e \in Executions : exe[e].pc \in {"round", "model", "save", "close"} => Settled(exe[e].msgs)
    BY <2>1 DEF Transcripts, At
  <2> QED BY <1>1, <2>1, <2>2, <2>3 DEF NoOrphans, Transcripts
<1> QED BY <1>2, InvariantHolds, PTL

\* The transcript never calls interrupted what was executed, nor executed what
\* was not, even while two executions of the run overlap.
THEOREM ToldTheTruthHolds == Spec => []ToldTheTruth
<1>1. IInv => ToldTheTruth
  <2> SUFFICES ASSUME IInv, NEW c
               PROVE  /\ Says("interrupted", c) => c \notin ran
                      /\ Says("ran", c) => c \in ran
    BY DEF ToldTheTruth
  <2>1. \A m \in {checkpoint.msgs} \union {exe[e].msgs : e \in Executions} :
          Sound(m, batches, ran, Pending)
    BY DEF IInv, Transcripts
  <2> QED BY <2>1 DEF Says, Sound
<1> QED BY <1>1, InvariantHolds, PTL

\* Without an overlap no executed batch is forgotten unless a fault lost it.
THEOREM RememberedHolds == Spec => []Remembered
<1>1. IInv => Remembered
  BY DEF IInv, Memory
<1> QED BY <1>1, InvariantHolds, PTL

\* Without an overlap an answered cancel reaches the execution that ran.
THEOREM CancelIsDeliveredHolds == Spec => []CancelIsDelivered
<1>1. IInv => CancelIsDelivered
  BY DEF IInv, Control
<1> QED BY <1>1, InvariantHolds, PTL

\* Once nothing of the run is alive, its registrations are gone, overlap or not.
THEOREM NothingLeftHolds == Spec => []NothingLeft
<1>1. IInv => NothingLeft
  <2> SUFFICES ASSUME IInv, ~stale, \A e \in Executions : ~Live(e)
               PROVE  ~row.exists /\ \A p \in Processes : registry[p] = NoExecution
    BY DEF NothingLeft
  <2>1. \A e \in Executions : ~Unregisters(e) /\ ~Drops(e)
    BY DEF Unregisters, Drops, Live, Loops, At
  <2> QED BY <2>1 DEF IInv, Control, Cleared
<1> QED BY <1>1, InvariantHolds, PTL
=============================================================================
