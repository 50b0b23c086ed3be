-------------------------- MODULE WorkflowDefsProofs --------------------------
(***************************************************************************)
(* Theorems about WorkflowDefs for every number of threads, requests and   *)
(* events.  ConcurrencyBounded is inductive as it stands.  The other       *)
(* properties need that ids never run out (Room: each request makes at     *)
(* most one row of a table), that an id not in use has no history (Fresh), *)
(* that a job is written for an engine row there was (Written), and that   *)
(* nothing happens before the definition exists (Unborn).  RowsAgree and   *)
(* DeletedIsGone follow from Calm: as long as no managing requests         *)
(* overlapped, the one that is at work holds what the rows say, at each of *)
(* its transactions.                                                       *)
(***************************************************************************)
EXTENDS WorkflowDefs, FiniteSetTheorems, TLAPS

\* Ids: what is in use and what may still be taken fit in the requests so far.
Used(table) == {k \in Ids : table[k] # Unused}
WillInsert == {t \in Threads : thread[t].pc \in {"ask", "write", "admit", "insert"}}
WillSchedule == {t \in Threads : thread[t].pc \in {"lookup", "sync"}}
Fits(U, W, n) == Cardinality(U) + Cardinality(W) <= n
Room == Fits(Used(insts), WillInsert, starts) /\ Fits(Used(jobs), WillSchedule, starts)

\* An instance that was never inserted has no history, and a thread records
\* one that was.
Fresh ==
    /\ \A i \in Ids : insts[i] = Unused => runs[i] = "none"
    /\ \A t \in Threads : At(t, "record") => thread[t].inst \in Used(insts)

\* A request that will schedule the definition has written its engine row.
Written ==
    \A t \in Threads :
        thread[t].pc \in {"lookup", "sync"} /\ thread[t].cron => thread[t].engine # 0

\* Before the definition is created there is nothing to run or to manage.
Unborn ==
    def.state = "none" =>
        /\ Live(jobs) = {} /\ Live(engines) = {}
        /\ \A t \in Threads : thread[t] = Idle

\* The threads that manage: Managing, as a function of the threads.
ManPcs == {"lookup", "sync", "engine", "def", "ask", "write"}
Mans(th) == {t \in Threads : th[t].pc \in ManPcs}

\* What a managing request w has read is what the rows still say.
CurrentSave(w, d, es) ==
    /\ w.cron = d.cron /\ w.enabled = d.enabled /\ w.engine = d.engine
    /\ d.engine # 0 /\ es[d.engine].state = Status(d.enabled)
CurrentDelete(w, d) == ~w.cron /\ (w.pc # "def" => w.engine = d.engine)
Current(w, d, es, js) ==
    /\ w.op = "save" => CurrentSave(w, d, es)
    /\ w.op = "delete" => CurrentDelete(w, d)
    /\ w.pc = "sync" => IF w.found = 0 THEN Live(js) = {} ELSE Live(js) = {w.found}
    /\ w.pc \in {"engine", "def"} => Live(js) = {}
    /\ w.pc \in {"engine", "def"} => w.op = "delete"
    /\ w.pc = "def" => d.engine = 0
    /\ w.pc = "write" => w.enabled = d.enabled /\ w.engine = d.engine

\* The rows of one definition: no job but one, no engine row but its own.
FewRows(d, es, js) ==
    /\ \A j, k \in Live(js) : j = k
    /\ Live(es) \subseteq {d.engine}
    /\ d.state # "exists" => Live(js) = {} /\ d.engine = 0

\* Matches, as a function of the rows.
Says(d, es, js) ==
    /\ d.engine # 0 /\ es[d.engine].state = Status(d.enabled)
    /\ d.cron <=> Live(js) # {}
    /\ \A j \in Live(js) : js[j] = [state |-> Status(d.enabled), engine |-> d.engine]
Agreed(d, es, js, th, st) ==
    \/ d.state # "exists" \/ st \/ Says(d, es, js)
    \/ \E t \in Mans(th) : th[t].pc \notin {"ask", "write"}

\* While no managing requests have overlapped, between the transactions of the
\* one at work as well.
OneMan(th) == \A s, t \in Mans(th) : s = t
AtWork(d, es, js, th) == \A t \in Mans(th) : d.state = "exists" /\ Current(th[t], d, es, js)
Calm ==
    ~overlapped =>
        /\ OneMan(thread) /\ FewRows(def, engines, jobs)
        /\ AtWork(def, engines, jobs, thread) /\ Agreed(def, engines, jobs, thread, stale)

IInv == TypeOK /\ Room /\ Fresh /\ Written /\ Unborn /\ Calm /\ ConcurrencyBounded /\ RunsTraced

-----------------------------------------------------------------------------
\* Types, table by table.
EngineRows == {Unused, Gone} \union [state : Switch]
JobRows == {Unused, Gone} \union [state : Switch, engine : Ids]
InstRows == {Unused, Gone} \union
            [state : InstStatus, engine : Ids,
             by : {"run", "fire", "raw"}, held : BOOLEAN]
SaveWork == [op : {"save", "delete"}, pc : {"lookup", "sync", "engine", "def"},
             cron : BOOLEAN, enabled : BOOLEAN, engine : Ids \union {0}, found : Ids \union {0}]
RunWork == [op : {"run", "fire", "raw"}, pc : {"ask", "write", "admit", "insert", "record"},
            enabled : BOOLEAN, engine : Ids \union {0}, inst : Ids \union {0}]
ListWork == [op : {"list"}, pc : {"look", "show"}, inst : Ids, status : InstStatus]
ThreadRows == {Idle} \union SaveWork \union RunWork \union ListWork
DefRow == [state : {"none", "exists", "deleted"}, cron : BOOLEAN, enabled : BOOLEAN,
           engine : Ids \union {0}]

Tables ==
    /\ engines \in [Ids -> EngineRows] /\ jobs \in [Ids -> JobRows] /\ insts \in [Ids -> InstRows]
    /\ runs \in [Ids -> {"none"} \union InstStatus]
    /\ def \in DefRow
Keys ==
    /\ def.engine = 0 \/ def.engine \in Live(engines)
    /\ \A i \in Live(insts) : insts[i].engine \in Live(engines)
    /\ def.state # "exists" => \A i \in Ids : runs[i] = "none"
Counts ==
    /\ starts \in 0..MaxStarts /\ events \in 0..MaxEvents
    /\ stale \in BOOLEAN /\ overlapped \in BOOLEAN /\ untraced \subseteq Ids
Typed == Tables /\ Keys /\ Counts /\ thread \in [Threads -> ThreadRows]

LEMMA LiveIs ==
  ASSUME NEW table, NEW k
  PROVE  /\ k \in Live(table) <=> k \in Ids /\ table[k] # Unused /\ table[k] # Gone
         /\ k \in Used(table) <=> k \in Ids /\ table[k] # Unused
         /\ Live(table) \subseteq Used(table) /\ Used(table) \subseteq Ids
  BY DEF Live, Used

LEMMA RowIs ==
  /\ Unused # Gone
  /\ \A s : [state |-> s] # Unused <=> s # "unused"
  /\ \A x \in EngineRows : x \notin {Unused, Gone} => x \in [state : Switch]
  /\ \A x \in JobRows : x \notin {Unused, Gone} => x \in [state : Switch, engine : Ids]
  /\ \A x \in InstRows : x \notin {Unused, Gone} =>
        x \in [state : InstStatus, engine : Ids,
               by : {"run", "fire", "raw"}, held : BOOLEAN]
  /\ \A x \in [state : Switch] : x # Unused /\ x # Gone
  /\ \A x \in [state : Switch, engine : Ids] : x # Unused /\ x # Gone
  /\ \A x \in [state : InstStatus, engine : Ids,
               by : {"run", "fire", "raw"}, held : BOOLEAN] : x # Unused /\ x # Gone
  BY DEF Unused, Gone, EngineRows, JobRows, InstRows, Switch

LEMMA NoZero == DefsAssumption => 0 \notin Ids /\ Ids \subseteq Nat
  BY DEF Ids, DefsAssumption

LEMMA Types == ASSUME DefsAssumption PROVE TypeOK <=> Typed
<1>1. ASSUME TypeOK PROVE Typed
  <2>1. Live(engines) \subseteq Ids
    BY LiveIs
  <2>2. engines \in [Ids -> EngineRows] /\ jobs \in [Ids -> JobRows]
    BY <1>1 DEF TypeOK, EngineRows, JobRows
  <2>3. /\ insts \in [Ids -> {Unused, Gone} \union
                [state : InstStatus, engine : Live(engines),
                 by : {"run", "fire", "raw"}, held : BOOLEAN]]
        /\ def \in [state : {"none", "exists", "deleted"}, cron : BOOLEAN,
                enabled : BOOLEAN, engine : Live(engines) \union {0}]
    BY <1>1 DEF TypeOK
  <2>4. insts \in [Ids -> InstRows] /\ def \in DefRow
    BY <2>1, <2>3 DEF InstRows, DefRow
  <2>5. def.engine = 0 \/ def.engine \in Live(engines)
    BY <2>3
  <2>6. \A i \in Live(insts) : insts[i].engine \in Live(engines)
    BY <2>3, LiveIs
  <2>7. thread \in [Threads -> ThreadRows]
    BY <1>1 DEF TypeOK, ThreadRows, Working, SaveWork, RunWork, ListWork
  <2>8. Counts /\ runs \in [Ids -> {"none"} \union InstStatus]
        /\ (def.state # "exists" => \A i \in Ids : runs[i] = "none")
    BY <1>1 DEF TypeOK, Counts
  <2> QED BY <2>2, <2>4, <2>5, <2>6, <2>7, <2>8 DEF Typed, Tables, Keys
<1>2. ASSUME Typed PROVE TypeOK
  <2> USE DEF Typed, Tables, Keys
  <2>1. engines \in [Ids -> {Unused, Gone} \union [state : Switch]]
        /\ jobs \in [Ids -> {Unused, Gone} \union [state : Switch, engine : Ids]]
    BY <1>2 DEF EngineRows, JobRows
  <2>2. def \in [state : {"none", "exists", "deleted"}, cron : BOOLEAN,
                 enabled : BOOLEAN, engine : Live(engines) \union {0}]
    BY <1>2 DEF DefRow
  <2>3. insts \in [Ids -> {Unused, Gone} \union
                [state : InstStatus, engine : Live(engines),
                 by : {"run", "fire", "raw"}, held : BOOLEAN]]
    <3> SUFFICES ASSUME NEW i \in Ids
                 PROVE  insts[i] \in {Unused, Gone} \union
                   [state : InstStatus, engine : Live(engines),
                    by : {"run", "fire", "raw"}, held : BOOLEAN]
      BY <1>2
    <3>1. insts[i] \in InstRows
      BY <1>2
    <3>2. CASE insts[i] \notin {Unused, Gone}
      <4>1. insts[i].engine \in Live(engines)
        BY <1>2, <3>2, LiveIs
      <4> QED BY <3>1, <3>2, <4>1, RowIs
    <3> QED BY <3>2
  <2>4. thread \in [Threads -> {Idle} \union Working]
    BY <1>2 DEF ThreadRows, Working, SaveWork, RunWork, ListWork
  <2> QED BY <1>2, <2>1, <2>2, <2>3, <2>4 DEF TypeOK, Counts
<1> QED BY <1>1, <1>2

LEMMA TypesNext == DefsAssumption => (TypeOK' <=> Typed')
<1>1. DefsAssumption => (TypeOK <=> Typed)
  BY Types
<1> QED BY <1>1, DefsAssumption, PTL

\* What a thread at a given place is doing.
LEMMA WorkIs ==
  ASSUME NEW w \in ThreadRows
  PROVE  /\ w.pc \in {"lookup", "sync", "engine", "def"} => w \in SaveWork
         /\ w.pc \in {"ask", "write", "admit", "insert", "record"} => w \in RunWork
         /\ w.pc \in {"look", "show"} => w \in ListWork
         /\ w.pc = "idle" <=> w = Idle
         /\ w.pc \in ManPcs \union {"admit", "insert", "record", "look", "show", "idle"}
  BY DEF ThreadRows, SaveWork, RunWork, ListWork, Idle, ManPcs

-----------------------------------------------------------------------------
\* Ids are taken in their order, and there is one left for whoever will insert.
LEMMA IdsFinite ==
  ASSUME DefsAssumption
  PROVE  /\ \A U \in SUBSET Ids : IsFiniteSet(U) /\ Cardinality(U) \in Nat
         /\ \A W \in SUBSET Threads : IsFiniteSet(W) /\ Cardinality(W) \in Nat
         /\ Cardinality(Ids) = MaxStarts
         /\ Used(insts) \subseteq Ids /\ Used(jobs) \subseteq Ids
         /\ WillInsert \subseteq Threads /\ WillSchedule \subseteq Threads
<1>1. IsFiniteSet(Ids) /\ Cardinality(Ids) = MaxStarts
  <2>1. /\ IsFiniteSet(1..MaxStarts)
        /\ Cardinality(1..MaxStarts) = IF 1 > MaxStarts THEN 0 ELSE MaxStarts - 1 + 1
    BY FS_Interval DEF DefsAssumption
  <2> QED BY <2>1 DEF Ids, DefsAssumption
<1>2. \A U \in SUBSET Ids : IsFiniteSet(U) /\ Cardinality(U) \in Nat
  BY <1>1, FS_Subset, FS_CardinalityType
<1>3. \A W \in SUBSET Threads : IsFiniteSet(W) /\ Cardinality(W) \in Nat
  BY FS_Subset, FS_CardinalityType DEF DefsAssumption
<1> QED BY <1>1, <1>2, <1>3 DEF Used, WillInsert, WillSchedule

\* The least id of a set: the smallest of the sets of ids up to one of them.
LEMMA MinIs ==
  ASSUME DefsAssumption, NEW S \in SUBSET Ids, S # {}
  PROVE  Min(S) \in S /\ \A k \in S : Min(S) <= k
<1> DEFINE UpTo(m) == {k \in S : k <= m}
           T == {UpTo(m) : m \in S}
           R == StrictSubsetOrdering(S)
<1>1. S \subseteq Nat /\ IsFiniteSet(S)
  BY NoZero, IdsFinite
<1>2. T \subseteq FiniteSubsetsOf(S) /\ T # {}
  <2>1. \A m \in S : UpTo(m) \in SUBSET S /\ IsFiniteSet(UpTo(m))
    BY <1>1, FS_Subset
  <2> QED BY <2>1 DEF FiniteSubsetsOf
<1>3. IsWellFoundedOn(R, FiniteSubsetsOf(S))
  BY FS_StrictSubsetOrderingWellFounded
<1> HIDE DEF T, R
<1>4. \E x \in T : \A y \in T : ~ (<<y, x>> \in R)
  BY <1>2, <1>3, WFMin
<1>5. PICK n \in S : \A m \in S : <<UpTo(m), UpTo(n)>> \notin R
  BY <1>4 DEF T
<1>6. ASSUME NEW m \in S, m < n PROVE FALSE
  <2>1. UpTo(m) \subseteq UpTo(n) /\ n \in UpTo(n) /\ n \notin UpTo(m)
    <3>1. m \in Nat /\ n \in Nat /\ n <= n /\ ~(n <= m) /\ \A k \in Nat : k <= m => k <= n
      BY <1>1, <1>6
    <3> QED BY <1>1, <3>1, Zenon
  <2>2. UpTo(m) \in SUBSET S /\ UpTo(n) \in SUBSET S /\ UpTo(m) # UpTo(n)
    BY <2>1
  <2> HIDE DEF UpTo
  <2>3. <<UpTo(m), UpTo(n)>> \in R
    BY <2>1, <2>2 DEF R, StrictSubsetOrdering
  <2> QED BY <1>5, <2>3
<1>7. \A m \in S : n <= m
  BY <1>1, <1>6
<1> QED BY <1>7 DEF Min

LEMMA NextIs ==
  ASSUME DefsAssumption, NEW table, NEW W \in SUBSET Threads, W # {},
         NEW n \in 0..MaxStarts, Fits(Used(table), W, n)
  PROVE  NextId(table) \in Ids /\ table[NextId(table)] = Unused
<1> DEFINE U == Used(table)
           S == {k \in Ids : table[k] = Unused}
<1>1. U \in SUBSET Ids /\ IsFiniteSet(U) /\ IsFiniteSet(W) /\ Cardinality(U) \in Nat
      /\ Cardinality(W) \in Nat /\ IsFiniteSet(Ids) /\ Cardinality(Ids) = MaxStarts /\ MaxStarts \in Nat
  BY IdsFinite DEF Used, DefsAssumption
<1>2. Cardinality(W) # 0
  BY <1>1, FS_EmptySet
<1>3. Cardinality(U) < MaxStarts
  BY <1>1, <1>2 DEF Fits
<1>4. U # Ids
  BY <1>1, <1>3
<1>5. S # {}
  BY <1>1, <1>4 DEF Used
<1>6. Min(S) \in S
  BY <1>5, MinIs
<1> QED BY <1>6 DEF NextId

LEMMA FitsLess ==
  ASSUME DefsAssumption, NEW U \in SUBSET Ids, NEW W \in SUBSET Threads, NEW n \in Int, NEW k \in Int,
         Fits(U, W, n), n <= k, NEW V \in SUBSET U, NEW X \in SUBSET W
  PROVE  Fits(V, X, k)
<1>1. /\ Cardinality(U) \in Nat /\ Cardinality(W) \in Nat
      /\ Cardinality(V) \in Nat /\ Cardinality(X) \in Nat
      /\ Cardinality(V) <= Cardinality(U) /\ Cardinality(X) <= Cardinality(W)
  BY IdsFinite, FS_Subset
<1> QED BY <1>1 DEF Fits

LEMMA FitsMore ==
  ASSUME DefsAssumption, NEW U \in SUBSET Ids, NEW W \in SUBSET Threads, NEW n \in Int,
         Fits(U, W, n), NEW t \in Threads, NEW X \in SUBSET (W \union {t})
  PROVE  Fits(U, X, n + 1)
<1>1. Cardinality(U) \in Nat /\ Cardinality(W) \in Nat /\ IsFiniteSet(W)
  BY IdsFinite
<1>2. IsFiniteSet(W \union {t}) /\ Cardinality(W \union {t}) <= Cardinality(W) + 1
  <2>1. /\ IsFiniteSet(W \union {t})
        /\ Cardinality(W \union {t}) = IF t \in W THEN Cardinality(W) ELSE Cardinality(W) + 1
    BY <1>1, FS_AddElement
  <2> QED BY <1>1, <2>1
<1>3. W \union {t} \in SUBSET Threads /\ X \in SUBSET Threads
  OBVIOUS
<1>4. Cardinality(X) <= Cardinality(W \union {t}) /\ Cardinality(X) \in Nat
      /\ Cardinality(W \union {t}) \in Nat
  BY <1>2, <1>3, FS_Subset, IdsFinite
<1> QED BY <1>1, <1>2, <1>4 DEF Fits

LEMMA FitsTaken ==
  ASSUME DefsAssumption, NEW U \in SUBSET Ids, NEW W \in SUBSET Threads, NEW n \in Int,
         Fits(U, W, n), NEW t \in W, NEW X \in SUBSET (W \ {t}), NEW k \in Ids, NEW V \in SUBSET (U \union {k})
  PROVE  Fits(V, X, n)
<1>1. Cardinality(U) \in Nat /\ Cardinality(W) \in Nat /\ IsFiniteSet(W) /\ IsFiniteSet(U)
  BY IdsFinite
<1>2. /\ IsFiniteSet(W \ {t}) /\ Cardinality(W \ {t}) = Cardinality(W) - 1
      /\ IsFiniteSet(U \union {k}) /\ Cardinality(U \union {k}) <= Cardinality(U) + 1
  <2>1. /\ IsFiniteSet(W \ {t})
        /\ Cardinality(W \ {t}) = IF t \in W THEN Cardinality(W) - 1 ELSE Cardinality(W)
    BY <1>1, FS_RemoveElement
  <2>2. /\ IsFiniteSet(U \union {k})
        /\ Cardinality(U \union {k}) = IF k \in U THEN Cardinality(U) ELSE Cardinality(U) + 1
    BY <1>1, FS_AddElement
  <2> QED BY <1>1, <2>1, <2>2
<1>3. /\ U \union {k} \in SUBSET Ids /\ V \in SUBSET Ids
      /\ W \ {t} \in SUBSET Threads /\ X \in SUBSET Threads
  OBVIOUS
<1>4. /\ Cardinality(X) <= Cardinality(W \ {t}) /\ Cardinality(X) \in Nat
      /\ Cardinality(V) <= Cardinality(U \union {k}) /\ Cardinality(V) \in Nat
      /\ Cardinality(U \union {k}) \in Nat
  BY <1>2, <1>3, FS_Subset, IdsFinite
<1> QED BY <1>1, <1>2, <1>4 DEF Fits

-----------------------------------------------------------------------------
\* A step of one thread.
Turns(t, x) ==
    /\ x \in ThreadRows /\ thread'[t] = x /\ thread' \in [Threads -> ThreadRows]
    /\ \A s \in Threads : s # t => thread'[s] = thread[s]

LEMMA TurnsTo ==
  ASSUME thread \in [Threads -> ThreadRows], NEW t \in Threads, NEW x \in ThreadRows,
         thread' = [thread EXCEPT ![t] = x]
  PROVE  Turns(t, x)
  BY DEF Turns

LEMMA Ends ==
  ASSUME thread \in [Threads -> ThreadRows], NEW t \in Threads, End(t)
  PROVE  Turns(t, Idle)
  BY TurnsTo DEF End, ThreadRows

\* A Goto within what the thread is doing.
LEMMA GoesTo ==
  ASSUME thread \in [Threads -> ThreadRows], NEW t \in Threads, NEW pc, Goto(t, pc),
         \/ thread[t] \in SaveWork /\ pc \in {"lookup", "sync", "engine", "def"}
         \/ thread[t] \in RunWork /\ pc \in {"ask", "write", "admit", "insert", "record"}
  PROVE  \E x \in ThreadRows :
           /\ Turns(t, x) /\ x.pc = pc /\ x.op = thread[t].op /\ x.engine = thread[t].engine
           /\ x.enabled = thread[t].enabled
           /\ thread[t] \in SaveWork => x.cron = thread[t].cron /\ x.found = thread[t].found
           /\ thread[t] \in RunWork => x.inst = thread[t].inst
<1> DEFINE x == [thread[t] EXCEPT !.pc = pc]
<1>1. thread' = [thread EXCEPT ![t] = x]
  BY DEF Goto
<1>2. /\ x \in ThreadRows /\ x.pc = pc /\ x.op = thread[t].op /\ x.engine = thread[t].engine
      /\ x.enabled = thread[t].enabled
      /\ thread[t] \in SaveWork => x.cron = thread[t].cron /\ x.found = thread[t].found
      /\ thread[t] \in RunWork => x.inst = thread[t].inst
  <2>1. CASE thread[t] \in SaveWork /\ pc \in {"lookup", "sync", "engine", "def"}
    <3>1. thread[t] \notin RunWork
      BY <2>1 DEF SaveWork, RunWork
    <3>2. x \in SaveWork /\ x.pc = pc /\ x.op = thread[t].op /\ x.engine = thread[t].engine
          /\ x.enabled = thread[t].enabled /\ x.cron = thread[t].cron /\ x.found = thread[t].found
      BY <2>1 DEF SaveWork
    <3> QED BY <3>1, <3>2 DEF ThreadRows
  <2>2. CASE thread[t] \in RunWork /\ pc \in {"ask", "write", "admit", "insert", "record"}
    <3>1. thread[t] \notin SaveWork
      BY <2>2 DEF SaveWork, RunWork
    <3>2. x \in RunWork /\ x.pc = pc /\ x.op = thread[t].op /\ x.engine = thread[t].engine
          /\ x.enabled = thread[t].enabled /\ x.inst = thread[t].inst
      BY <2>2 DEF RunWork
    <3> QED BY <3>1, <3>2 DEF ThreadRows
  <2> QED BY <2>1, <2>2
<1> HIDE DEF x
<1> QED BY <1>1, <1>2, TurnsTo

\* Rooms.
LEMMA RoomStays ==
  ASSUME DefsAssumption, TypeOK, Room, NEW t \in Threads, NEW x, Turns(t, x),
         Used(insts') \subseteq Used(insts), Used(jobs') \subseteq Used(jobs),
         starts' = starts,
         x.pc \in {"ask", "write", "admit", "insert"} => thread[t].pc \in {"ask", "write", "admit", "insert"},
         x.pc \in {"lookup", "sync"} => thread[t].pc \in {"lookup", "sync"}
  PROVE  Room'
<1>1. WillInsert' \subseteq WillInsert /\ WillSchedule' \subseteq WillSchedule
  BY DEF WillInsert, WillSchedule, Turns
<1>2. starts \in Int /\ starts <= starts
  BY DEF TypeOK, DefsAssumption
<1>3. Fits(Used(insts'), WillInsert', starts) /\ Fits(Used(jobs'), WillSchedule', starts)
  BY <1>1, <1>2, FitsLess, IdsFinite DEF Room
<1> QED BY <1>3 DEF Room, Used

LEMMA RoomBegins ==
  ASSUME DefsAssumption, TypeOK, Room, NEW t \in Threads, NEW x, Turns(t, x),
         Used(insts') = Used(insts), Used(jobs') = Used(jobs), starts' = starts + 1
  PROVE  Room'
<1>1. WillInsert' \subseteq WillInsert \union {t} /\ WillSchedule' \subseteq WillSchedule \union {t}
  BY DEF WillInsert, WillSchedule, Turns
<1>2. starts \in Int
  BY DEF TypeOK, DefsAssumption
<1>3. Fits(Used(insts), WillInsert', starts + 1) /\ Fits(Used(jobs), WillSchedule', starts + 1)
  BY <1>1, <1>2, FitsMore, IdsFinite DEF Room
<1> QED BY <1>3 DEF Room, Used

LEMMA RoomIdle ==
  ASSUME DefsAssumption, TypeOK, Room, UNCHANGED <<thread, starts>>,
         Used(insts') \subseteq Used(insts), Used(jobs') \subseteq Used(jobs)
  PROVE  Room'
<1>1. WillInsert' = WillInsert /\ WillSchedule' = WillSchedule
  BY DEF WillInsert, WillSchedule
<1>2. starts \in Int /\ starts <= starts
  BY DEF TypeOK, DefsAssumption
<1>3. Fits(Used(insts'), WillInsert, starts) /\ Fits(Used(jobs'), WillSchedule, starts)
  BY <1>2, FitsLess, IdsFinite DEF Room
<1> QED BY <1>1, <1>3 DEF Room, Used

\* Whoever acts on something acts on a definition that was created.
LEMMA Born ==
  ASSUME TypeOK, Unborn,
         \/ \E t \in Threads : ~At(t, "idle")
         \/ Live(jobs) # {} \/ Live(engines) # {} \/ Live(insts) # {}
  PROVE  def.state # "none"
<1>1. Live(insts) # {} => Live(engines) # {}
  BY LiveIs DEF TypeOK
<1> QED BY <1>1 DEF Unborn, At, Idle

LEMMA FreshTurns ==
  ASSUME Fresh, NEW t \in Threads, NEW x, Turns(t, x), UNCHANGED <<insts, runs>>,
         x.pc = "record" => x.inst \in Used(insts)
  PROVE  Fresh'
<1>1. \A s \in Threads : At(s, "record")' => thread'[s].inst \in Used(insts)
  BY DEF Fresh, Turns, At
<1> QED BY <1>1 DEF Fresh, Used

LEMMA WrittenTurns ==
  ASSUME Written, NEW t \in Threads, NEW x, Turns(t, x),
         x.pc \in {"lookup", "sync"} /\ x.cron => x.engine # 0
  PROVE  Written'
  BY DEF Written, Turns

LEMMA TracedTurns ==
  ASSUME RunsTraced, NEW t \in Threads, NEW x, Turns(t, x), UNCHANGED <<insts, runs>>,
         def'.state = "exists" => def.state = "exists", untraced \subseteq untraced',
         At(t, "record") => thread[t].inst \in untraced'
  PROVE  RunsTraced'
<1> SUFFICES ASSUME NEW i \in Live(insts)
             PROVE  insts[i].by # "raw" /\ def'.state = "exists" =>
                      \/ runs[i] # "none" \/ i \in untraced'
                      \/ \E s \in Threads : At(s, "record")' /\ thread'[s].inst = i
  BY DEF RunsTraced, Live
<1>1. \A s \in Threads \ {t} : At(s, "record") => At(s, "record")' /\ thread'[s].inst = thread[s].inst
  BY DEF Turns, At
<1> QED BY <1>1 DEF RunsTraced

\* The limit, in the form the lemmas on Fits have.
Limit == MaxConcurrency + Cardinality(Threads) - 1
LEMMA BoundIs ==
  ASSUME DefsAssumption
  PROVE  /\ Limit \in Int /\ \A S, I : Fits(S, I, Limit) <=> Cardinality(S) + Cardinality(I) <= Limit
         /\ \A e : StartedOf(e) \subseteq Ids /\ Inserting(e) \subseteq Threads
         /\ ConcurrencyBounded <=>
              (MaxConcurrency > 0 => \A e \in Ids : Fits(StartedOf(e), Inserting(e), Limit))
<1>1. Cardinality(Threads) \in Nat /\ MaxConcurrency \in Nat
  BY IdsFinite DEF DefsAssumption
<1>2. \A e : StartedOf(e) \subseteq Ids /\ Inserting(e) \subseteq Threads
  BY LiveIs DEF StartedOf, RunningOf, Inserting
<1>3. \A e : Cardinality(StartedOf(e)) \in Nat /\ Cardinality(Inserting(e)) \in Nat
  BY <1>2, IdsFinite
<1>4. \A a, b \in Nat : a + b <= Limit <=> a + b < MaxConcurrency + Cardinality(Threads)
  BY <1>1 DEF Limit
<1>5. \A e : Fits(StartedOf(e), Inserting(e), Limit) <=>
             Cardinality(StartedOf(e)) + Cardinality(Inserting(e)) < MaxConcurrency + Cardinality(Threads)
  BY <1>3, <1>4 DEF Fits
<1> QED BY <1>1, <1>2, <1>5 DEF ConcurrencyBounded, Limit, Fits

LEMMA BoundStays ==
  ASSUME DefsAssumption, ConcurrencyBounded,
         \A e \in Ids : StartedOf(e)' \subseteq StartedOf(e) /\ Inserting(e)' \subseteq Inserting(e)
  PROVE  ConcurrencyBounded'
<1> SUFFICES ASSUME MaxConcurrency > 0, NEW e \in Ids
             PROVE  Cardinality(StartedOf(e)') + Cardinality(Inserting(e)')
                      < MaxConcurrency + Cardinality(Threads)
  BY DEF ConcurrencyBounded
<1>1. Fits(StartedOf(e)', Inserting(e)', Limit)
  BY BoundIs, FitsLess
<1>2. Cardinality(Threads) \in Nat /\ MaxConcurrency \in Nat
      /\ Cardinality(StartedOf(e)') \in Nat /\ Cardinality(Inserting(e)') \in Nat
  <2>1. StartedOf(e)' \subseteq Ids /\ Inserting(e)' \subseteq Threads
    BY BoundIs
  <2> QED BY <2>1, IdsFinite DEF DefsAssumption
<1>3. \A a, b, c, d \in Nat : a + b <= c + d - 1 => a + b < c + d
  OBVIOUS
<1> QED BY <1>1, <1>2, <1>3 DEF Fits, Limit

LEMMA BoundTurns ==
  ASSUME DefsAssumption, ConcurrencyBounded, NEW t \in Threads, NEW x, Turns(t, x), UNCHANGED insts,
         x.pc # "insert"
  PROVE  ConcurrencyBounded'
<1>1. \A e \in Ids : StartedOf(e)' \subseteq StartedOf(e)
  BY DEF StartedOf, RunningOf, Live
<1>2. \A e \in Ids : Inserting(e)' \subseteq Inserting(e)
  BY DEF Inserting, Turns, At
<1> QED BY <1>1, <1>2, BoundStays


-----------------------------------------------------------------------------
\* Changes of one row, and of the set of threads that manage.
LEMMA Put ==
  ASSUME NEW S, NEW table \in [Ids -> S], NEW k \in Ids, NEW v
  PROVE  /\ Live([table EXCEPT ![k] = v]) =
              IF v \in {Unused, Gone} THEN Live(table) \ {k} ELSE Live(table) \union {k}
         /\ Used([table EXCEPT ![k] = v]) =
              IF v = Unused THEN Used(table) \ {k} ELSE Used(table) \union {k}
  BY DEF Live, Used

LEMMA MansIs ==
  /\ \A t \in Threads : Managing(t) <=> t \in Mans(thread)
  /\ Quiet <=> Mans(thread) = {}
  BY DEF Managing, Quiet, Mans, ManPcs

LEMMA MansTurn ==
  ASSUME NEW t \in Threads, NEW x, Turns(t, x)
  PROVE  Mans(thread') = IF x.pc \in ManPcs THEN Mans(thread) \union {t} ELSE Mans(thread) \ {t}
  BY DEF Mans, Turns

\* A managing request begins: it is the only one, or requests overlap.
LEMMA MansBegin ==
  ASSUME NEW t \in Threads, NEW x, Turns(t, x), x.pc \in ManPcs, Calm,
         overlapped' = (overlapped \/ ~Quiet), ~overlapped'
  PROVE  ~overlapped /\ Mans(thread) = {} /\ Mans(thread') = {t} /\ thread'[t] = x
<1>1. ~overlapped /\ Quiet
  OBVIOUS
<1> QED BY <1>1, MansIs, MansTurn DEF Turns

\* Steps that manage nothing leave the calm as it is.
LEMMA CalmAside ==
  ASSUME Calm, UNCHANGED <<def, engines, jobs, stale>>, NEW t \in Threads, NEW x, Turns(t, x),
         x.pc \notin ManPcs, ~overlapped' => ~overlapped /\ thread[t].pc \notin ManPcs
  PROVE  Calm'
<1> SUFFICES ASSUME ~overlapped'
             PROVE  /\ OneMan(thread') /\ FewRows(def, engines, jobs)
                    /\ AtWork(def, engines, jobs, thread') /\ Agreed(def, engines, jobs, thread', stale)
  BY DEF Calm
<1>1. Mans(thread') = Mans(thread) /\ \A s \in Mans(thread) : thread'[s] = thread[s]
  <2>1. t \notin Mans(thread)
    BY DEF Mans
  <2> QED BY <2>1, MansTurn DEF Turns, Mans
<1>2. /\ OneMan(thread) /\ FewRows(def, engines, jobs)
      /\ AtWork(def, engines, jobs, thread) /\ Agreed(def, engines, jobs, thread, stale)
  BY DEF Calm
<1> QED BY <1>1, <1>2 DEF OneMan, AtWork, Agreed

LEMMA CalmSame ==
  ASSUME Calm, UNCHANGED <<def, engines, jobs, thread, stale, overlapped>>
  PROVE  Calm'
  BY DEF Calm

-----------------------------------------------------------------------------
\* What every start of a request and every fired job has in common.
LEMMA Begins ==
  ASSUME DefsAssumption, TypeOK, Room, Fresh, ConcurrencyBounded,
         NEW t \in Threads, NEW x \in ThreadRows, Start(t, x),
         UNCHANGED <<insts, runs>>, UNCHANGED jobs, x.pc \notin {"record", "insert"}
  PROVE  /\ Turns(t, x) /\ thread[t] = Idle
         /\ starts' \in 0..MaxStarts /\ UNCHANGED <<events, untraced>>
         /\ Room' /\ Fresh' /\ ConcurrencyBounded'
<1>1. thread \in [Threads -> ThreadRows]
  BY Types DEF Typed
<1>2. Turns(t, x) /\ starts' = starts + 1
  BY <1>1, TurnsTo DEF Start
<1>3. thread[t] = Idle
  BY <1>1, WorkIs DEF Start, At
<1>4. starts' \in 0..MaxStarts
  BY DEF Start, TypeOK, DefsAssumption
<1>5. Room'
  BY <1>2, RoomBegins DEF Used
<1>6. Fresh'
  BY <1>2, FreshTurns
<1>7. ConcurrencyBounded'
  BY <1>2, BoundTurns
<1> QED BY <1>2, <1>3, <1>4, <1>5, <1>6, <1>7 DEF Start

\* What is written through the definition.
LEMMA Writes ==
  ASSUME DefsAssumption, Typed, NEW row \in DefRow, row.engine = 0 \/ row.engine \in Live(engines),
         NEW old \in Ids \union {0}, NEW enabled \in BOOLEAN, NEW e \in Ids,
         WriteThrough(row, old, enabled, e)
  PROVE  /\ engines' \in [Ids -> EngineRows] /\ def' \in DefRow
         /\ Live(engines') = Live(engines) \union {e}
         /\ engines'[e].state = Status(enabled)
         /\ def'.state = row.state /\ def'.cron = row.cron /\ def'.enabled = row.enabled
         /\ def'.engine = 0 \/ def'.engine \in Live(engines')
         /\ row.state = "exists" /\ row.engine = old => def'.engine = e
         /\ old \in Live(engines) => e = old
<1> DEFINE new == [state |-> Status(enabled)]
<1>1. engines' = [engines EXCEPT ![e] = new] /\ engines \in [Ids -> EngineRows]
  BY DEF WriteThrough, Typed, Tables
<1>2. new \in [state : Switch]
  BY DEF Status, Switch
<1>3. new \in EngineRows /\ new \notin {Unused, Gone} /\ new.state = Status(enabled)
  BY <1>2, RowIs DEF EngineRows
<1> HIDE DEF new
<1>4. Live(engines') = Live(engines) \union {e}
  BY <1>1, <1>3, Put
<1>5. engines' \in [Ids -> EngineRows] /\ engines'[e].state = Status(enabled)
  BY <1>1, <1>3
<1>6. def' = IF e # old /\ row.state = "exists" THEN [row EXCEPT !.engine = e] ELSE row
  BY DEF WriteThrough
<1>7. /\ def' \in DefRow
      /\ def'.state = row.state /\ def'.cron = row.cron /\ def'.enabled = row.enabled
      /\ def'.engine = IF e # old /\ row.state = "exists" THEN e ELSE row.engine
  BY <1>6 DEF DefRow
<1>8. old \in Live(engines) => e = old
  BY DEF WriteThrough
<1> QED BY <1>4, <1>5, <1>7, <1>8

LEMMA SaveKeeps ==
  ASSUME DefsAssumption, IInv, NEW t \in Threads, NEW cron \in BOOLEAN, NEW enabled \in BOOLEAN,
         Save(t, cron, enabled), def.state \in {"none", "exists"}
  PROVE  IInv'
<1> USE DEF IInv
<1>1. Typed
  BY Types
<1> DEFINE row == [def EXCEPT !.state = "exists", !.cron = cron, !.enabled = enabled]
<1>2. PICK e \in Ids : /\ WriteThrough(row, def.engine, enabled, e)
                       /\ Manage(t, Saving(cron, enabled, e))
                       /\ UNCHANGED <<jobs, insts, runs, stale>>
  BY DEF Save
<1> DEFINE x == Saving(cron, enabled, e)
<1>3. /\ row \in DefRow /\ row.engine = def.engine /\ row.state = "exists"
      /\ row.cron = cron /\ row.enabled = enabled
      /\ def.engine = 0 \/ def.engine \in Live(engines)
      /\ def.engine \in Ids \union {0}
  BY <1>1 DEF Typed, Tables, Keys, DefRow
<1> HIDE DEF row
<1>4. /\ engines' \in [Ids -> EngineRows] /\ def' \in DefRow
      /\ Live(engines') = Live(engines) \union {e}
      /\ engines'[e].state = Status(enabled)
      /\ def'.state = "exists" /\ def'.cron = cron /\ def'.enabled = enabled
      /\ def'.engine = e /\ e \in Live(engines')
      /\ def.engine \in Live(engines) => e = def.engine
  BY <1>1, <1>2, <1>3, Writes
<1>5. /\ x \in SaveWork /\ x.pc = "lookup" /\ x.op = "save" /\ x.cron = cron
      /\ x.enabled = enabled /\ x.engine = e
  BY DEF Saving, SaveWork
<1>6. x \in ThreadRows /\ x.pc \in ManPcs
  BY <1>5 DEF ThreadRows, ManPcs
<1>7. Start(t, x) /\ overlapped' = (overlapped \/ ~Quiet)
  BY <1>2 DEF Manage
<1> HIDE DEF x
<1>8. /\ Turns(t, x) /\ thread[t] = Idle
      /\ starts' \in 0..MaxStarts /\ UNCHANGED <<events, untraced>>
      /\ Room' /\ Fresh' /\ ConcurrencyBounded'
  BY <1>2, <1>5, <1>6, <1>7, Begins
<1>9. Typed'
  <2>1. Tables' /\ Keys'
    <3>1. \A i \in Live(insts) : insts[i].engine \in Live(engines')
      BY <1>1, <1>4 DEF Typed, Keys
    <3> QED BY <1>1, <1>2, <1>4, <3>1 DEF Typed, Tables, Keys, Live
  <2>2. Counts'
    BY <1>1, <1>2, <1>7, <1>8 DEF Typed, Counts
  <2> QED BY <1>8, <2>1, <2>2 DEF Typed, Turns
<1>10. TypeOK'
  BY <1>9, TypesNext
<1>11. Unborn'
  BY <1>4 DEF Unborn
<1>14. Written'
  BY <1>5, <1>8, NoZero, WrittenTurns
<1>12. Calm'
  <2> SUFFICES ASSUME ~overlapped'
               PROVE  /\ OneMan(thread') /\ FewRows(def', engines', jobs)
                      /\ AtWork(def', engines', jobs, thread')
                      /\ Agreed(def', engines', jobs, thread', stale)
    BY <1>2 DEF Calm
  <2>1. ~overlapped /\ Mans(thread') = {t} /\ thread'[t] = x
    BY <1>6, <1>7, <1>8, MansBegin
  <2>2. FewRows(def, engines, jobs)
    BY <2>1 DEF Calm
  <2>3. FewRows(def', engines', jobs)
    BY <1>3, <1>4, <2>2 DEF FewRows
  <2>4. Current(x, def', engines', jobs)
    BY <1>4, <1>5, NoZero DEF Current, CurrentSave
  <2> QED BY <1>4, <1>5, <2>1, <2>3, <2>4 DEF OneMan, AtWork, Agreed
<1>13. RunsTraced'
  <2>1. CASE def.state = "exists"
    BY <1>2, <1>8, <2>1, TracedTurns DEF At, Idle
  <2>2. CASE def.state = "none"
    <3>1. Live(insts) = {}
      BY <1>1, <2>2 DEF Unborn, Typed, Keys
    <3> QED BY <1>2, <3>1 DEF RunsTraced, Live
  <2> QED BY <2>1, <2>2
<1> QED BY <1>8, <1>10, <1>11, <1>12, <1>13, <1>14

-----------------------------------------------------------------------------
\* Steps of one thread that leave instances and history alone.
LEMMA Steps ==
  ASSUME DefsAssumption, IInv, NEW t \in Threads, NEW x, Turns(t, x), thread[t] # Idle,
         UNCHANGED <<insts, runs, starts, events>>,
         Used(jobs') \subseteq Used(jobs), x.pc \notin {"record", "insert"},
         def'.state = def.state, untraced \subseteq untraced',
         At(t, "record") => thread[t].inst \in untraced',
         x.pc \in {"ask", "write", "admit", "insert"} => thread[t].pc \in {"ask", "write", "admit", "insert"},
         x.pc \in {"lookup", "sync"} => thread[t].pc \in {"lookup", "sync"}
                                       /\ x.cron = thread[t].cron /\ x.engine = thread[t].engine
  PROVE  Room' /\ Fresh' /\ Written' /\ ConcurrencyBounded' /\ RunsTraced' /\ Unborn'
<1> USE DEF IInv
<1>1. Room'
  BY RoomStays DEF Used
<1>2. Fresh'
  BY FreshTurns
<1>3. ConcurrencyBounded'
  BY BoundTurns
<1>4. RunsTraced'
  BY TracedTurns
<1>5. def.state # "none"
  BY DEF Unborn
<1>6. Written'
  BY WrittenTurns DEF Written
<1> QED BY <1>1, <1>2, <1>3, <1>4, <1>5, <1>6 DEF Unborn

LEMMA LookupKeeps ==
  ASSUME DefsAssumption, IInv, NEW t \in Threads, Lookup(t)
  PROVE  IInv'
<1> USE DEF IInv
<1>1. Typed
  BY Types
<1> DEFINE found == IF Live(jobs) = {} THEN 0 ELSE Min(Live(jobs))
           x == [thread[t] EXCEPT !.pc = "sync", !.found = found]
<1>2. /\ At(t, "lookup") /\ thread' = [thread EXCEPT ![t] = x]
      /\ UNCHANGED <<def, engines, jobs, insts, runs>>
      /\ UNCHANGED <<starts, events, stale, overlapped, untraced>>
  BY DEF Lookup, rows
<1>3. found \in Ids \union {0} /\ (Live(jobs) # {} => found \in Live(jobs))
      /\ (Live(jobs) = {} => found = 0)
  BY MinIs, LiveIs
<1>4. thread[t] \in SaveWork /\ thread[t].pc = "lookup"
  BY <1>1, <1>2, WorkIs DEF Typed, At
<1> HIDE DEF found
<1>5. /\ x \in SaveWork /\ x.pc = "sync" /\ x.found = found /\ x.op = thread[t].op
      /\ x.cron = thread[t].cron /\ x.enabled = thread[t].enabled /\ x.engine = thread[t].engine
  BY <1>3, <1>4 DEF SaveWork
<1> HIDE DEF x
<1>6. x \in ThreadRows /\ x.pc \in ManPcs
  BY <1>5 DEF ThreadRows, ManPcs
<1>7. Turns(t, x)
  BY <1>1, <1>2, <1>6, TurnsTo DEF Typed
<1>8. Typed'
  BY <1>1, <1>2, <1>7 DEF Typed, Tables, Keys, Counts, Turns, Live
<1>9. TypeOK'
  BY <1>8, TypesNext
<1>10. Room' /\ Fresh' /\ Written' /\ ConcurrencyBounded' /\ RunsTraced' /\ Unborn'
  BY <1>2, <1>4, <1>5, <1>7, Steps DEF At, Used, Idle
<1>11. Calm'
  <2> SUFFICES ASSUME ~overlapped
               PROVE  /\ OneMan(thread') /\ FewRows(def, engines, jobs)
                      /\ AtWork(def, engines, jobs, thread')
                      /\ Agreed(def, engines, jobs, thread', stale)
    BY <1>2 DEF Calm
  <2>1. /\ OneMan(thread) /\ FewRows(def, engines, jobs)
        /\ AtWork(def, engines, jobs, thread)
    BY DEF Calm
  <2>2. t \in Mans(thread)
    BY <1>4 DEF Mans, ManPcs
  <2>3. Mans(thread') = {t} /\ thread'[t] = x
    BY <1>6, <1>7, <2>1, <2>2, MansTurn DEF OneMan, Turns
  <2>4. Current(thread[t], def, engines, jobs) /\ def.state = "exists"
    BY <2>1, <2>2 DEF AtWork
  <2>5. IF found = 0 THEN Live(jobs) = {} ELSE Live(jobs) = {found}
    BY <1>3, <2>1, NoZero, LiveIs DEF FewRows
  <2>6. Current(x, def, engines, jobs)
    BY <1>4, <1>5, <2>4, <2>5 DEF Current, CurrentSave, CurrentDelete
  <2> QED BY <1>5, <2>1, <2>3, <2>4, <2>6 DEF OneMan, AtWork, Agreed
<1> QED BY <1>9, <1>10, <1>11

LEMMA SyncKeeps ==
  ASSUME DefsAssumption, IInv, NEW t \in Threads, Sync(t)
  PROVE  IInv'
<1> USE DEF IInv
<1>1. Typed
  BY Types
<1> DEFINE w == thread[t]
           row == [state |-> Status(w.enabled), engine |-> w.engine]
           n == NextId(jobs)
<1>2. /\ w.pc = "sync" /\ jobs' = Synced(w)
      /\ stale' = (stale /\ w.op # "save")
      /\ IF w.op = "save" THEN End(t) ELSE Goto(t, "engine")
      /\ UNCHANGED <<def, engines, insts, runs>>
      /\ UNCHANGED <<starts, events, overlapped, untraced>>
  BY DEF Sync, At
<1>3. w \in SaveWork /\ w # Idle /\ thread \in [Threads -> ThreadRows]
  BY <1>1, <1>2, WorkIs DEF Typed, Idle
<1>4. PICK x \in ThreadRows :
        /\ Turns(t, x) /\ x.pc = IF w.op = "save" THEN "idle" ELSE "engine"
        /\ w.op # "save" => x \in SaveWork /\ x.op = w.op /\ x.engine = w.engine /\ x.cron = w.cron
  <2>1. CASE w.op = "save"
    <3>1. Turns(t, Idle) /\ Idle \in ThreadRows /\ Idle.pc = "idle"
      BY <1>2, <1>3, <2>1, Ends DEF ThreadRows, Idle
    <3> QED BY <2>1, <3>1
  <2>2. CASE w.op # "save"
    <3>1. \E x \in ThreadRows :
            /\ Turns(t, x) /\ x.pc = "engine" /\ x.op = w.op /\ x.engine = w.engine
            /\ w \in SaveWork => x.cron = w.cron
      BY <1>2, <1>3, <2>2, GoesTo
    <3> QED BY <1>3, <2>2, <3>1, WorkIs
  <2> QED BY <2>1, <2>2
<1>5. n \in Ids /\ jobs[n] = Unused
  <2>1. t \in WillSchedule /\ WillSchedule \subseteq Threads
    BY <1>2 DEF WillSchedule
  <2>2. starts \in 0..MaxStarts
    BY <1>1 DEF Typed, Counts
  <2> QED BY <2>1, <2>2, NextIs DEF Room
<1> HIDE DEF n, w
<1>6. /\ w.found \in Ids \union {0} /\ w.engine \in Ids \union {0}
      /\ w.cron \in BOOLEAN /\ w.enabled \in BOOLEAN
      /\ w.cron => w.engine \in Ids
  BY <1>2, <1>3 DEF SaveWork, Written, w
<1>7. 0 \notin Live(jobs)
  BY NoZero, LiveIs
<1>8. \/ /\ w.cron /\ w.found = 0 /\ jobs' = [jobs EXCEPT ![n] = row]
      \/ /\ w.found \in Live(jobs) /\ w.found # 0
         /\ jobs' = [jobs EXCEPT ![w.found] = IF w.cron THEN row ELSE Gone]
      \/ /\ ~(w.cron /\ w.found = 0) /\ w.found \notin Live(jobs) /\ jobs' = jobs
  <2>1. CASE w.cron /\ w.found = 0
    BY <1>2, <1>7, <2>1 DEF Synced, n
  <2>2. CASE w.found \in Live(jobs)
    BY <1>2, <1>7, <2>2 DEF Synced
  <2>3. CASE ~(w.cron /\ w.found = 0) /\ w.found \notin Live(jobs)
    BY <1>2, <1>7, <2>3 DEF Synced
  <2> QED BY <2>1, <2>2, <2>3
<1>9. w.cron => row \in JobRows /\ row \notin {Unused, Gone}
  <2>1. w.cron => row \in [state : Switch, engine : Ids]
    BY <1>6 DEF Status, Switch
  <2> QED BY <2>1, RowIs DEF JobRows
<1>10. jobs \in [Ids -> JobRows] /\ Live(jobs) \subseteq Ids
  BY <1>1, LiveIs DEF Typed, Tables
<1> HIDE DEF row
<1>11. jobs' \in [Ids -> JobRows]
  <2>1. Gone \in JobRows
    BY DEF JobRows
  <2> QED BY <1>5, <1>8, <1>9, <1>10, <2>1
<1>12. /\ w.cron /\ w.found = 0 =>
            /\ Live(jobs') = Live(jobs) \union {n} /\ Used(jobs') = Used(jobs) \union {n}
            /\ jobs'[n] = row
       /\ w.cron /\ w.found \in Live(jobs) =>
            /\ Live(jobs') = Live(jobs) /\ Used(jobs') = Used(jobs) /\ jobs'[w.found] = row
       /\ ~w.cron /\ w.found \in Live(jobs) =>
            Live(jobs') = Live(jobs) \ {w.found} /\ Used(jobs') = Used(jobs)
       /\ ~(w.cron /\ w.found = 0) /\ w.found \notin Live(jobs) => jobs' = jobs
  <2>1. ASSUME w.cron, w.found = 0
        PROVE  /\ Live(jobs') = Live(jobs) \union {n} /\ Used(jobs') = Used(jobs) \union {n}
               /\ jobs'[n] = row
    <3>1. jobs' = [jobs EXCEPT ![n] = row]
      BY <1>7, <1>8, <2>1
    <3>2. /\ Live([jobs EXCEPT ![n] = row]) =
              IF row \in {Unused, Gone} THEN Live(jobs) \ {n} ELSE Live(jobs) \union {n}
          /\ Used([jobs EXCEPT ![n] = row]) =
              IF row = Unused THEN Used(jobs) \ {n} ELSE Used(jobs) \union {n}
      BY <1>5, <1>10, Put
    <3> QED BY <1>5, <1>9, <1>10, <2>1, <3>1, <3>2
  <2>2. ASSUME w.cron, w.found \in Live(jobs)
        PROVE  Live(jobs') = Live(jobs) /\ Used(jobs') = Used(jobs) /\ jobs'[w.found] = row
    <3>1. jobs' = [jobs EXCEPT ![w.found] = row] /\ w.found \in Ids /\ w.found \in Used(jobs)
      BY <1>7, <1>8, <2>2, LiveIs
    <3>2. /\ Live([jobs EXCEPT ![w.found] = row]) =
              IF row \in {Unused, Gone} THEN Live(jobs) \ {w.found} ELSE Live(jobs) \union {w.found}
          /\ Used([jobs EXCEPT ![w.found] = row]) =
              IF row = Unused THEN Used(jobs) \ {w.found} ELSE Used(jobs) \union {w.found}
      BY <1>10, <3>1, Put
    <3> QED BY <1>9, <1>10, <2>2, <3>1, <3>2
  <2>3. ASSUME ~w.cron, w.found \in Live(jobs)
        PROVE  Live(jobs') = Live(jobs) \ {w.found} /\ Used(jobs') = Used(jobs)
    <3>1. jobs' = [jobs EXCEPT ![w.found] = Gone] /\ w.found \in Ids /\ w.found \in Used(jobs)
      BY <1>7, <1>8, <2>3, LiveIs
    <3>2. Gone # Unused
      BY RowIs
    <3>3. /\ Live([jobs EXCEPT ![w.found] = Gone]) =
              IF Gone \in {Unused, Gone} THEN Live(jobs) \ {w.found} ELSE Live(jobs) \union {w.found}
          /\ Used([jobs EXCEPT ![w.found] = Gone]) =
              IF Gone = Unused THEN Used(jobs) \ {w.found} ELSE Used(jobs) \union {w.found}
      BY <1>10, <3>1, Put
    <3> QED BY <2>3, <3>1, <3>2, <3>3
  <2> QED BY <1>8, <2>1, <2>2, <2>3
<1>13. Typed'
  <2>1. Tables' /\ Keys'
    BY <1>1, <1>2, <1>11 DEF Typed, Tables, Keys, Live
  <2>2. Counts'
    BY <1>1, <1>2 DEF Typed, Counts
  <2> QED BY <1>4, <2>1, <2>2 DEF Typed, Turns
<1>14. TypeOK'
  BY <1>13, TypesNext
<1>15. Room'
  <2>1. starts \in Int /\ Fits(Used(jobs), WillSchedule, starts)
    BY <1>1 DEF Typed, Counts, DefsAssumption, Room
  <2>2. WillSchedule' \subseteq WillSchedule \ {t} /\ t \in WillSchedule /\ WillInsert' \subseteq WillInsert
    BY <1>2, <1>4 DEF WillSchedule, WillInsert, Turns, w
  <2>3. Used(jobs') \subseteq Used(jobs) \union {n}
    BY <1>8, <1>12
  <2>4. Fits(Used(jobs'), WillSchedule', starts)
    BY <1>5, <2>1, <2>2, <2>3, FitsTaken, IdsFinite
  <2>5. Fits(Used(insts), WillInsert', starts)
    BY <2>1, <2>2, FitsLess, IdsFinite DEF Room
  <2> QED BY <1>2, <2>4, <2>5 DEF Room
<1>16. /\ Fresh' /\ ConcurrencyBounded'
       /\ w.pc # "record" /\ def.state # "none"
  <2>1. Fresh'
    BY <1>2, <1>4, FreshTurns
  <2>2. ConcurrencyBounded'
    BY <1>2, <1>4, BoundTurns
  <2> QED BY <1>2, <1>3, <2>1, <2>2 DEF Unborn, w
<1>17. RunsTraced' /\ Unborn' /\ Written'
  <2>1. RunsTraced'
    BY <1>2, <1>4, <1>16, TracedTurns DEF At, w
  <2>2. Written'
    BY <1>4, WrittenTurns
  <2> QED BY <1>2, <1>16, <2>1, <2>2 DEF Unborn
<1>18. Calm'
  <2> SUFFICES ASSUME ~overlapped
               PROVE  /\ OneMan(thread') /\ FewRows(def, engines, jobs')
                      /\ AtWork(def, engines, jobs', thread')
                      /\ Agreed(def, engines, jobs', thread', stale')
    BY <1>2 DEF Calm
  <2>1. /\ OneMan(thread) /\ FewRows(def, engines, jobs)
        /\ AtWork(def, engines, jobs, thread)
    BY DEF Calm
  <2>2. t \in Mans(thread)
    BY <1>2 DEF Mans, ManPcs, w
  <2>3. Mans(thread) = {t}
    BY <2>1, <2>2 DEF OneMan
  <2>4. Current(w, def, engines, jobs) /\ def.state = "exists"
    BY <2>1, <2>2 DEF AtWork, w
  <2>5. /\ IF w.found = 0 THEN Live(jobs) = {} ELSE Live(jobs) = {w.found}
        /\ w.op = "save" => CurrentSave(w, def, engines)
        /\ w.op # "save" => w.op = "delete" /\ CurrentDelete(w, def) /\ ~w.cron
    BY <1>2, <1>3, <2>4 DEF Current, SaveWork, CurrentDelete
  <2>6. IF w.cron THEN \E j \in Ids : Live(jobs') = {j} /\ jobs'[j] = row
        ELSE Live(jobs') = {}
    BY <1>5, <1>6, <1>7, <1>12, <2>5
  <2>7. FewRows(def, engines, jobs')
    BY <2>1, <2>4, <2>6 DEF FewRows
  <2>8. CASE w.op = "save"
    <3>1. Mans(thread') = {}
      BY <1>4, <2>3, <2>8, MansTurn DEF ManPcs
    <3>2. Says(def, engines, jobs')
      BY <2>5, <2>6, <2>8 DEF Says, CurrentSave, row
    <3> QED BY <2>7, <3>1, <3>2 DEF OneMan, AtWork, Agreed
  <2>9. CASE w.op # "save"
    <3>1. PICK y \in SaveWork : Turns(t, y) /\ y.pc = "engine" /\ y.op = w.op
                                /\ y.engine = w.engine /\ y.cron = w.cron
      BY <1>4, <2>9
    <3>2. Mans(thread') = {t} /\ thread'[t] = y
      BY <2>3, <3>1, MansTurn DEF ManPcs, Turns
    <3>3. Current(y, def, engines, jobs')
      BY <1>2, <2>5, <2>6, <2>9, <3>1 DEF Current, CurrentDelete
    <3> QED BY <2>4, <2>7, <3>1, <3>2, <3>3 DEF OneMan, AtWork, Agreed
  <2> QED BY <2>8, <2>9
<1> QED BY <1>14, <1>15, <1>16, <1>17, <1>18

LEMMA DeleteKeeps ==
  ASSUME DefsAssumption, IInv, NEW t \in Threads, Delete(t)
  PROVE  IInv'
<1> USE DEF IInv
<1>1. Typed
  BY Types
<1> DEFINE x == Deleting("lookup")
<1>2. /\ def.state = "exists" /\ Start(t, x) /\ overlapped' = (overlapped \/ ~Quiet)
      /\ UNCHANGED <<def, engines, jobs, insts, runs, stale>>
  BY DEF Delete, Manage, rows
<1>3. /\ x \in SaveWork /\ x.pc = "lookup" /\ x.op = "delete" /\ ~x.cron /\ x.engine = def.engine
  BY <1>1 DEF Deleting, SaveWork, Typed, Tables, DefRow
<1> HIDE DEF x
<1>4. x \in ThreadRows /\ x.pc \in ManPcs
  BY <1>3 DEF ThreadRows, ManPcs
<1>5. /\ Turns(t, x) /\ thread[t] = Idle
      /\ starts' \in 0..MaxStarts /\ UNCHANGED <<events, untraced>>
      /\ Room' /\ Fresh' /\ ConcurrencyBounded'
  BY <1>2, <1>3, <1>4, Begins
<1>6. Typed'
  BY <1>1, <1>2, <1>5 DEF Typed, Tables, Keys, Counts, Turns, Live
<1>7. TypeOK' /\ Unborn'
  BY <1>2, <1>6, TypesNext DEF Unborn
<1>8. Written' /\ RunsTraced'
  <2>1. Written'
    BY <1>3, <1>5, WrittenTurns
  <2>2. RunsTraced'
    BY <1>2, <1>5, TracedTurns DEF At, Idle
  <2> QED BY <2>1, <2>2
<1>9. Calm'
  <2> SUFFICES ASSUME ~overlapped'
               PROVE  /\ OneMan(thread') /\ FewRows(def, engines, jobs)
                      /\ AtWork(def, engines, jobs, thread')
                      /\ Agreed(def, engines, jobs, thread', stale)
    BY <1>2 DEF Calm
  <2>1. ~overlapped /\ Mans(thread') = {t} /\ thread'[t] = x
    BY <1>2, <1>4, <1>5, MansBegin
  <2>2. FewRows(def, engines, jobs)
    BY <2>1 DEF Calm
  <2>3. Current(x, def, engines, jobs)
    BY <1>3 DEF Current, CurrentDelete
  <2> QED BY <1>2, <1>3, <2>1, <2>2, <2>3 DEF OneMan, AtWork, Agreed
<1> QED BY <1>5, <1>7, <1>8, <1>9

\* What the removal of an engine row takes with it.
LEMMA Removes ==
  ASSUME DefsAssumption, Typed, NEW e \in Live(engines), RemoveEngineRow(e)
  PROVE  /\ engines' \in [Ids -> EngineRows] /\ Live(engines') = Live(engines) \ {e}
         /\ insts' \in [Ids -> InstRows]
         /\ Live(insts') = {i \in Live(insts) : insts[i].engine # e}
         /\ \A i \in Live(insts') : insts'[i] = insts[i]
         /\ Used(insts') = Used(insts)
         /\ def' \in DefRow
         /\ def'.state = def.state /\ def'.cron = def.cron /\ def'.enabled = def.enabled
         /\ def'.engine = IF def.engine = e THEN 0 ELSE def.engine
         /\ def'.engine = 0 \/ def'.engine \in Live(engines')
         /\ \A i \in Live(insts') : insts'[i].engine \in Live(engines')
<1>1. /\ engines' = [engines EXCEPT ![e] = Gone]
      /\ insts' = [i \in Ids |-> IF i \in Live(insts) /\ insts[i].engine = e THEN Gone ELSE insts[i]]
      /\ def' = IF def.engine = e THEN [def EXCEPT !.engine = 0] ELSE def
  BY DEF RemoveEngineRow
<1>2. Gone \in EngineRows /\ Gone \in InstRows /\ Gone # Unused /\ e \in Ids
  BY RowIs, LiveIs DEF EngineRows, InstRows
<1>3. engines' \in [Ids -> EngineRows] /\ Live(engines') = Live(engines) \ {e}
  <2>1. engines \in [Ids -> EngineRows]
    BY DEF Typed, Tables
  <2>2. Live([engines EXCEPT ![e] = Gone]) =
          IF Gone \in {Unused, Gone} THEN Live(engines) \ {e} ELSE Live(engines) \union {e}
    BY <1>2, <2>1, Put
  <2> QED BY <1>1, <1>2, <2>1, <2>2
<1>4. insts' \in [Ids -> InstRows]
  BY <1>1, <1>2 DEF Typed, Tables
<1>5. /\ Live(insts') = {i \in Live(insts) : insts[i].engine # e}
      /\ \A i \in Live(insts') : insts'[i] = insts[i]
      /\ Used(insts') = Used(insts)
  BY <1>1, <1>2 DEF Live, Used
<1>6. /\ def' \in DefRow
      /\ def'.state = def.state /\ def'.cron = def.cron /\ def'.enabled = def.enabled
      /\ def'.engine = IF def.engine = e THEN 0 ELSE def.engine
  BY <1>1 DEF Typed, Tables, DefRow
<1>7. def'.engine = 0 \/ def'.engine \in Live(engines')
  BY <1>3, <1>6 DEF Typed, Keys
<1>8. \A i \in Live(insts') : insts'[i].engine \in Live(engines')
  BY <1>3, <1>5 DEF Typed, Keys
<1> QED BY <1>3, <1>4, <1>5, <1>6, <1>7, <1>8

\* Instances that are removed take nothing from what holds of the others.
LEMMA RemovesInstances ==
  ASSUME DefsAssumption, Fresh, ConcurrencyBounded, RunsTraced,
         Live(insts') \subseteq Live(insts), \A i \in Live(insts') : insts'[i] = insts[i],
         Used(insts') = Used(insts), UNCHANGED <<runs, untraced>>, def'.state = def.state,
         \A s \in Threads : \/ thread'[s] = thread[s]
                            \/ thread[s].pc # "record" /\ thread'[s].pc \notin {"record", "insert"}
  PROVE  Fresh' /\ ConcurrencyBounded' /\ RunsTraced'
<1>1. \A s \in Threads : At(s, "record")' <=> At(s, "record")
  BY DEF At
<1>2. \A s \in Threads : At(s, "record") => thread'[s] = thread[s]
  BY DEF At
<1>3. \A i \in Ids : insts'[i] = Unused <=> insts[i] = Unused
  BY DEF Used
<1>4. Fresh'
  <2>1. \A s \in Threads : At(s, "record")' => thread'[s].inst \in Used(insts')
    BY <1>1, <1>2 DEF Fresh
  <2> QED BY <1>3, <2>1 DEF Fresh
<1>5. ConcurrencyBounded'
  <2>1. \A e \in Ids : StartedOf(e)' \subseteq StartedOf(e)
    BY DEF StartedOf, RunningOf
  <2>2. \A e \in Ids : Inserting(e)' \subseteq Inserting(e)
    BY DEF Inserting, At
  <2> QED BY <2>1, <2>2, BoundStays
<1>6. RunsTraced'
  <2> SUFFICES ASSUME NEW i \in Live(insts')
               PROVE  insts'[i].by # "raw" /\ def'.state = "exists" =>
                        \/ runs[i] # "none" \/ i \in untraced
                        \/ \E s \in Threads : At(s, "record")' /\ thread'[s].inst = i
    BY DEF RunsTraced
  <2> QED BY <1>1, <1>2 DEF RunsTraced
<1> QED BY <1>4, <1>5, <1>6

LEMMA DeleteEngineKeeps ==
  ASSUME DefsAssumption, IInv, NEW t \in Threads, DeleteEngine(t)
  PROVE  IInv'
<1> USE DEF IInv
<1>1. Typed
  BY Types
<1> DEFINE e == thread[t].engine
<1>2. /\ thread[t].pc = "engine" /\ Goto(t, "def")
      /\ IF e \in Live(engines) THEN RemoveEngineRow(e) ELSE UNCHANGED <<def, engines, insts>>
      /\ UNCHANGED <<jobs, runs>> /\ UNCHANGED <<starts, events, stale, overlapped, untraced>>
  BY DEF DeleteEngine, At
<1>3. thread[t] \in SaveWork /\ thread \in [Threads -> ThreadRows] /\ thread[t] # Idle
  BY <1>1, <1>2, WorkIs DEF Typed, Idle
<1>4. PICK x \in ThreadRows :
        Turns(t, x) /\ x.pc = "def" /\ x.op = thread[t].op /\ x.cron = thread[t].cron
  BY <1>2, <1>3, GoesTo
<1>5. /\ engines' \in [Ids -> EngineRows] /\ Live(engines') = Live(engines) \ {e}
      /\ insts' \in [Ids -> InstRows]
      /\ Live(insts') \subseteq Live(insts) /\ \A i \in Live(insts') : insts'[i] = insts[i]
      /\ Used(insts') = Used(insts)
      /\ def' \in DefRow /\ def'.state = def.state
      /\ def'.engine = IF e \in Live(engines) /\ def.engine = e THEN 0 ELSE def.engine
      /\ def'.engine = 0 \/ def'.engine \in Live(engines')
      /\ \A i \in Live(insts') : insts'[i].engine \in Live(engines')
  <2>1. CASE e \in Live(engines)
    <3>1. RemoveEngineRow(e)
      BY <1>2, <2>1
    <3> HIDE DEF e
    <3> QED BY <1>1, <2>1, <3>1, Removes
  <2>2. CASE e \notin Live(engines)
    <3>1. UNCHANGED <<def, engines, insts>>
      BY <1>2, <2>2
    <3> QED BY <1>1, <2>2, <3>1 DEF Typed, Tables, Keys, Live, Used
  <2> QED BY <2>1, <2>2
<1> HIDE DEF e
<1>6. Typed'
  <2>1. Tables' /\ Keys'
    BY <1>1, <1>2, <1>5 DEF Typed, Tables, Keys
  <2>2. Counts'
    BY <1>1, <1>2 DEF Typed, Counts
  <2> QED BY <1>4, <2>1, <2>2 DEF Typed, Turns
<1>7. def.state # "none"
  BY <1>3 DEF Unborn
<1>8. TypeOK' /\ Unborn'
  BY <1>5, <1>6, <1>7, TypesNext DEF Unborn
<1>9. Room'
  BY <1>2, <1>4, <1>5, RoomStays DEF Used
<1>10. Fresh' /\ ConcurrencyBounded' /\ RunsTraced'
  <2>1. \A s \in Threads : \/ thread'[s] = thread[s]
                           \/ thread[s].pc # "record" /\ thread'[s].pc \notin {"record", "insert"}
    BY <1>2, <1>4 DEF Turns
  <2> QED BY <1>2, <1>5, <2>1, RemovesInstances
<1>11. Written'
  BY <1>4, WrittenTurns
<1>12. Calm'
  <2> SUFFICES ASSUME ~overlapped
               PROVE  /\ OneMan(thread') /\ FewRows(def', engines', jobs)
                      /\ AtWork(def', engines', jobs, thread')
                      /\ Agreed(def', engines', jobs, thread', stale)
    BY <1>2 DEF Calm
  <2>1. /\ OneMan(thread) /\ FewRows(def, engines, jobs)
        /\ AtWork(def, engines, jobs, thread)
    BY DEF Calm
  <2>2. t \in Mans(thread)
    BY <1>2 DEF Mans, ManPcs
  <2>3. Mans(thread') = {t} /\ thread'[t] = x
    BY <1>4, <2>1, <2>2, MansTurn DEF OneMan, ManPcs, Turns
  <2>4. Current(thread[t], def, engines, jobs) /\ def.state = "exists"
    BY <2>1, <2>2 DEF AtWork
  <2>5. /\ thread[t].op = "delete" /\ ~thread[t].cron /\ e = def.engine /\ Live(jobs) = {}
    BY <1>2, <2>4 DEF Current, CurrentDelete, e
  <2>6. def'.engine = 0 /\ Live(engines') = {}
    BY <1>1, <1>5, <2>1, <2>5 DEF FewRows, Typed, Keys
  <2>7. FewRows(def', engines', jobs)
    BY <2>5, <2>6 DEF FewRows
  <2>8. Current(x, def', engines', jobs)
    BY <1>4, <2>5, <2>6 DEF Current, CurrentDelete
  <2> QED BY <1>4, <1>5, <2>3, <2>4, <2>7, <2>8 DEF OneMan, AtWork, Agreed
<1> QED BY <1>8, <1>9, <1>10, <1>11, <1>12

LEMMA DeleteDefKeeps ==
  ASSUME DefsAssumption, IInv, NEW t \in Threads, DeleteDef(t)
  PROVE  IInv'
<1> USE DEF IInv
<1>1. Typed
  BY Types
<1>2. /\ thread[t].pc = "def" /\ End(t)
      /\ def' = [def EXCEPT !.state = "deleted", !.engine = 0]
      /\ runs' = [i \in Ids |-> "none"]
      /\ UNCHANGED <<engines, jobs, insts>> /\ UNCHANGED <<starts, events, stale, overlapped, untraced>>
  BY DEF DeleteDef, At
<1>3. Turns(t, Idle) /\ Idle.pc = "idle"
  BY <1>1, <1>2, Ends DEF Typed, Idle
<1>4. def' \in DefRow /\ def'.state = "deleted" /\ def'.engine = 0
  BY <1>1, <1>2 DEF Typed, Tables, DefRow
<1>5. Typed'
  <2>1. Tables' /\ Keys'
    BY <1>1, <1>2, <1>4 DEF Typed, Tables, Keys, Live
  <2>2. Counts'
    BY <1>1, <1>2 DEF Typed, Counts
  <2> QED BY <1>3, <2>1, <2>2 DEF Typed, Turns
<1>6. TypeOK' /\ Unborn'
  BY <1>4, <1>5, TypesNext DEF Unborn
<1>7. Room'
  BY <1>2, <1>3, RoomStays DEF Used
<1>8. ConcurrencyBounded' /\ Written'
  <2>1. ConcurrencyBounded'
    BY <1>2, <1>3, BoundTurns
  <2>2. Written'
    BY <1>3, WrittenTurns
  <2> QED BY <2>1, <2>2
<1>9. Fresh'
  <2>1. \A s \in Threads : At(s, "record")' => thread'[s].inst \in Used(insts)
    BY <1>3 DEF Fresh, Turns, At
  <2> QED BY <1>2, <2>1 DEF Fresh, Used
<1>10. RunsTraced'
  BY <1>2, <1>4 DEF RunsTraced, Live
<1>11. Calm'
  <2> SUFFICES ASSUME ~overlapped
               PROVE  /\ OneMan(thread') /\ FewRows(def', engines, jobs)
                      /\ AtWork(def', engines, jobs, thread')
                      /\ Agreed(def', engines, jobs, thread', stale)
    BY <1>2 DEF Calm
  <2>1. /\ OneMan(thread) /\ FewRows(def, engines, jobs)
        /\ AtWork(def, engines, jobs, thread)
    BY DEF Calm
  <2>2. t \in Mans(thread)
    BY <1>2 DEF Mans, ManPcs
  <2>3. Mans(thread') = {}
    BY <1>3, <2>1, <2>2, MansTurn DEF OneMan, ManPcs
  <2>4. def.engine = 0 /\ Live(jobs) = {}
    BY <1>2, <2>1, <2>2 DEF AtWork, Current
  <2> QED BY <1>4, <2>1, <2>3, <2>4 DEF OneMan, AtWork, Agreed, FewRows
<1> QED BY <1>6, <1>7, <1>8, <1>9, <1>10, <1>11

-----------------------------------------------------------------------------
\* Runs of the workflow page.
LEMMA RunKeeps ==
  ASSUME DefsAssumption, IInv, NEW t \in Threads, Run(t)
  PROVE  IInv'
<1> USE DEF IInv
<1>1. Typed
  BY Types
<1> DEFINE x == Running("run", "ask", 0)
<1>2. /\ def.state = "exists" /\ Start(t, x) /\ overlapped' = (overlapped \/ ~Quiet)
      /\ UNCHANGED <<def, engines, jobs, insts, runs, stale>>
  BY DEF Run, Manage, rows
<1>3. x \in RunWork /\ x.pc = "ask" /\ x.op = "run"
  BY DEF Running, RunWork
<1> HIDE DEF x
<1>4. x \in ThreadRows /\ x.pc \in ManPcs
  BY <1>3 DEF ThreadRows, ManPcs
<1>5. /\ Turns(t, x) /\ thread[t] = Idle
      /\ starts' \in 0..MaxStarts /\ UNCHANGED <<events, untraced>>
      /\ Room' /\ Fresh' /\ ConcurrencyBounded'
  BY <1>2, <1>3, <1>4, Begins
<1>6. Typed'
  BY <1>1, <1>2, <1>5 DEF Typed, Tables, Keys, Counts, Turns, Live
<1>7. TypeOK' /\ Unborn'
  BY <1>2, <1>6, TypesNext DEF Unborn
<1>8. Written' /\ RunsTraced'
  <2>1. Written'
    BY <1>3, <1>5, WrittenTurns
  <2>2. RunsTraced'
    BY <1>2, <1>5, TracedTurns DEF At, Idle
  <2> QED BY <2>1, <2>2
<1>9. Calm'
  <2> SUFFICES ASSUME ~overlapped'
               PROVE  /\ OneMan(thread') /\ FewRows(def, engines, jobs)
                      /\ AtWork(def, engines, jobs, thread')
                      /\ Agreed(def, engines, jobs, thread', stale)
    BY <1>2 DEF Calm
  <2>1. ~overlapped /\ Mans(thread) = {} /\ Mans(thread') = {t} /\ thread'[t] = x
    BY <1>2, <1>4, <1>5, MansBegin
  <2>2. FewRows(def, engines, jobs) /\ Agreed(def, engines, jobs, thread, stale)
    BY <2>1 DEF Calm
  <2>3. Current(x, def, engines, jobs)
    BY <1>3 DEF Current
  <2> QED BY <1>2, <1>3, <2>1, <2>2, <2>3 DEF OneMan, AtWork, Agreed
<1> QED BY <1>5, <1>7, <1>8, <1>9

LEMMA AskRunKeeps ==
  ASSUME DefsAssumption, IInv, NEW t \in Threads, AskRun(t)
  PROVE  IInv'
<1> USE DEF IInv
<1>1. Typed
  BY Types
<1> DEFINE y == [thread[t] EXCEPT !.pc = "write", !.enabled = def.enabled, !.engine = def.engine]
<1>2. /\ thread[t].pc = "ask"
      /\ IF def.state = "exists" THEN thread' = [thread EXCEPT ![t] = y] ELSE End(t)
      /\ UNCHANGED <<def, engines, jobs, insts, runs>>
      /\ UNCHANGED <<starts, events, stale, overlapped, untraced>>
  BY DEF AskRun, rows, At
<1>3. thread[t] \in RunWork /\ thread \in [Threads -> ThreadRows] /\ thread[t] # Idle
  BY <1>1, <1>2, WorkIs DEF Typed, Idle
<1>4. /\ y \in RunWork /\ y.pc = "write" /\ y.op = thread[t].op
      /\ y.enabled = def.enabled /\ y.engine = def.engine
  BY <1>1, <1>3 DEF RunWork, Typed, Tables, DefRow
<1> HIDE DEF y
<1>5. PICK x \in ThreadRows : /\ Turns(t, x)
                              /\ IF def.state = "exists" THEN x = y ELSE x = Idle
  <2>1. CASE def.state = "exists"
    <3>1. y \in ThreadRows /\ thread' = [thread EXCEPT ![t] = y]
      BY <1>2, <1>4, <2>1 DEF ThreadRows
    <3>2. Turns(t, y)
      BY <1>3, <3>1, TurnsTo
    <3> QED BY <2>1, <3>1, <3>2
  <2>2. CASE def.state # "exists"
    <3>1. Turns(t, Idle) /\ Idle \in ThreadRows
      BY <1>2, <1>3, <2>2, Ends DEF ThreadRows
    <3> QED BY <2>2, <3>1
  <2> QED BY <2>1, <2>2
<1>6. x.pc \in {"write", "idle"}
  BY <1>4, <1>5 DEF Idle
<1>7. Typed'
  BY <1>1, <1>2, <1>5 DEF Typed, Tables, Keys, Counts, Turns, Live
<1>8. TypeOK'
  BY <1>7, TypesNext
<1>9. Room' /\ Fresh' /\ Written' /\ ConcurrencyBounded' /\ RunsTraced' /\ Unborn'
  BY <1>2, <1>3, <1>5, <1>6, Steps DEF At, Used
<1>10. Calm'
  <2> SUFFICES ASSUME ~overlapped
               PROVE  /\ OneMan(thread') /\ FewRows(def, engines, jobs)
                      /\ AtWork(def, engines, jobs, thread')
                      /\ Agreed(def, engines, jobs, thread', stale)
    BY <1>2 DEF Calm
  <2>1. /\ OneMan(thread) /\ FewRows(def, engines, jobs)
        /\ AtWork(def, engines, jobs, thread) /\ Agreed(def, engines, jobs, thread, stale)
    BY DEF Calm
  <2>2. t \in Mans(thread)
    BY <1>2 DEF Mans, ManPcs
  <2>3. Mans(thread) = {t}
    BY <2>1, <2>2 DEF OneMan
  <2>4. Current(thread[t], def, engines, jobs) /\ def.state = "exists"
    BY <2>1, <2>2 DEF AtWork
  <2>5. x = y
    BY <1>5, <2>4
  <2>6. Mans(thread') = {t} /\ thread'[t] = x
    BY <1>4, <1>5, <2>3, <2>5, MansTurn DEF ManPcs, Turns
  <2>7. Current(x, def, engines, jobs)
    <3>1. x.op \notin {"save", "delete"}
      BY <1>3, <1>4, <2>5 DEF RunWork
    <3> QED BY <1>4, <2>5, <3>1 DEF Current
  <2>8. Agreed(def, engines, jobs, thread', stale)
    BY <1>2, <2>1, <2>3 DEF Agreed
  <2> QED BY <2>1, <2>4, <2>6, <2>7, <2>8 DEF OneMan, AtWork
<1> QED BY <1>8, <1>9, <1>10

LEMMA WriteRunKeeps ==
  ASSUME DefsAssumption, IInv, NEW t \in Threads, WriteRun(t)
  PROVE  IInv'
<1> USE DEF IInv
<1>1. Typed
  BY Types
<1> DEFINE old == thread[t].engine
           enabled == thread[t].enabled
<1>2. PICK e \in Ids :
        /\ WriteThrough(def, old, enabled, e)
        /\ thread' = [thread EXCEPT ![t] = [@ EXCEPT !.pc = "admit", !.engine = e]]
  BY DEF WriteRun
<1>3. /\ thread[t].pc = "write"
      /\ UNCHANGED <<jobs, insts, runs>> /\ UNCHANGED <<starts, events, stale, overlapped, untraced>>
  BY DEF WriteRun, At
<1>4. /\ thread[t] \in RunWork /\ thread \in [Threads -> ThreadRows] /\ thread[t] # Idle
      /\ old \in Ids \union {0} /\ enabled \in BOOLEAN
  <2>1. thread[t] \in RunWork /\ thread \in [Threads -> ThreadRows] /\ thread[t] # Idle
    BY <1>1, <1>3, WorkIs DEF Typed, Idle
  <2> QED BY <2>1 DEF RunWork
<1> DEFINE x == [thread[t] EXCEPT !.pc = "admit", !.engine = e]
<1>5. x \in RunWork /\ x.pc = "admit" /\ thread' = [thread EXCEPT ![t] = x]
  BY <1>2, <1>4 DEF RunWork
<1> HIDE DEF x
<1>6. Turns(t, x) /\ x \in ThreadRows
  <2>1. x \in ThreadRows
    BY <1>5 DEF ThreadRows
  <2> QED BY <1>4, <1>5, <2>1, TurnsTo
<1>7. def \in DefRow /\ (def.engine = 0 \/ def.engine \in Live(engines))
  BY <1>1 DEF Typed, Tables, Keys
<1> HIDE DEF old, enabled
<1>8. /\ engines' \in [Ids -> EngineRows] /\ def' \in DefRow
      /\ Live(engines') = Live(engines) \union {e}
      /\ engines'[e].state = Status(enabled)
      /\ def'.state = def.state /\ def'.cron = def.cron /\ def'.enabled = def.enabled
      /\ def'.engine = 0 \/ def'.engine \in Live(engines')
      /\ def.state = "exists" /\ def.engine = old => def'.engine = e
      /\ old \in Live(engines) => e = old
  BY <1>1, <1>2, <1>4, <1>7, Writes
<1>9. Typed'
  <2>1. Tables' /\ Keys'
    <3>1. \A i \in Live(insts) : insts[i].engine \in Live(engines')
      BY <1>1, <1>8 DEF Typed, Keys
    <3> QED BY <1>1, <1>3, <1>8, <3>1 DEF Typed, Tables, Keys, Live
  <2>2. Counts'
    BY <1>1, <1>3 DEF Typed, Counts
  <2> QED BY <1>6, <2>1, <2>2 DEF Typed, Turns
<1>10. TypeOK'
  BY <1>9, TypesNext
<1>11. Room' /\ Fresh' /\ Written' /\ ConcurrencyBounded' /\ RunsTraced' /\ Unborn'
  BY <1>3, <1>4, <1>5, <1>6, <1>8, Steps DEF At, Used
<1>12. Calm'
  <2> SUFFICES ASSUME ~overlapped
               PROVE  /\ OneMan(thread') /\ FewRows(def', engines', jobs)
                      /\ AtWork(def', engines', jobs, thread')
                      /\ Agreed(def', engines', jobs, thread', stale)
    BY <1>3 DEF Calm
  <2>1. /\ OneMan(thread) /\ FewRows(def, engines, jobs)
        /\ AtWork(def, engines, jobs, thread) /\ Agreed(def, engines, jobs, thread, stale)
    BY DEF Calm
  <2>2. t \in Mans(thread)
    BY <1>3 DEF Mans, ManPcs
  <2>3. Mans(thread) = {t}
    BY <2>1, <2>2 DEF OneMan
  <2>4. def.state = "exists" /\ enabled = def.enabled /\ old = def.engine
    BY <1>3, <2>1, <2>2 DEF AtWork, Current, old, enabled
  <2>5. Mans(thread') = {}
    BY <1>5, <1>6, <2>3, MansTurn DEF ManPcs
  <2>6. def'.engine = e
    BY <1>8, <2>4
  <2>7. FewRows(def', engines', jobs)
    BY <1>7, <1>8, <2>1, <2>4, <2>6 DEF FewRows
  <2>8. stale \/ Says(def, engines, jobs)
    BY <1>3, <2>1, <2>3, <2>4 DEF Agreed
  <2>9. Says(def, engines, jobs) => Says(def', engines', jobs)
    <3> SUFFICES ASSUME Says(def, engines, jobs)
                 PROVE  Says(def', engines', jobs)
      OBVIOUS
    <3>1. def.engine # 0 /\ def.engine \in Live(engines)
      BY <1>7 DEF Says
    <3>2. e = def.engine
      BY <1>8, <2>4, <3>1
    <3> QED BY <1>8, <2>4, <2>6, <3>1, <3>2 DEF Says
  <2> QED BY <1>8, <2>5, <2>7, <2>8, <2>9 DEF OneMan, AtWork, Agreed
<1> QED BY <1>10, <1>11, <1>12

-----------------------------------------------------------------------------
\* Runs of the cron job and of the automation page, and listings.
LEMMA StartKeeps ==
  ASSUME DefsAssumption, IInv, NEW t \in Threads, NEW x \in ThreadRows, Start(t, x),
         x.pc \in {"admit", "look"},
         UNCHANGED <<def, engines, jobs, insts, runs, stale, overlapped>>, def.state # "none"
  PROVE  IInv'
<1> USE DEF IInv
<1>1. Typed
  BY Types
<1>2. /\ Turns(t, x) /\ thread[t] = Idle
      /\ starts' \in 0..MaxStarts /\ UNCHANGED <<events, untraced>>
      /\ Room' /\ Fresh' /\ ConcurrencyBounded'
  BY Begins
<1>3. Typed'
  BY <1>1, <1>2 DEF Typed, Tables, Keys, Counts, Turns, Live
<1>4. TypeOK' /\ Unborn'
  BY <1>3, TypesNext DEF Unborn
<1>5. Written' /\ RunsTraced'
  <2>1. Written'
    BY <1>2, WrittenTurns
  <2>2. RunsTraced'
    BY <1>2, TracedTurns DEF At, Idle
  <2> QED BY <2>1, <2>2
<1>6. Calm'
  BY <1>2, CalmAside DEF Idle, ManPcs
<1> QED BY <1>2, <1>4, <1>5, <1>6

LEMMA FireKeeps ==
  ASSUME DefsAssumption, IInv, NEW t \in Threads, NEW k \in Ids, Fire(t, k) \/ RunRaw(t, k)
  PROVE  IInv'
<1>1. def.state # "none"
  BY DEF Fire, RunRaw, IInv, Unborn
<1>2. PICK op \in {"fire", "raw"}, e \in Ids :
        Start(t, Running(op, "admit", e)) /\ UNCHANGED <<rows, stale, overlapped>>
  <2>1. Fire(t, k) => jobs[k].engine \in Ids
    BY Types, LiveIs, RowIs DEF Fire, IInv, Typed, Tables
  <2> QED BY <2>1 DEF Fire, RunRaw
<1>3. Running(op, "admit", e) \in ThreadRows /\ Running(op, "admit", e).pc = "admit"
  BY DEF Running, RunWork, ThreadRows
<1> QED BY <1>1, <1>2, <1>3, StartKeeps DEF rows

LEMMA ListRunsKeeps ==
  ASSUME DefsAssumption, IInv, NEW t \in Threads, NEW k \in Ids, ListRuns(t, k)
  PROVE  IInv'
<1> DEFINE x == [op |-> "list", pc |-> "look", inst |-> k, status |-> "running"]
<1>1. x \in ThreadRows /\ x.pc = "look"
  BY DEF ThreadRows, ListWork, InstStatus
<1>2. Start(t, x) /\ UNCHANGED <<rows, stale, overlapped>> /\ def.state # "none"
  BY DEF ListRuns
<1> HIDE DEF x
<1> QED BY <1>1, <1>2, StartKeeps DEF rows

LEMMA AdmitKeeps ==
  ASSUME DefsAssumption, IInv, NEW t \in Threads, Admit(t)
  PROVE  IInv'
<1> USE DEF IInv
<1>1. Typed
  BY Types
<1> DEFINE e == thread[t].engine
           free == Active(e) /\ Below(Cardinality(RunningOf(e)))
<1>2. /\ thread[t].pc = "admit"
      /\ IF free THEN Goto(t, "insert") ELSE End(t)
      /\ UNCHANGED <<def, engines, jobs, insts, runs>>
      /\ UNCHANGED <<starts, events, stale, overlapped, untraced>>
  BY DEF Admit, At, rows
<1>3. thread[t] \in RunWork /\ thread \in [Threads -> ThreadRows] /\ thread[t] # Idle
  BY <1>1, <1>2, WorkIs DEF Typed, Idle
<1> HIDE DEF free, e
<1>4. PICK x \in ThreadRows :
        /\ Turns(t, x)
        /\ IF free THEN x.pc = "insert" /\ x.engine = e ELSE x = Idle
  <2>1. CASE free
    <3>1. Goto(t, "insert")
      BY <1>2, <2>1
    <3> QED BY <1>3, <2>1, <3>1, GoesTo DEF e
  <2>2. CASE ~free
    <3>1. Turns(t, Idle) /\ Idle \in ThreadRows
      BY <1>2, <1>3, <2>2, Ends DEF ThreadRows
    <3> QED BY <2>2, <3>1
  <2> QED BY <2>1, <2>2
<1>5. x.pc \in {"insert", "idle"}
  BY <1>4 DEF Idle
<1>6. Typed'
  BY <1>1, <1>2, <1>4 DEF Typed, Tables, Keys, Counts, Turns, Live
<1>7. def.state # "none"
  BY <1>3 DEF Unborn
<1>8. TypeOK' /\ Unborn'
  BY <1>2, <1>6, <1>7, TypesNext DEF Unborn
<1>9. Room' /\ Fresh' /\ Written' /\ RunsTraced'
  <2>1. Room'
    BY <1>2, <1>4, <1>5, RoomStays DEF Used
  <2>2. Fresh'
    BY <1>2, <1>4, <1>5, FreshTurns
  <2>3. Written'
    BY <1>4, <1>5, WrittenTurns
  <2>4. RunsTraced'
    BY <1>2, <1>4, TracedTurns DEF At
  <2> QED BY <2>1, <2>2, <2>3, <2>4
<1>10. Calm'
  BY <1>2, <1>4, <1>5, CalmAside DEF ManPcs
<1>11. ConcurrencyBounded'
  <2> SUFFICES ASSUME MaxConcurrency > 0, NEW d \in Ids
               PROVE  Cardinality(StartedOf(d)') + Cardinality(Inserting(d)')
                        < MaxConcurrency + Cardinality(Threads)
    BY DEF ConcurrencyBounded
  <2>1. StartedOf(d)' = StartedOf(d)
    BY <1>2 DEF StartedOf, RunningOf, Live
  <2>2. CASE ~free \/ d # e
    <3>1. Inserting(d)' \subseteq Inserting(d) /\ Inserting(d) \subseteq Threads
      BY <1>4, <2>2 DEF Inserting, Turns, At, Idle
    <3>2. Cardinality(Inserting(d)') <= Cardinality(Inserting(d))
          /\ Cardinality(Inserting(d)') \in Nat /\ Cardinality(Inserting(d)) \in Nat
      BY <3>1, IdsFinite, FS_Subset
    <3>3. Cardinality(StartedOf(d)) + Cardinality(Inserting(d)) < MaxConcurrency + Cardinality(Threads)
      BY DEF ConcurrencyBounded
    <3>4. Cardinality(StartedOf(d)) \in Nat /\ Cardinality(Threads) \in Nat /\ MaxConcurrency \in Nat
      BY BoundIs, IdsFinite DEF DefsAssumption
    <3> QED BY <2>1, <3>2, <3>3, <3>4
  <2>3. CASE free /\ d = e
    <3>1. Cardinality(RunningOf(d)) < MaxConcurrency
      BY <2>3 DEF free, Below, DefsAssumption
    <3>2. StartedOf(d) \subseteq RunningOf(d) /\ RunningOf(d) \subseteq Ids
          /\ Inserting(d)' \subseteq Threads
      BY LiveIs DEF StartedOf, RunningOf, Inserting
    <3>3. /\ Cardinality(StartedOf(d)) <= Cardinality(RunningOf(d))
          /\ Cardinality(Inserting(d)') <= Cardinality(Threads)
          /\ Cardinality(StartedOf(d)) \in Nat /\ Cardinality(RunningOf(d)) \in Nat
          /\ Cardinality(Inserting(d)') \in Nat /\ Cardinality(Threads) \in Nat
      BY <3>2, IdsFinite, FS_Subset
    <3>4. MaxConcurrency \in Nat
      BY DEF DefsAssumption
    <3>5. \A a, b, c, n, m \in Nat : a <= b /\ b < n /\ c <= m => a + c < n + m
      OBVIOUS
    <3> QED BY <2>1, <2>3, <3>1, <3>3, <3>4, <3>5
  <2> QED BY <2>2, <2>3
<1> QED BY <1>8, <1>9, <1>10, <1>11

-----------------------------------------------------------------------------
\* The instance is inserted and recorded.
LEMMA InsertKeeps ==
  ASSUME DefsAssumption, IInv, NEW t \in Threads, Insert(t)
  PROVE  IInv'
<1> USE DEF IInv
<1>1. Typed
  BY Types
<1> DEFINE e == thread[t].engine
           i == NextId(insts)
           y == [thread[t] EXCEPT !.pc = "record", !.inst = i]
           row == [state |-> "running", engine |-> e, by |-> thread[t].op, held |-> FALSE]
<1>2. /\ thread[t].pc = "insert"
      /\ UNCHANGED <<def, engines, jobs, runs>>
      /\ UNCHANGED <<starts, events, stale, overlapped, untraced>>
  BY DEF Insert, At
<1>3. \/ e \notin Live(engines) /\ End(t) /\ UNCHANGED insts
      \/ /\ e \in Live(engines) /\ insts' = [insts EXCEPT ![i] = row]
         /\ IF thread[t].op = "raw" THEN End(t) ELSE thread' = [thread EXCEPT ![t] = y]
  BY DEF Insert, NewInstance
<1>4. /\ thread[t] \in RunWork /\ thread \in [Threads -> ThreadRows] /\ thread[t] # Idle
      /\ insts \in [Ids -> InstRows]
  BY <1>1, <1>2, WorkIs DEF Typed, Tables, Idle
<1>5. def.state # "none"
  BY <1>4 DEF Unborn
<1>6. i \in Ids /\ insts[i] = Unused
  <2>1. t \in WillInsert /\ WillInsert \subseteq Threads
    BY <1>2 DEF WillInsert
  <2>2. starts \in 0..MaxStarts
    BY <1>1 DEF Typed, Counts
  <2> QED BY <2>1, <2>2, NextIs DEF Room
<1> HIDE DEF i
<1>7. y \in RunWork /\ y.pc = "record" /\ y.inst = i /\ y \in ThreadRows
  BY <1>4, <1>6 DEF RunWork, ThreadRows
<1> HIDE DEF y
<1>8. CASE e \notin Live(engines)
  <2>1. End(t) /\ UNCHANGED insts
    BY <1>3, <1>8
  <2>2. Turns(t, Idle) /\ Idle \in ThreadRows /\ Idle.pc = "idle"
    BY <1>4, <2>1, Ends DEF ThreadRows, Idle
  <2>3. Room' /\ Fresh' /\ Written' /\ ConcurrencyBounded' /\ RunsTraced' /\ Unborn'
    BY <1>2, <1>4, <2>1, <2>2, Steps DEF At, Used
  <2>4. Typed'
    BY <1>1, <1>2, <2>1, <2>2 DEF Typed, Tables, Keys, Counts, Turns, Live
  <2>5. Calm'
    BY <1>2, <2>2, CalmAside DEF ManPcs
  <2> QED BY <2>3, <2>4, <2>5, TypesNext
<1>9. CASE e \in Live(engines)
  <2>1. insts' = [insts EXCEPT ![i] = row]
    BY <1>3, <1>9
  <2>2. row \in InstRows /\ row \notin {Unused, Gone} /\ row.engine = e /\ row.by = thread[t].op
        /\ row.state = "running" /\ row.held = FALSE
    <3>1. row \in [state : InstStatus, engine : Ids,
                   by : {"run", "fire", "raw"}, held : BOOLEAN]
      BY <1>4, <1>9, LiveIs DEF RunWork, InstStatus
    <3> QED BY <3>1, RowIs DEF InstRows
  <2> HIDE DEF row
  <2>3. /\ Live(insts') = Live(insts) \union {i} /\ Used(insts') = Used(insts) \union {i}
        /\ insts'[i] = row /\ \A k \in Ids : k # i => insts'[k] = insts[k]
        /\ insts' \in [Ids -> InstRows] /\ i \notin Live(insts)
    <3>1. /\ Live([insts EXCEPT ![i] = row]) =
              IF row \in {Unused, Gone} THEN Live(insts) \ {i} ELSE Live(insts) \union {i}
          /\ Used([insts EXCEPT ![i] = row]) =
              IF row = Unused THEN Used(insts) \ {i} ELSE Used(insts) \union {i}
      BY <1>4, <1>6, Put
    <3>2. i \notin Live(insts)
      BY <1>6, LiveIs
    <3> QED BY <1>4, <1>6, <2>1, <2>2, <3>1, <3>2
  <2>4. PICK x \in ThreadRows :
          /\ Turns(t, x)
          /\ IF thread[t].op = "raw" THEN x = Idle ELSE x = y
    <3>1. CASE thread[t].op = "raw"
      <4>1. Turns(t, Idle) /\ Idle \in ThreadRows
        BY <1>3, <1>4, <1>9, <3>1, Ends DEF ThreadRows
      <4> QED BY <3>1, <4>1
    <3>2. CASE thread[t].op # "raw"
      <4>1. thread' = [thread EXCEPT ![t] = y]
        BY <1>3, <1>9, <3>2
      <4> QED BY <1>4, <1>7, <3>2, <4>1, TurnsTo
    <3> QED BY <3>1, <3>2
  <2>5. /\ x.pc \in {"idle", "record"} /\ (x.pc = "record" => x.inst = i)
        /\ thread[t].op # "raw" => x.pc = "record"
    BY <1>7, <2>4 DEF Idle
  <2>6. Typed'
    <3>1. Tables' /\ Keys'
      BY <1>1, <1>2, <1>9, <2>2, <2>3, LiveIs DEF Typed, Tables, Keys
    <3>2. Counts'
      BY <1>1, <1>2 DEF Typed, Counts
    <3> QED BY <2>4, <3>1, <3>2 DEF Typed, Turns
  <2>7. Room'
    <3>1. starts \in Int /\ Fits(Used(insts), WillInsert, starts)
      BY <1>1 DEF Typed, Counts, DefsAssumption, Room
    <3>2. WillInsert' \subseteq WillInsert \ {t} /\ t \in WillInsert /\ WillSchedule' \subseteq WillSchedule
      BY <1>2, <2>4, <2>5 DEF WillSchedule, WillInsert, Turns
    <3>3. Fits(Used(insts'), WillInsert', starts)
      BY <1>6, <2>3, <3>1, <3>2, FitsTaken, IdsFinite
    <3>4. Fits(Used(jobs), WillSchedule', starts)
      BY <3>1, <3>2, FitsLess, IdsFinite DEF Room
    <3> QED BY <1>2, <3>3, <3>4 DEF Room
  <2>8. Fresh'
    <3>1. \A k \in Ids : insts'[k] = Unused => runs[k] = "none"
      BY <2>2, <2>3 DEF Fresh
    <3>2. \A s \in Threads : At(s, "record")' => thread'[s].inst \in Used(insts')
      BY <2>3, <2>4, <2>5 DEF Fresh, Turns, At
    <3> QED BY <1>2, <3>1, <3>2 DEF Fresh
  <2>9. Written' /\ Unborn'
    <3>1. Written'
      BY <2>4, <2>5, WrittenTurns
    <3> QED BY <1>2, <1>5, <3>1 DEF Unborn
  <2>10. Calm'
    BY <1>2, <2>4, <2>5, CalmAside DEF ManPcs
  <2>11. ConcurrencyBounded'
    <3> SUFFICES ASSUME MaxConcurrency > 0, NEW d \in Ids
                 PROVE  Cardinality(StartedOf(d)') + Cardinality(Inserting(d)')
                          < MaxConcurrency + Cardinality(Threads)
      BY DEF ConcurrencyBounded
    <3>1. /\ Fits(StartedOf(d), Inserting(d), Limit) /\ Limit \in Int
          /\ StartedOf(d) \subseteq Ids /\ Inserting(d) \subseteq Threads
      BY BoundIs
    <3>2. Fits(StartedOf(d)', Inserting(d)', Limit)
      <4>1. CASE d = e
        <5>1. t \in Inserting(d) /\ Inserting(d)' \subseteq Inserting(d) \ {t}
          BY <1>2, <2>4, <2>5, <4>1 DEF Inserting, Turns, At
        <5>2. StartedOf(d)' \subseteq StartedOf(d) \union {i}
          BY <2>3, LiveIs DEF StartedOf, RunningOf
        <5> QED BY <1>6, <3>1, <5>1, <5>2, FitsTaken
      <4>2. CASE d # e
        <5>1. Inserting(d)' \subseteq Inserting(d)
          BY <2>4, <2>5 DEF Inserting, Turns, At
        <5>2. StartedOf(d)' \subseteq StartedOf(d)
          BY <2>2, <2>3, <4>2, LiveIs DEF StartedOf, RunningOf
        <5>3. Limit <= Limit
          BY <3>1
        <5> QED BY <3>1, <5>1, <5>2, <5>3, FitsLess
      <4> QED BY <4>1, <4>2
    <3>3. Inserting(d)' \subseteq Threads /\ StartedOf(d)' \subseteq Ids
      BY <2>3, LiveIs DEF Inserting, StartedOf, RunningOf
    <3>4. /\ Cardinality(Threads) \in Nat /\ MaxConcurrency \in Nat
          /\ Cardinality(StartedOf(d)') \in Nat /\ Cardinality(Inserting(d)') \in Nat
      BY <3>3, IdsFinite DEF DefsAssumption
    <3>5. \A a, b, c, n \in Nat : a + b <= c + n - 1 => a + b < c + n
      OBVIOUS
    <3>6. Cardinality(StartedOf(d)') + Cardinality(Inserting(d)') <= MaxConcurrency + Cardinality(Threads) - 1
      BY <3>2 DEF Fits, Limit
    <3> QED BY <3>4, <3>5, <3>6
  <2>12. RunsTraced'
    <3> SUFFICES ASSUME NEW k \in Live(insts')
                 PROVE  insts'[k].by # "raw" /\ def.state = "exists" =>
                          \/ runs[k] # "none" \/ k \in untraced
                          \/ \E s \in Threads : At(s, "record")' /\ thread'[s].inst = k
      BY <1>2 DEF RunsTraced
    <3>1. CASE k = i
      <4>1. runs[k] = "none"
        BY <1>6, <3>1 DEF Fresh
      <4>2. thread[t].op # "raw" => At(t, "record")' /\ thread'[t].inst = i
        BY <2>4, <2>5 DEF Turns, At
      <4> QED BY <2>2, <2>3, <3>1, <4>1, <4>2
    <3>2. CASE k # i
      <4>1. k \in Live(insts) /\ insts'[k] = insts[k]
        BY <2>3, <3>2, LiveIs
      <4>2. \A s \in Threads : At(s, "record") => At(s, "record")' /\ thread'[s].inst = thread[s].inst
        BY <1>2, <2>4 DEF Turns, At
      <4> QED BY <4>1, <4>2 DEF RunsTraced
    <3> QED BY <3>1, <3>2
  <2> QED BY <2>6, <2>7, <2>8, <2>9, <2>10, <2>11, <2>12, TypesNext
<1> QED BY <1>8, <1>9

LEMMA RecordKeeps ==
  ASSUME DefsAssumption, IInv, NEW t \in Threads, Record(t)
  PROVE  IInv'
<1> USE DEF IInv
<1>1. Typed
  BY Types
<1> DEFINE i == thread[t].inst
<1>2. /\ thread[t].pc = "record" /\ End(t)
      /\ runs' = IF def.state = "exists" THEN [runs EXCEPT ![i] = "running"] ELSE runs
      /\ UNCHANGED <<def, engines, jobs, insts>>
      /\ UNCHANGED <<starts, events, stale, overlapped, untraced>>
  BY DEF Record, At
<1>3. /\ thread \in [Threads -> ThreadRows] /\ thread[t] # Idle
      /\ runs \in [Ids -> {"none"} \union InstStatus]
  BY <1>1, <1>2 DEF Typed, Tables, Idle
<1>4. i \in Ids /\ insts[i] # Unused
  BY <1>2, LiveIs DEF Fresh, At
<1>5. Turns(t, Idle) /\ Idle.pc = "idle"
  BY <1>2, <1>3, Ends DEF Idle
<1>6. def.state # "none"
  BY <1>3 DEF Unborn
<1> HIDE DEF i
<1>7. /\ runs' \in [Ids -> {"none"} \union InstStatus]
      /\ \A k \in Ids : k # i => runs'[k] = runs[k]
      /\ def.state = "exists" => runs'[i] = "running"
      /\ def.state # "exists" => runs' = runs
  <2>1. CASE def.state = "exists"
    <3>1. runs' = [runs EXCEPT ![i] = "running"]
      BY <1>2, <2>1
    <3> QED BY <1>3, <1>4, <2>1, <3>1 DEF InstStatus
  <2>2. CASE def.state # "exists"
    BY <1>2, <1>3, <2>2
  <2> QED BY <2>1, <2>2
<1>8. Typed'
  <2>1. Tables' /\ Keys'
    BY <1>1, <1>2, <1>7 DEF Typed, Tables, Keys, Live
  <2>2. Counts'
    BY <1>1, <1>2 DEF Typed, Counts
  <2> QED BY <1>5, <2>1, <2>2 DEF Typed, Turns
<1>9. TypeOK' /\ Unborn'
  BY <1>2, <1>6, <1>8, TypesNext DEF Unborn
<1>10. Room' /\ Written' /\ ConcurrencyBounded' /\ Calm'
  <2>1. Room'
    BY <1>2, <1>5, RoomStays DEF Used
  <2>2. Written'
    BY <1>5, WrittenTurns
  <2>3. ConcurrencyBounded'
    BY <1>2, <1>5, BoundTurns
  <2>4. Calm'
    BY <1>2, <1>5, CalmAside DEF ManPcs
  <2> QED BY <2>1, <2>2, <2>3, <2>4
<1>11. Fresh'
  <2>1. \A s \in Threads : At(s, "record")' => thread'[s].inst \in Used(insts)
    BY <1>5 DEF Fresh, Turns, At
  <2>2. \A k \in Ids : insts[k] = Unused => runs'[k] = "none"
    BY <1>4, <1>7 DEF Fresh
  <2> QED BY <1>2, <2>1, <2>2 DEF Fresh, Used
<1>12. RunsTraced'
  <2> SUFFICES ASSUME NEW k \in Live(insts)
               PROVE  insts[k].by # "raw" /\ def.state = "exists" =>
                        \/ runs'[k] # "none" \/ k \in untraced
                        \/ \E s \in Threads : At(s, "record")' /\ thread'[s].inst = k
    BY <1>2 DEF RunsTraced, Live
  <2>1. \A s \in Threads : s # t /\ At(s, "record") => At(s, "record")' /\ thread'[s].inst = thread[s].inst
    BY <1>5 DEF Turns, At
  <2>2. CASE k = i /\ def.state = "exists"
    BY <1>7, <2>2
  <2>3. CASE k # i \/ def.state # "exists"
    <3>1. runs'[k] = runs[k]
      BY <1>7, <2>3, LiveIs
    <3> QED BY <2>1, <2>3, <3>1 DEF RunsTraced, i
  <2> QED BY <2>2, <2>3
<1> QED BY <1>9, <1>10, <1>11, <1>12

-----------------------------------------------------------------------------
\* Instances run on, and the history asks after them.
LEMMA BecomeKeeps ==
  ASSUME DefsAssumption, IInv, NEW i \in Ids, Pause(i) \/ Resume(i) \/ Finish(i)
  PROVE  IInv'
<1> USE DEF IInv
<1>1. Typed
  BY Types
<1>2. PICK to \in InstStatus, held \in BOOLEAN :
        /\ i \in Live(insts)
        /\ insts' = [insts EXCEPT ![i] = [@ EXCEPT !.state = to, !.held = held]]
        /\ to = "running" \/ insts[i].held => held
        /\ UNCHANGED <<def, engines, jobs, runs, thread>>
        /\ UNCHANGED <<starts, events, stale, overlapped, untraced>>
  <2>1. i \in Live(insts)
    BY DEF Pause, Resume, Finish, Become
  <2>2. insts[i].held \in BOOLEAN
    BY <1>1, <2>1, LiveIs, RowIs DEF Typed, Tables
  <2>3. CASE Pause(i)
    BY <2>1, <2>2, <2>3 DEF Pause, Become, InstStatus
  <2>4. CASE Resume(i)
    BY <2>1, <2>4 DEF Resume, Become, InstStatus
  <2>5. CASE Finish(i)
    BY <2>1, <2>2, <2>5 DEF Finish, Become, InstStatus
  <2> QED BY <2>3, <2>4, <2>5
<1> DEFINE row == [insts[i] EXCEPT !.state = to, !.held = held]
<1>3. /\ row \in InstRows /\ row \notin {Unused, Gone} /\ row.engine = insts[i].engine
      /\ row.by = insts[i].by /\ row.state = to /\ row.held = held
  <2>1. insts[i] \in [state : InstStatus, engine : Ids,
                      by : {"run", "fire", "raw"}, held : BOOLEAN]
    BY <1>1, <1>2, LiveIs, RowIs DEF Typed, Tables
  <2>2. /\ row \in [state : InstStatus, engine : Ids,
                    by : {"run", "fire", "raw"}, held : BOOLEAN]
        /\ row.engine = insts[i].engine /\ row.by = insts[i].by /\ row.state = to
        /\ row.held = held
    BY <2>1
  <2> HIDE DEF row
  <2> QED BY <2>2, RowIs DEF InstRows
<1>4. insts' = [insts EXCEPT ![i] = row] /\ insts \in [Ids -> InstRows]
  BY <1>1, <1>2 DEF Typed, Tables
<1> HIDE DEF row
<1>5. /\ Live(insts') = Live(insts) /\ Used(insts') = Used(insts)
      /\ insts'[i] = row /\ \A k \in Ids : k # i => insts'[k] = insts[k]
      /\ insts' \in [Ids -> InstRows] /\ insts[i] # Unused
  <2>1. /\ Live([insts EXCEPT ![i] = row]) =
            IF row \in {Unused, Gone} THEN Live(insts) \ {i} ELSE Live(insts) \union {i}
        /\ Used([insts EXCEPT ![i] = row]) =
            IF row = Unused THEN Used(insts) \ {i} ELSE Used(insts) \union {i}
    BY <1>4, Put
  <2>2. i \in Used(insts) /\ insts[i] # Unused
    BY <1>2, LiveIs
  <2>3. Live(insts') = Live(insts) /\ Used(insts') = Used(insts)
    <3>1. i \in Live(insts) /\ insts' = [insts EXCEPT ![i] = row] /\ row \notin {Unused, Gone}
      BY <1>2, <1>3, <1>4
    <3> HIDE DEF IInv
    <3> QED BY <2>1, <2>2, <3>1
  <2>4. /\ insts'[i] = row /\ \A k \in Ids : k # i => insts'[k] = insts[k]
        /\ insts' \in [Ids -> InstRows]
    BY <1>3, <1>4
  <2> QED BY <2>2, <2>3, <2>4
<1>6. \A k \in Live(insts) : insts'[k].engine = insts[k].engine /\ insts'[k].by = insts[k].by
  BY <1>3, <1>5, LiveIs
<1>7. Typed'
  BY <1>1, <1>2, <1>5, <1>6 DEF Typed, Tables, Keys, Counts, Live
<1>8. TypeOK' /\ Unborn'
  <2>1. Unborn'
    BY <1>2 DEF Unborn, Live
  <2> QED BY <1>7, <2>1, TypesNext
<1>9. Room' /\ Written' /\ Calm'
  <2>1. Room'
    BY <1>2, <1>5, RoomIdle DEF Used
  <2>2. Calm'
    BY <1>2, CalmSame
  <2> QED BY <1>2, <2>1, <2>2 DEF Written
<1>10. Fresh'
  <2>1. \A k \in Ids : insts'[k] = Unused => insts[k] = Unused
    BY <1>3, <1>5
  <2> QED BY <1>2, <1>5, <2>1 DEF Fresh, At
<1>11. ConcurrencyBounded'
  <2>1. \A d \in Ids : StartedOf(d)' \subseteq StartedOf(d)
    BY <1>2, <1>3, <1>5, <1>6 DEF StartedOf, RunningOf, Pause
  <2>2. \A d \in Ids : Inserting(d)' \subseteq Inserting(d)
    BY <1>2 DEF Inserting, At
  <2> QED BY <2>1, <2>2, BoundStays
<1>12. RunsTraced'
  <2> SUFFICES ASSUME NEW k \in Live(insts)
               PROVE  insts'[k].by # "raw" /\ def.state = "exists" =>
                        \/ runs[k] # "none" \/ k \in untraced
                        \/ \E s \in Threads : At(s, "record") /\ thread[s].inst = k
    BY <1>2, <1>5 DEF RunsTraced, At
  <2> QED BY <1>6 DEF RunsTraced
<1> QED BY <1>8, <1>9, <1>10, <1>11, <1>12

\* The look-up of a run writes nothing,
LEMMA LookKeeps ==
  ASSUME DefsAssumption, IInv, NEW t \in Threads, Look(t)
  PROVE  IInv'
<1> USE DEF IInv
<1>1. Typed
  BY Types
<1>2. /\ thread[t].pc = "look" /\ UNCHANGED <<def, engines, jobs, insts, runs>>
      /\ UNCHANGED <<starts, events, stale, overlapped, untraced>>
  BY DEF Look, At, rows
<1>3. thread[t] \in ListWork /\ thread \in [Threads -> ThreadRows] /\ thread[t] # Idle
  BY <1>1, <1>2, WorkIs DEF Typed, Idle
<1>4. PICK x \in ThreadRows : Turns(t, x) /\ x.pc \in {"show", "idle"}
  <2>1. CASE End(t)
    BY <1>3, <2>1, Ends DEF ThreadRows, Idle
  <2>2. CASE ~End(t)
    <3> DEFINE i == thread[t].inst
               x == [thread[t] EXCEPT !.pc = "show", !.status = insts[i].state]
    <3>1. i \in Live(insts) /\ thread' = [thread EXCEPT ![t] = x]
      BY <2>2 DEF Look
    <3>2. insts[i].state \in InstStatus
      BY <1>1, <3>1, LiveIs, RowIs DEF Typed, Tables
    <3>3. x \in ListWork /\ x.pc = "show"
      BY <1>3, <3>2 DEF ListWork
    <3> HIDE DEF x
    <3> QED BY <1>3, <3>1, <3>3, TurnsTo DEF ThreadRows
  <2> QED BY <2>1, <2>2
<1>5. Typed'
  BY <1>1, <1>2, <1>4 DEF Typed, Tables, Keys, Counts, Turns, Live
<1>6. TypeOK'
  BY <1>5, TypesNext
<1>7. Room' /\ Fresh' /\ Written' /\ ConcurrencyBounded' /\ RunsTraced' /\ Unborn'
  BY <1>2, <1>3, <1>4, Steps DEF At, Used
<1>8. Calm'
  BY <1>2, <1>4, CalmAside DEF ManPcs
<1> QED BY <1>6, <1>7, <1>8

\* and what it found is written to a run that is still there.
LEMMA ShowKeeps ==
  ASSUME DefsAssumption, IInv, NEW t \in Threads, Show(t)
  PROVE  IInv'
<1> USE DEF IInv
<1>1. Typed
  BY Types
<1> DEFINE i == thread[t].inst
           found == thread[t].status
<1>2. /\ thread[t].pc = "show" /\ End(t)
      /\ runs' = IF runs[i] # "none" THEN [runs EXCEPT ![i] = found] ELSE runs
      /\ UNCHANGED <<def, engines, jobs, insts>>
      /\ UNCHANGED <<starts, events, stale, overlapped, untraced>>
  BY DEF Show, At
<1>3. /\ thread \in [Threads -> ThreadRows] /\ thread[t] # Idle
      /\ runs \in [Ids -> {"none"} \union InstStatus]
      /\ i \in Ids /\ found \in InstStatus
  <2>1. thread[t] \in ListWork
    BY <1>1, <1>2, WorkIs DEF Typed
  <2> QED BY <1>1, <1>2, <2>1 DEF Typed, Tables, Idle, ListWork
<1>4. Turns(t, Idle) /\ Idle.pc = "idle"
  BY <1>2, <1>3, Ends DEF Idle
<1>5. def.state # "none"
  BY <1>3 DEF Unborn
<1> HIDE DEF i, found
<1>6. /\ runs' \in [Ids -> {"none"} \union InstStatus]
      /\ \A k \in Ids : runs'[k] = "none" <=> runs[k] = "none"
  <2>1. found # "none"
    BY <1>3 DEF InstStatus
  <2> QED BY <1>2, <1>3, <2>1
<1>7. Typed'
  <2>1. Tables' /\ Keys'
    BY <1>1, <1>2, <1>6 DEF Typed, Tables, Keys, Live
  <2>2. Counts'
    BY <1>1, <1>2 DEF Typed, Counts
  <2> QED BY <1>4, <2>1, <2>2 DEF Typed, Turns
<1>8. TypeOK' /\ Unborn'
  BY <1>2, <1>5, <1>7, TypesNext DEF Unborn
<1>9. Room' /\ Written' /\ ConcurrencyBounded' /\ Calm'
  <2>1. Room'
    BY <1>2, <1>4, RoomStays DEF Used
  <2>2. Written'
    BY <1>4, WrittenTurns
  <2>3. ConcurrencyBounded'
    BY <1>2, <1>4, BoundTurns
  <2>4. Calm'
    BY <1>2, <1>4, CalmAside DEF ManPcs
  <2> QED BY <2>1, <2>2, <2>3, <2>4
<1>10. Fresh'
  <2>1. \A s \in Threads : At(s, "record")' => thread'[s].inst \in Used(insts)
    BY <1>4 DEF Fresh, Turns, At
  <2> QED BY <1>2, <1>6, <2>1 DEF Fresh, Used
<1>11. RunsTraced'
  <2> SUFFICES ASSUME NEW k \in Live(insts)
               PROVE  insts[k].by # "raw" /\ def.state = "exists" =>
                        \/ runs'[k] # "none" \/ k \in untraced
                        \/ \E s \in Threads : At(s, "record")' /\ thread'[s].inst = k
    BY <1>2 DEF RunsTraced, Live
  <2>1. \A s \in Threads : At(s, "record") => At(s, "record")' /\ thread'[s].inst = thread[s].inst
    BY <1>2, <1>4 DEF Turns, At
  <2> QED BY <1>6, <2>1, LiveIs DEF RunsTraced
<1> QED BY <1>8, <1>9, <1>10, <1>11

-----------------------------------------------------------------------------
\* What comes between.
LEMMA DieKeeps ==
  ASSUME DefsAssumption, IInv, NEW t \in Threads, Die(t)
  PROVE  IInv'
<1> USE DEF IInv
<1>1. Typed
  BY Types
<1>2. /\ thread[t].pc # "idle" /\ events < MaxEvents /\ events' = events + 1 /\ End(t)
      /\ overlapped' = (overlapped \/ Managing(t))
      /\ untraced' = IF At(t, "record") THEN untraced \union {thread[t].inst} ELSE untraced
      /\ UNCHANGED <<starts, runs>> /\ UNCHANGED <<def, engines, jobs, insts, stale>>
  BY DEF Die, Event, At
<1>3. thread \in [Threads -> ThreadRows] /\ thread[t] # Idle
  BY <1>1, <1>2 DEF Typed, Idle
<1>4. Turns(t, Idle) /\ Idle.pc = "idle"
  BY <1>2, <1>3, Ends DEF Idle
<1>5. At(t, "record") => thread[t].inst \in Ids
  BY LiveIs DEF Fresh
<1>6. Typed'
  <2>1. Tables' /\ Keys'
    BY <1>1, <1>2 DEF Typed, Tables, Keys, Live
  <2>2. untraced' \subseteq Ids /\ overlapped' \in BOOLEAN
    BY <1>1, <1>2, <1>5 DEF Typed, Counts
  <2>3. events' \in 0..MaxEvents
    BY <1>1, <1>2 DEF Typed, Counts, DefsAssumption
  <2> QED BY <1>1, <1>2, <1>4, <2>1, <2>2, <2>3 DEF Typed, Counts, Turns
<1>7. def.state # "none"
  BY <1>3 DEF Unborn
<1>8. TypeOK' /\ Unborn'
  BY <1>2, <1>6, <1>7, TypesNext DEF Unborn
<1>9. Room' /\ Fresh' /\ Written' /\ ConcurrencyBounded' /\ RunsTraced'
  <2>1. Room'
    BY <1>2, <1>4, RoomStays DEF Used
  <2>2. Fresh'
    BY <1>2, <1>4, FreshTurns
  <2>3. Written'
    BY <1>4, WrittenTurns
  <2>4. ConcurrencyBounded'
    BY <1>2, <1>4, BoundTurns
  <2>5. untraced \subseteq untraced' /\ (At(t, "record") => thread[t].inst \in untraced')
    BY <1>2
  <2>6. RunsTraced'
    BY <1>2, <1>4, <2>5, TracedTurns
  <2> QED BY <2>1, <2>2, <2>3, <2>4, <2>6
<1>10. Calm'
  <2>1. Managing(t) <=> thread[t].pc \in ManPcs
    BY DEF Managing, ManPcs
  <2> QED BY <1>2, <1>4, <2>1, CalmAside DEF ManPcs
<1> QED BY <1>8, <1>9, <1>10

\* Edits of other pages: the calm is kept when nobody manages.
LEMMA CalmEdit ==
  ASSUME Calm, overlapped' = (overlapped \/ ~Quiet), UNCHANGED thread, stale' = TRUE,
         FewRows(def, engines, jobs) => FewRows(def', engines', jobs')
  PROVE  Calm'
<1> SUFFICES ASSUME ~overlapped'
             PROVE  /\ OneMan(thread) /\ FewRows(def', engines', jobs')
                    /\ AtWork(def', engines', jobs', thread)
                    /\ Agreed(def', engines', jobs', thread, stale')
  BY DEF Calm
<1>1. ~overlapped /\ Mans(thread) = {}
  BY MansIs
<1>2. FewRows(def', engines', jobs')
  BY <1>1 DEF Calm
<1> QED BY <1>1, <1>2 DEF OneMan, AtWork, Agreed

LEMMA EditJobKeeps ==
  ASSUME DefsAssumption, IInv, NEW j \in Ids, NEW on \in BOOLEAN, ToggleJob(j, on) \/ RemoveJob(j)
  PROVE  IInv'
<1> USE DEF IInv
<1>1. Typed
  BY Types
<1>2. /\ j \in Live(jobs) /\ events < MaxEvents /\ events' = events + 1
      /\ stale' = TRUE /\ overlapped' = (overlapped \/ ~Quiet)
      /\ UNCHANGED <<starts, runs, thread, untraced>> /\ UNCHANGED <<def, engines, insts>>
  BY DEF ToggleJob, RemoveJob, Edit, Event
<1>3. /\ jobs' \in [Ids -> JobRows] /\ Live(jobs') \subseteq Live(jobs) /\ Used(jobs') = Used(jobs)
  <2>1. jobs[j] \in [state : Switch, engine : Ids] /\ jobs \in [Ids -> JobRows] /\ j \in Used(jobs)
    BY <1>1, <1>2, LiveIs, RowIs DEF Typed, Tables
  <2> DEFINE row == [jobs[j] EXCEPT !.state = Status(on)]
  <2>2. row \in [state : Switch, engine : Ids]
    BY <2>1 DEF Status, Switch
  <2>3. jobs' = [jobs EXCEPT ![j] = row] \/ jobs' = [jobs EXCEPT ![j] = Gone]
    BY DEF ToggleJob, RemoveJob
  <2> HIDE DEF row
  <2>4. row \in JobRows /\ row \notin {Unused, Gone} /\ Gone \in JobRows /\ Gone # Unused
    BY <2>2, RowIs DEF JobRows
  <2>5. CASE jobs' = [jobs EXCEPT ![j] = row]
    <3>1. /\ Live([jobs EXCEPT ![j] = row]) =
              IF row \in {Unused, Gone} THEN Live(jobs) \ {j} ELSE Live(jobs) \union {j}
          /\ Used([jobs EXCEPT ![j] = row]) =
              IF row = Unused THEN Used(jobs) \ {j} ELSE Used(jobs) \union {j}
      BY <2>1, Put
    <3> QED BY <1>2, <2>1, <2>4, <2>5, <3>1
  <2>6. CASE jobs' = [jobs EXCEPT ![j] = Gone]
    <3>1. /\ Live([jobs EXCEPT ![j] = Gone]) =
              IF Gone \in {Unused, Gone} THEN Live(jobs) \ {j} ELSE Live(jobs) \union {j}
          /\ Used([jobs EXCEPT ![j] = Gone]) =
              IF Gone = Unused THEN Used(jobs) \ {j} ELSE Used(jobs) \union {j}
      BY <2>1, Put
    <3> QED BY <2>1, <2>4, <2>6, <3>1
  <2> QED BY <2>3, <2>5, <2>6
<1>4. Typed'
  <2>1. Tables' /\ Keys'
    BY <1>1, <1>2, <1>3 DEF Typed, Tables, Keys, Live
  <2>2. events' \in 0..MaxEvents
    BY <1>1, <1>2 DEF Typed, Counts, DefsAssumption
  <2> QED BY <1>1, <1>2, <2>1, <2>2 DEF Typed, Counts
<1>5. def.state # "none"
  BY <1>2 DEF Unborn
<1>6. TypeOK' /\ Unborn'
  BY <1>2, <1>4, <1>5, TypesNext DEF Unborn
<1>7. Room' /\ Written'
  BY <1>2, <1>3, RoomIdle DEF Used, Written
<1>8. Fresh' /\ ConcurrencyBounded' /\ RunsTraced'
  BY <1>2, RemovesInstances DEF Live, Used
<1>9. Calm'
  <2>1. FewRows(def, engines, jobs) => FewRows(def, engines, jobs')
    BY <1>3 DEF FewRows
  <2> QED BY <1>2, <2>1, CalmEdit
<1> QED BY <1>6, <1>7, <1>8, <1>9

LEMMA EditEngineKeeps ==
  ASSUME DefsAssumption, IInv, NEW e \in Ids, NEW on \in BOOLEAN, ToggleEngine(e, on) \/ RemoveEngine(e)
  PROVE  IInv'
<1> USE DEF IInv
<1>1. Typed
  BY Types
<1>2. /\ e \in Live(engines) /\ events < MaxEvents /\ events' = events + 1
      /\ stale' = TRUE /\ overlapped' = (overlapped \/ ~Quiet)
      /\ UNCHANGED <<starts, runs, thread, untraced>> /\ UNCHANGED jobs
  BY DEF ToggleEngine, RemoveEngine, Edit, Event
<1>3. def.state # "none"
  BY <1>2 DEF Unborn
<1>4. /\ engines' \in [Ids -> EngineRows]
      /\ insts' \in [Ids -> InstRows]
      /\ Live(insts') \subseteq Live(insts) /\ \A i \in Live(insts') : insts'[i] = insts[i]
      /\ Used(insts') = Used(insts)
      /\ def' \in DefRow /\ def'.state = def.state
      /\ def'.engine = 0 \/ def'.engine \in Live(engines')
      /\ \A i \in Live(insts') : insts'[i].engine \in Live(engines')
      /\ FewRows(def, engines, jobs) => FewRows(def', engines', jobs)
  <2>1. CASE ToggleEngine(e, on)
    <3>1. engines[e] \in [state : Switch] /\ engines \in [Ids -> EngineRows]
      BY <1>1, <1>2, LiveIs, RowIs DEF Typed, Tables
    <3> DEFINE row == [engines[e] EXCEPT !.state = Status(on)]
    <3>2. row \in [state : Switch]
      BY <3>1 DEF Status, Switch
    <3>3. engines' = [engines EXCEPT ![e] = row] /\ UNCHANGED <<def, insts>>
      BY <2>1 DEF ToggleEngine
    <3> HIDE DEF row
    <3>4. row \in EngineRows /\ row \notin {Unused, Gone}
      BY <3>2, RowIs DEF EngineRows
    <3>5. Live([engines EXCEPT ![e] = row]) =
            IF row \in {Unused, Gone} THEN Live(engines) \ {e} ELSE Live(engines) \union {e}
      BY <3>1, Put
    <3>6. Live(engines') = Live(engines) /\ engines' \in [Ids -> EngineRows]
      BY <1>2, <3>1, <3>3, <3>4, <3>5
    <3> QED BY <1>1, <3>3, <3>6 DEF Typed, Tables, Keys, FewRows, Used, Live
  <2>2. CASE RemoveEngine(e)
    <3>1. RemoveEngineRow(e)
      BY <2>2 DEF RemoveEngine
    <3>2. /\ engines' \in [Ids -> EngineRows] /\ Live(engines') = Live(engines) \ {e}
          /\ insts' \in [Ids -> InstRows]
          /\ Live(insts') \subseteq Live(insts) /\ \A i \in Live(insts') : insts'[i] = insts[i]
          /\ Used(insts') = Used(insts)
          /\ def' \in DefRow /\ def'.state = def.state
          /\ def'.engine = IF def.engine = e THEN 0 ELSE def.engine
          /\ def'.engine = 0 \/ def'.engine \in Live(engines')
          /\ \A i \in Live(insts') : insts'[i].engine \in Live(engines')
      BY <1>1, <1>2, <3>1, Removes
    <3>3. FewRows(def, engines, jobs) => FewRows(def', engines', jobs)
      BY <3>2 DEF FewRows
    <3> QED BY <3>2, <3>3
  <2> QED BY <2>1, <2>2
<1>5. Typed'
  <2>1. Tables' /\ Keys'
    BY <1>1, <1>2, <1>4 DEF Typed, Tables, Keys
  <2>2. events' \in 0..MaxEvents
    BY <1>1, <1>2 DEF Typed, Counts, DefsAssumption
  <2> QED BY <1>1, <1>2, <2>1, <2>2 DEF Typed, Counts
<1>6. TypeOK' /\ Unborn'
  BY <1>3, <1>4, <1>5, TypesNext DEF Unborn
<1>7. Room' /\ Written'
  BY <1>2, <1>4, RoomIdle DEF Used, Written
<1>8. Fresh' /\ ConcurrencyBounded' /\ RunsTraced'
  BY <1>2, <1>4, RemovesInstances
<1>9. Calm'
  BY <1>2, <1>4, CalmEdit
<1> QED BY <1>6, <1>7, <1>8, <1>9

-----------------------------------------------------------------------------
\* Together.
LEMMA Initially == ASSUME DefsAssumption, Init PROVE IInv
<1> USE DEF Init
<1>1. /\ Live(engines) = {} /\ Live(jobs) = {} /\ Live(insts) = {}
      /\ Used(insts) = {} /\ Used(jobs) = {}
  BY DEF Live, Used
<1>2. Typed
  <2>1. Tables
    BY DEF Tables, EngineRows, JobRows, InstRows, DefRow
  <2>2. Keys
    BY <1>1 DEF Keys
  <2>3. Counts
    <3>1. starts \in 0..MaxStarts /\ events \in 0..MaxEvents
      BY DEF DefsAssumption
    <3>2. stale \in BOOLEAN /\ overlapped \in BOOLEAN /\ untraced \subseteq Ids
      OBVIOUS
    <3> QED BY <3>1, <3>2 DEF Counts
  <2>4. thread \in [Threads -> ThreadRows]
    BY DEF ThreadRows
  <2> QED BY <2>1, <2>2, <2>3, <2>4 DEF Typed
<1>3. \A t \in Threads : thread[t] = Idle /\ thread[t].pc = "idle"
  BY DEF Idle
<1>4. TypeOK /\ Fresh /\ Written /\ Unborn /\ RunsTraced
  BY <1>1, <1>2, <1>3, Types DEF Fresh, Written, Unborn, RunsTraced, At
<1>5. Room
  <2>1. WillInsert = {} /\ WillSchedule = {}
    BY <1>3 DEF WillInsert, WillSchedule
  <2>2. Cardinality({}) = 0
    BY FS_EmptySet
  <2>3. Fits({}, {}, 0)
    BY <2>2 DEF Fits
  <2> QED BY <1>1, <2>1, <2>3 DEF Room
<1>6. Calm
  <2>1. Mans(thread) = {}
    BY <1>3 DEF Mans, ManPcs
  <2> QED BY <1>1, <2>1 DEF Calm, OneMan, FewRows, AtWork, Agreed
<1>7. ConcurrencyBounded
  <2> SUFFICES ASSUME MaxConcurrency > 0, NEW e \in Ids
               PROVE  Cardinality(StartedOf(e)) + Cardinality(Inserting(e))
                        < MaxConcurrency + Cardinality(Threads)
    BY DEF ConcurrencyBounded
  <2>1. StartedOf(e) = {} /\ Inserting(e) = {}
    BY <1>1, <1>3 DEF StartedOf, RunningOf, Inserting, At
  <2>2. Cardinality({}) = 0
    BY FS_EmptySet
  <2>3. Cardinality(Threads) \in Nat /\ MaxConcurrency \in Nat
    BY IdsFinite DEF DefsAssumption
  <2> QED BY <2>1, <2>2, <2>3
<1> QED BY <1>4, <1>5, <1>6, <1>7 DEF IInv

LEMMA Stutters == ASSUME DefsAssumption, IInv, UNCHANGED vars PROVE IInv'
<1> USE DEF IInv, vars
<1>1. Typed'
  BY Types DEF Typed, Tables, Keys, Counts, Live
<1>2. Fresh' /\ ConcurrencyBounded' /\ RunsTraced'
  BY RemovesInstances DEF Live, Used
<1>3. Room' /\ Written' /\ Unborn' /\ Calm'
  BY RoomIdle, CalmSame DEF Used, Written, Unborn, Live
<1> QED BY <1>1, <1>2, <1>3, TypesNext

LEMMA StepKeeps == ASSUME DefsAssumption, IInv, Next PROVE IInv'
<1>1. ASSUME NEW t \in Threads, Request(t) PROVE IInv'
  <2>1. CASE \E cron, enabled \in BOOLEAN : Create(t, cron, enabled) \/ Update(t, cron, enabled)
    BY <2>1, SaveKeeps DEF Create, Update
  <2>2. CASE Delete(t)
    BY <2>2, DeleteKeeps
  <2>3. CASE Run(t)
    BY <2>3, RunKeeps
  <2>4. CASE \E k \in Ids : Fire(t, k) \/ RunRaw(t, k)
    BY <2>4, FireKeeps
  <2>5. CASE \E k \in Ids : ListRuns(t, k)
    BY <2>5, ListRunsKeeps
  <2> QED BY <1>1, <2>1, <2>2, <2>3, <2>4, <2>5 DEF Request
<1>2. ASSUME NEW t \in Threads, Step(t) PROVE IInv'
  <2>1. CASE Lookup(t)
    BY <2>1, LookupKeeps
  <2>2. CASE Sync(t)
    BY <2>2, SyncKeeps
  <2>3. CASE DeleteEngine(t)
    BY <2>3, DeleteEngineKeeps
  <2>4. CASE DeleteDef(t)
    BY <2>4, DeleteDefKeeps
  <2>5. CASE AskRun(t)
    BY <2>5, AskRunKeeps
  <2>6. CASE WriteRun(t)
    BY <2>6, WriteRunKeeps
  <2>7. CASE Admit(t)
    BY <2>7, AdmitKeeps
  <2>8. CASE Insert(t)
    BY <2>8, InsertKeeps
  <2>9. CASE Record(t)
    BY <2>9, RecordKeeps
  <2>10. CASE Look(t)
    BY <2>10, LookKeeps
  <2>11. CASE Show(t)
    BY <2>11, ShowKeeps
  <2> QED BY <1>2, <2>1, <2>2, <2>3, <2>4, <2>5, <2>6, <2>7, <2>8, <2>9, <2>10, <2>11 DEF Step
<1>3. ASSUME NEW t \in Threads, Die(t) PROVE IInv'
  BY <1>3, DieKeeps
<1>4. ASSUME NEW k \in Ids, Pause(k) \/ Resume(k) \/ Finish(k) PROVE IInv'
  BY <1>4, BecomeKeeps
<1>5. ASSUME NEW k \in Ids, RemoveJob(k) PROVE IInv'
  BY <1>5, EditJobKeeps
<1>6. ASSUME NEW k \in Ids, RemoveEngine(k) PROVE IInv'
  BY <1>6, EditEngineKeeps
<1>7. ASSUME NEW k \in Ids, NEW on \in BOOLEAN, ToggleJob(k, on) PROVE IInv'
  BY <1>7, EditJobKeeps
<1>8. ASSUME NEW k \in Ids, NEW on \in BOOLEAN, ToggleEngine(k, on) PROVE IInv'
  BY <1>8, EditEngineKeeps
<1> QED BY <1>1, <1>2, <1>3, <1>4, <1>5, <1>6, <1>7, <1>8 DEF Next

LEMMA Inductive == Spec => []IInv
<1>1. Init => IInv
  BY Initially, DefsAssumption
<1>2. IInv /\ [Next]_vars => IInv'
  BY StepKeeps, Stutters, DefsAssumption
<1> QED BY <1>1, <1>2, PTL DEF Spec

\* Rows, keys and requests are well formed: a foreign key points to a row that
\* is there, and a definition that is gone has no history.
THEOREM TypeCorrect == Spec => []TypeOK
<1>1. IInv => TypeOK
  BY DEF IInv
<1> QED BY <1>1, Inductive, PTL

\* As long as no managing requests overlapped, the definition has at most one
\* cron job and no engine row but its own, and they say what it says unless
\* another page edited them since it was saved.
THEOREM RowsAgreeHolds == Spec => []RowsAgree
<1>1. IInv => RowsAgree
  <2> SUFFICES ASSUME IInv, Quiet, ~overlapped, def.state = "exists"
               PROVE  /\ Cardinality(Live(jobs)) <= 1
                      /\ Live(engines) \subseteq {def.engine}
                      /\ stale \/ Matches
    BY DEF RowsAgree
  <2>1. FewRows(def, engines, jobs) /\ Agreed(def, engines, jobs, thread, stale) /\ Mans(thread) = {}
    BY MansIs DEF IInv, Calm
  <2>2. stale \/ Matches
    BY <2>1 DEF Agreed, Says, Matches
  <2>3. Cardinality(Live(jobs)) <= 1
    <3>1. CASE Live(jobs) = {}
      BY <3>1, FS_EmptySet
    <3>2. ASSUME NEW j \in Live(jobs) PROVE Cardinality(Live(jobs)) <= 1
      <4>1. Live(jobs) = {j}
        BY <2>1, <3>2 DEF FewRows
      <4>2. Cardinality({j}) = 1
        BY FS_Singleton
      <4> QED BY <4>1, <4>2
    <3> QED BY <3>1, <3>2
  <2> QED BY <2>1, <2>2, <2>3 DEF FewRows
<1> QED BY <1>1, Inductive, PTL

\* A definition that was deleted, by requests that did not overlap, leaves no
\* job, engine row or instance.
THEOREM DeletedIsGoneHolds == Spec => []DeletedIsGone
<1>1. IInv => DeletedIsGone
  <2> SUFFICES ASSUME IInv, Quiet, ~overlapped, def.state = "deleted"
               PROVE  Live(jobs) \union Live(engines) \union Live(insts) = {}
    BY DEF DeletedIsGone
  <2>1. Live(jobs) = {} /\ Live(engines) \subseteq {0}
    BY DEF IInv, Calm, FewRows
  <2>2. Live(engines) = {}
    BY <2>1, NoZero, LiveIs, DefsAssumption
  <2>3. Live(insts) = {}
    BY <2>2, Types, DefsAssumption DEF IInv, Typed, Keys
  <2> QED BY <2>1, <2>2, <2>3
<1> QED BY <1>1, Inductive, PTL

\* Instances that start at the same time exceed max_concurrency by less than
\* the number of threads.
THEOREM ConcurrencyBoundedHolds == Spec => []ConcurrencyBounded
<1>1. IInv => ConcurrencyBounded
  BY DEF IInv
<1> QED BY <1>1, Inductive, PTL

\* An instance of the workflow page or the cron job is in the history of its
\* definition unless its thread is about to record it, or died, whatever
\* happens to its status and whoever lists the history.
THEOREM RunsTracedHolds == Spec => []RunsTraced
<1>1. IInv => RunsTraced
  BY DEF IInv
<1> QED BY <1>1, Inductive, PTL
=============================================================================
