------------------------ MODULE PluginLifecycleProofs ------------------------
(***************************************************************************)
(* Proofs for PluginLifecycle: the state is well typed, a worker whose     *)
(* fingerprint is that of the registry has the status of the row, and a    *)
(* plugin without a row has no tables if operations did not overlap.       *)
(*                                                                         *)
(* The invariant says of the shared state (Shared) and of the state of     *)
(* each worker (Local) what the steps of an operation rely on: the object  *)
(* it holds, the kind of operation a step belongs to, and that no stamp is *)
(* later than the clock, so that a new one is known to nobody.  While      *)
(* operations have not overlapped, a busy worker is alone (Apart).         *)
(*                                                                         *)
(* A step changes the state of one worker only (Frame).  There is a lemma  *)
(* for each action: its first steps name what the action writes, the       *)
(* others take the parts of the invariant from that.                       *)
(***************************************************************************)
EXTENDS PluginLifecycle, TLAPS

Ops == [kind : Kinds, pc : Steps, info : Entry \union {Cached, Nothing},
        orig : Status \union {"none"}, fp : Nat]

Shared ==
    /\ row \in Entry \union {None} /\ row.stamp <= clock
    /\ schema \in BOOLEAN /\ astray \in BOOLEAN
    /\ instance \subseteq Workers /\ handlers \subseteq instance
    /\ clock \in Nat /\ ops \in 0..MaxOps /\ restarts \in 0..MaxRestarts
    /\ silent \in 0..clock

Maps ==
    /\ cache \in [Workers -> Entry \union {None}]
    /\ seen \in [Workers -> Nat \union {Never}]
    /\ known \in [Workers -> Nat \union {Never}]
    /\ op \in [Workers -> Ops]
    /\ upgrade \in [Workers -> Entry \union {Cached, Nothing}]

\* What is held is not later than the clock, and is the cached object only
\* where there is one.
Object(w, held) ==
    /\ held \in Entry \union {Cached, Nothing} /\ held.stamp <= clock
    /\ held = Cached => cache[w] # None

\* The steps of an operation that need no row and no object.
Rowless == {"idle", "load", "register", "refresh", "start", "select", "rest"}

\* The steps of a start that go by what the cache has.
Starting == {"refresh", "start", "select", "rest"}

\* What the steps of an operation rely on.
Holds(o) ==
    /\ o.pc = "load" => o.info = Nothing
    /\ o.pc \notin Rowless => o.info # Nothing
    /\ o.pc \in {"nested", "cleanup", "delete", "rollback"} => o.kind = "uninstall"
    /\ o.kind = "uninstall" => o.orig \in Status

Reads(w) ==
    /\ cache[w] \in Entry \union {None} /\ cache[w].stamp <= clock
    /\ seen[w] \in Nat \union {Never} /\ seen[w] <= clock
    /\ known[w] \in Nat \union {Never} /\ known[w] <= clock

Works(w) ==
    /\ op[w] \in Ops /\ op[w].fp <= clock
    /\ Object(w, op[w].info)
    /\ Holds(op[w])
    /\ op[w].pc \in {"run", "mount"} => w \in instance

Local(w) == Reads(w) /\ Works(w) /\ Object(w, upgrade[w])

Sound == Shared /\ Maps /\ \A w \in Workers : Local(w)

\* While operations and starts have not overlapped, one worker at most is busy;
\* what it does has a row, a start has cached nothing where there is none, and
\* the tables are gone before the row is deleted.
Serves(w) ==
    /\ op[w].pc \notin Rowless => row # None
    /\ op[w].pc \in Starting /\ row = None => cache[w] = None
    /\ op[w].pc = "delete" => ~schema
Apart ==
    ~astray => /\ \A v, w \in Workers : Busy(v) /\ Busy(w) => v = w
               /\ \A w \in Workers : Serves(w)
               /\ row = None => ~schema

IInv == Sound /\ CacheFollowsRegistry /\ Apart

\* A step of w leaves the state of the other workers alone.
Only(f, g, w) == g = f \/ g = [f EXCEPT ![w] = g[w]]
Frame(w) ==
    /\ clock' \in Nat /\ clock <= clock'
    /\ Only(cache, cache', w) /\ Only(seen, seen', w) /\ Only(known, known', w)
    /\ Only(op, op', w) /\ Only(upgrade, upgrade', w)
    /\ \A v \in Workers \ {w} : v \in instance <=> v \in instance'
-----------------------------------------------------------------------------
LEMMA EntryFacts ==
    /\ \A e \in Entry : e.status \in Status /\ e.stamp \in Nat \ {0}
    /\ \A e \in Entry, s \in Status :
        /\ [e EXCEPT !.status = s] \in Entry
        /\ [e EXCEPT !.status = s].status = s
        /\ [e EXCEPT !.status = s].stamp = e.stamp
    /\ None \notin Entry /\ Cached \notin Entry /\ Nothing \notin Entry
    /\ Cached # Nothing /\ None # Cached /\ None # Nothing
    /\ None.stamp = 0 /\ Cached.stamp = 0 /\ Nothing.stamp = 0
    /\ None.status = "none"
  BY DEF Entry, None, Cached, Nothing, Status

LEMMA StampedFacts ==
  ASSUME clock \in Nat, NEW s \in Status
  PROVE  /\ Stamped(s) \in Entry
         /\ Stamped(s).status = s /\ Stamped(s).stamp = clock + 1
  BY DEF Stamped, Now, Entry

LEMMA OpsFacts ==
    \A o \in Ops : /\ o.kind \in Kinds /\ o.pc \in Steps /\ o.fp \in Nat
                   /\ o.info \in Entry \union {Cached, Nothing}
                   /\ o.orig \in Status \union {"none"}
  BY DEF Ops

LEMMA IdleFacts ==
    /\ Idle \in Ops /\ Idle.info = Nothing /\ Idle.fp = 0
    /\ Idle.kind = "idle" /\ Idle.pc = "idle"
  BY DEF Idle, Ops, Kinds, Steps

LEMMA TypesFollow == Sound => TypeOK
  BY EntryFacts DEF Sound, Shared, Maps, Local, Reads, Works, Object, TypeOK, Ops

LEMMA FrameKeeps ==
  ASSUME Sound, NEW w \in Workers, Frame(w), Shared', Local(w)'
  PROVE  Sound'
<1>0. /\ cache'[w] \in Entry \union {None}
      /\ seen'[w] \in Nat \union {Never} /\ known'[w] \in Nat \union {Never}
      /\ op'[w] \in Ops /\ upgrade'[w] \in Entry \union {Cached, Nothing}
  BY DEF Local, Reads, Works, Object
<1>a. Maps
  BY DEF Sound
<1>b. cache' \in [Workers -> Entry \union {None}] /\ \A v \in Workers \ {w} : cache'[v] = cache[v]
  BY <1>0, <1>a DEF Frame, Only, Maps
<1>c. seen' \in [Workers -> Nat \union {Never}] /\ \A v \in Workers \ {w} : seen'[v] = seen[v]
  BY <1>0, <1>a DEF Frame, Only, Maps
<1>d. known' \in [Workers -> Nat \union {Never}] /\ \A v \in Workers \ {w} : known'[v] = known[v]
  BY <1>0, <1>a DEF Frame, Only, Maps
<1>e. op' \in [Workers -> Ops] /\ \A v \in Workers \ {w} : op'[v] = op[v]
  BY <1>0, <1>a DEF Frame, Only, Maps
<1>f. /\ upgrade' \in [Workers -> Entry \union {Cached, Nothing}]
      /\ \A v \in Workers \ {w} : upgrade'[v] = upgrade[v]
  BY <1>0, <1>a DEF Frame, Only, Maps
<1>1. ASSUME NEW v \in Workers, v # w PROVE Local(v)'
  <2>1. cache'[v] = cache[v] /\ seen'[v] = seen[v] /\ known'[v] = known[v]
        /\ op'[v] = op[v] /\ upgrade'[v] = upgrade[v] /\ (v \in instance <=> v \in instance')
    BY <1>1, <1>b, <1>c, <1>d, <1>e, <1>f DEF Frame
  <2>2. clock \in Nat /\ clock' \in Nat /\ clock <= clock'
    BY DEF Frame, Sound, Shared
  <2>3. Local(v)
    BY DEF Sound
  <2>4. \A e \in Entry \union {None, Cached, Nothing} : e.stamp <= clock => e.stamp <= clock'
    BY <2>2, EntryFacts
  <2>5. Object(v, upgrade[v])' /\ Object(v, op[v].info)'
    BY <2>1, <2>3, <2>4 DEF Local, Works, Object
  <2>6. Holds(op[v])' /\ (op[v].pc \in {"run", "mount"} => v \in instance)'
    BY <2>1, <2>3 DEF Local, Works, Holds, Rowless
  <2>7. cache'[v] \in Entry \union {None} /\ cache'[v].stamp <= clock'
    BY <2>1, <2>3, <2>4 DEF Local, Reads
  <2>8. /\ seen'[v] \in Nat \union {Never} /\ seen'[v] <= clock'
        /\ known'[v] \in Nat \union {Never} /\ known'[v] <= clock'
    BY <2>1, <2>2, <2>3 DEF Local, Reads, Never
  <2>9. op'[v] \in Ops /\ op'[v].fp <= clock'
    <3>1. op[v].fp \in Nat /\ op[v].fp <= clock /\ op[v] \in Ops
      BY <2>3, OpsFacts DEF Local, Works
    <3> QED BY <3>1, <2>1, <2>2
  <2> QED
    BY <2>5, <2>6, <2>7, <2>8, <2>9 DEF Local, Reads, Works
<1> QED BY <1>b, <1>c, <1>d, <1>e, <1>f, <1>1 DEF Sound, Maps

LEMMA KeepsObject ==
  ASSUME Sound, NEW w \in Workers, NEW held, Object(w, held)
  PROVE  /\ Keeps(w, held) \in Entry \union {Nothing} /\ Keeps(w, held).stamp <= clock
         /\ held # Nothing => Keeps(w, held) # Nothing
  BY EntryFacts DEF Keeps, Object, Sound, Local, Reads

LEMMA InfoEntry ==
  ASSUME Sound, NEW w \in Workers,
         op[w].pc \notin Rowless
  PROVE  Info(w) \in Entry /\ Info(w).stamp <= clock
<1>1. Object(w, op[w].info) /\ op[w].info # Nothing
  BY DEF Sound, Local, Works, Holds, Rowless
<1> QED BY <1>1, KeepsObject DEF Info

LEMMA GotEntry ==
  ASSUME Sound, NEW w \in Workers, NEW info \in {cache[w], Refreshed(w)}
  PROVE  /\ info \in Entry \union {None} /\ info.stamp <= clock
         /\ cache[w] # None => info # None
         /\ Got(w, info) \in Entry \union {None} /\ Got(w, info).stamp <= clock
<1>1. cache[w] \in Entry \union {None} /\ cache[w].stamp <= clock
      /\ row \in Entry \union {None} /\ row.stamp <= clock
  BY DEF Sound, Local, Reads, Shared
<1>2. /\ info \in Entry \union {None} /\ info.stamp <= clock
      /\ cache[w] # None => info # None
  <2>1. CASE info = cache[w]
    BY <1>1, <2>1
  <2>2. CASE info = Refreshed(w) /\ cache[w] # None /\ row # None
    <3>1. row.status \in Status /\ cache[w] \in Entry
      BY <1>1, <2>2, EntryFacts
    <3>2. info = [cache[w] EXCEPT !.status = row.status]
      BY <2>2 DEF Refreshed
    <3> QED BY <1>1, <3>1, <3>2, EntryFacts
  <2>3. CASE info = Refreshed(w) /\ ~(cache[w] # None /\ row # None)
    BY <1>1, <2>3 DEF Refreshed
  <2> QED BY <2>1, <2>2, <2>3
<1> QED BY <1>1, <1>2 DEF Got

LEMMA LeavesObject ==
  ASSUME Sound, NEW w \in Workers, NEW held, Object(w, held),
         NEW info \in {cache[w], Refreshed(w)}
  PROVE  /\ Leaves(w, held, info) \in Entry \union {Cached, Nothing}
         /\ Leaves(w, held, info).stamp <= clock
         /\ Leaves(w, held, info) = Cached => Got(w, info) # None
         /\ held # Nothing => Leaves(w, held, info) # Nothing
  BY GotEntry, EntryFacts DEF Leaves, Object, Reloads, Got
-----------------------------------------------------------------------------
LEMMA NatFacts ==
  ASSUME Sound
  PROVE  /\ clock \in Nat
         /\ \A e \in Entry \union {None, Cached, Nothing} : e.stamp \in Nat
  BY EntryFacts DEF Sound, Shared

LEMMA FailedEntry ==
  ASSUME Sound, NEW w \in Workers,
         op[w].pc \notin Rowless
  PROVE  /\ [Info(w) EXCEPT !.status = "error"] \in Entry
         /\ [Info(w) EXCEPT !.status = "error"].stamp \in 1..clock
         /\ Info(w) \in Entry /\ Info(w).stamp \in 1..clock
<1>1. Info(w) \in Entry /\ Info(w).stamp <= clock
  BY InfoEntry
<1>2. Info(w).stamp \in Nat \ {0}
  BY <1>1, EntryFacts
<1>3. /\ [Info(w) EXCEPT !.status = "error"] \in Entry
      /\ [Info(w) EXCEPT !.status = "error"].stamp = Info(w).stamp
  BY <1>1, EntryFacts DEF Status
<1> QED BY <1>1, <1>2, <1>3, NatFacts

Moves(w, step) == op'[w] = [op[w] EXCEPT !.pc = step]
MovesWith(w, step, info) == op'[w] = [op[w] EXCEPT !.pc = step, !.info = info]

LEMMA Moved ==
  ASSUME Sound, NEW w \in Workers, NEW step
  PROVE  /\ Moves(w, step) => op'[w].pc = step
         /\ \A info : MovesWith(w, step, info) => op'[w].pc = step
<1>1. op[w] \in Ops
  BY DEF Sound, Local, Works
<1> QED BY <1>1 DEF Moves, MovesWith, Ops

\* An operation ends,
LEMMA Ends ==
  ASSUME Sound, NEW w \in Workers, op'[w] = Idle, clock' \in Nat
  PROVE  Works(w)'
  BY EntryFacts, IdleFacts DEF Works, Holds, Rowless, Object

\* or goes on with the object it has,
LEMMA GoesOn ==
  ASSUME Sound, NEW w \in Workers, NEW step \in Steps,
         Moves(w, step),
         clock' \in Nat, clock <= clock', step # "load",
         op[w].info = Cached /\ cache[w] # None => cache'[w] # None,
         step \notin Rowless => op[w].info # Nothing,
         step \in {"nested", "cleanup", "delete", "rollback"} => op[w].kind = "uninstall",
         step \in {"run", "mount"} => w \in instance'
  PROVE  Works(w)'
<1>1. /\ op[w] \in Ops /\ op[w].fp <= clock /\ Object(w, op[w].info) /\ Holds(op[w])
  BY DEF Sound, Local, Works
<1>2. /\ op'[w] \in Ops /\ op'[w].pc = step /\ op'[w].kind = op[w].kind
      /\ op'[w].info = op[w].info /\ op'[w].orig = op[w].orig /\ op'[w].fp = op[w].fp
  BY <1>1 DEF Ops, Moves
<1>3. op[w].info.stamp \in Nat /\ op[w].fp \in Nat /\ clock \in Nat
  BY <1>1, OpsFacts, NatFacts DEF Object
<1>4. op'[w].fp <= clock' /\ Object(w, op[w].info)'
  BY <1>1, <1>2, <1>3 DEF Object
<1>5. Holds(op[w])'
  BY <1>1, <1>2 DEF Holds, Rowless
<1> QED BY <1>2, <1>4, <1>5 DEF Works

\* or with another one.
LEMMA GoesOnWith ==
  ASSUME Sound, NEW w \in Workers, NEW step \in Steps,
         NEW info \in Entry \union {Cached, Nothing},
         MovesWith(w, step, info),
         clock' \in Nat, clock <= clock', info.stamp <= clock', info = Cached => cache'[w] # None,
         step \notin Rowless => info # Nothing,
         step \in {"nested", "cleanup", "delete", "rollback"} => op[w].kind = "uninstall",
         step \notin {"load", "run", "mount"}
  PROVE  Works(w)'
<1>1. /\ op[w] \in Ops /\ op[w].fp <= clock /\ Holds(op[w])
  BY DEF Sound, Local, Works
<1>2. /\ op'[w] \in Ops /\ op'[w].pc = step /\ op'[w].kind = op[w].kind
      /\ op'[w].info = info /\ op'[w].orig = op[w].orig /\ op'[w].fp = op[w].fp
  BY <1>1 DEF Ops, MovesWith
<1>3. op[w].fp \in Nat /\ clock \in Nat
  BY <1>1, OpsFacts, NatFacts
<1>4. op'[w].fp <= clock' /\ Object(w, op[w].info)'
  BY <1>1, <1>2, <1>3 DEF Object
<1>5. Holds(op[w])'
  BY <1>1, <1>2 DEF Holds, Rowless
<1> QED BY <1>2, <1>4, <1>5 DEF Works

\* An operation is left where it is.
LEMMA Stays ==
  ASSUME Sound, NEW w \in Workers, op'[w] = op[w], clock' \in Nat, clock <= clock',
         op[w].info = Cached /\ cache[w] # None => cache'[w] # None,
         w \in instance => w \in instance'
  PROVE  Works(w)'
<1>1. /\ op[w] \in Ops /\ op[w].fp <= clock /\ Object(w, op[w].info) /\ Holds(op[w])
      /\ op[w].pc \in {"run", "mount"} => w \in instance
  BY DEF Sound, Local, Works
<1>2. op[w].info.stamp \in Nat /\ op[w].fp \in Nat /\ clock \in Nat
  BY <1>1, OpsFacts, NatFacts DEF Object
<1>3. Object(w, op[w].info)'
  BY <1>1, <1>2 DEF Object
<1>4. Holds(op[w])'
  BY <1>1 DEF Holds, Rowless
<1> QED BY <1>1, <1>2, <1>3, <1>4 DEF Works

\* An operation begins with the cached object.
LEMMA Begins ==
  ASSUME Sound, NEW w \in Workers, NEW kind \in Kinds, NEW step \in Steps,
         NEW orig \in Status \union {"none"}, clock' \in Nat,
         op'[w] = [kind |-> kind, pc |-> step, info |-> Cached, orig |-> orig, fp |-> 0],
         cache'[w] # None, step # "load",
         step \in {"nested", "cleanup", "delete", "rollback"} => kind = "uninstall",
         kind = "uninstall" => orig \in Status,
         step \in {"run", "mount"} => w \in instance'
  PROVE  Works(w)'
<1>1. /\ op'[w] \in Ops /\ op'[w].pc = step /\ op'[w].kind = kind /\ op'[w].info = Cached
      /\ op'[w].orig = orig /\ op'[w].fp = 0
  BY DEF Ops
<1>2. Object(w, op[w].info)'
  BY <1>1, EntryFacts DEF Object
<1>3. Holds(op[w])'
  BY <1>1, EntryFacts DEF Holds, Rowless
<1> QED BY <1>1, <1>2, <1>3 DEF Works

\* What an upgrade holds, where the cached object stays, is changed in place
\* or is replaced.
LEMMA UpgradeHolds ==
  ASSUME Sound, NEW w \in Workers, clock' \in Nat, clock <= clock',
         \/ upgrade'[w] = upgrade[w] /\ (upgrade[w] = Cached /\ cache[w] # None => cache'[w] # None)
         \/ upgrade'[w] = Keeps(w, upgrade[w])
  PROVE  Object(w, upgrade[w])'
<1>1. Object(w, upgrade[w])
  BY DEF Sound, Local
<1>2. Keeps(w, upgrade[w]) \in Entry \union {Nothing} /\ Keeps(w, upgrade[w]).stamp <= clock
  BY <1>1, KeepsObject
<1>3. upgrade'[w] \in Entry \union {Cached, Nothing} /\ upgrade'[w].stamp <= clock
  BY <1>1, <1>2 DEF Object
<1>4. upgrade'[w] = Cached => cache'[w] # None
  BY <1>1, <1>2, EntryFacts DEF Object
<1>5. upgrade'[w].stamp <= clock'
  BY <1>3, NatFacts
<1> QED BY <1>3, <1>4, <1>5 DEF Object

LEMMA ReadsOn ==
  ASSUME Sound, NEW w \in Workers, clock' \in Nat, clock <= clock',
         cache'[w] \in Entry \union {None}, cache'[w].stamp <= clock',
         seen'[w] \in {seen[w], Never}, known'[w] \in {known[w], seen[w], Never}
  PROVE  Reads(w)'
<1>1. /\ seen[w] \in Nat \union {Never} /\ seen[w] <= clock
      /\ known[w] \in Nat \union {Never} /\ known[w] <= clock
  BY DEF Sound, Local, Reads
<1> QED BY <1>1, NatFacts DEF Reads, Never
-----------------------------------------------------------------------------
\* The cache follows the registry: in other workers when the row gets a stamp
\* that nobody knows yet, is gone, or is saved silently; in this one too when
\* it reads the row.
Follows(w) ==
    \/ row' = None
    \/ row'.stamp = silent'
    \/ row'.stamp = clock + 1 /\ known'[w] = known[w]
    \/ /\ row' = row /\ silent' = silent
       /\ \/ known'[w] = known[w] /\ cache'[w] \in {cache[w], Refreshed(w)}
          \/ cache'[w] = row

LEMMA FollowsKeeps ==
  ASSUME Sound, CacheFollowsRegistry, NEW w \in Workers, Frame(w), Follows(w)
  PROVE  CacheFollowsRegistry'
<1> SUFFICES ASSUME NEW v \in Workers, row' # None, known'[v] = row'.stamp, row'.stamp # silent'
             PROVE  cache'[v].status = row'.status
  BY DEF CacheFollowsRegistry, Fingerprint
<1>1. /\ known[v] \in Nat \union {Never} /\ known[v] <= clock /\ clock \in Nat
      /\ row \in Entry \union {None}
  BY DEF Sound, Local, Reads, Shared
<1>2. v # w => known'[v] = known[v] /\ cache'[v] = cache[v]
  BY DEF Frame, Only, Sound, Maps
<1>3. row'.stamp # clock + 1 \/ known'[v] # known[v]
  BY <1>1 DEF Never
<1>4. row' = row /\ row.stamp # silent
  BY <1>2, <1>3 DEF Follows
<1>5. CASE known'[v] = known[v] /\ cache'[v] = cache[v]
  BY <1>4, <1>5 DEF CacheFollowsRegistry, Fingerprint
<1>6. CASE v = w /\ cache'[w] = row
  BY <1>4, <1>6
<1>7. CASE v = w /\ known'[w] = known[w] /\ cache'[w] = Refreshed(w)
  <2>1. CASE cache[w] = None
    BY <1>4, <1>7, <2>1 DEF CacheFollowsRegistry, Fingerprint, Refreshed
  <2>2. CASE cache[w] # None
    <3>1. cache[w] \in Entry /\ row.status \in Status
      BY <1>1, <1>4, <2>2, EntryFacts DEF Sound, Local, Reads
    <3> QED BY <1>4, <1>7, <2>2, <3>1, EntryFacts DEF Refreshed
  <2> QED BY <2>1, <2>2
<1> QED BY <1>2, <1>3, <1>4, <1>5, <1>6, <1>7 DEF Follows

LEMMA GetFollows ==
  ASSUME NEW w \in Workers, NEW info \in {cache[w], Refreshed(w)},
         row' = row, silent' = silent, cache'[w] = Got(w, info), known'[w] = seen[w]
  PROVE  Follows(w)
  BY DEF Follows, Got, Reloads, Stale

\* Where operations have not overlapped, the worker that takes a step of an
\* operation, or begins one, is the only one that is busy.
Solo(w) == ~astray' => ~astray /\ \A v \in Workers \ {w} : ~Busy(v)

LEMMA Lone ==
  ASSUME Apart, NEW w \in Workers, Busy(w), astray' = astray
  PROVE  Solo(w)
  BY DEF Apart, Solo

LEMMA ApartKeeps ==
  ASSUME Sound, NEW w \in Workers, Frame(w), Solo(w),
         ~astray' => Serves(w)' /\ (row' = None => ~schema')
  PROVE  Apart'
<1> SUFFICES ASSUME ~astray'
             PROVE  /\ \A u, v \in Workers : Busy(u)' /\ Busy(v)' => u = v
                    /\ \A v \in Workers : Serves(v)'
                    /\ row' = None => ~schema'
  BY DEF Apart
<1>1. \A v \in Workers \ {w} : op'[v] = op[v] /\ upgrade'[v] = upgrade[v] /\ ~Busy(v)
  BY DEF Frame, Only, Sound, Maps, Solo
<1>2. \A v \in Workers \ {w} : ~Busy(v)' /\ op'[v] = Idle
  BY <1>1 DEF Busy, Free
<1>3. \A v \in Workers \ {w} : Serves(v)'
  BY <1>2, IdleFacts DEF Serves, Starting, Rowless
<1> QED BY <1>2, <1>3

\* A step that begins no operation and changes neither row nor tables.
LEMMA ApartStays ==
  ASSUME Sound, Apart, NEW w \in Workers, Frame(w),
         UNCHANGED <<row, schema, op, astray>>,
         upgrade'[w] = Nothing <=> upgrade[w] = Nothing,
         cache' = cache \/ op[w] = Idle
  PROVE  Apart'
<1>1. \A v \in Workers : Busy(v)' <=> Busy(v)
  BY DEF Busy, Free, Frame, Only, Sound, Maps
<1>2. \A v \in Workers : Serves(v)' <=> Serves(v)
  <2>1. \A v \in Workers : cache'[v] = cache[v] \/ op[v] = Idle
    BY DEF Frame, Only, Sound, Maps
  <2> QED BY <2>1, IdleFacts DEF Serves, Rowless, Starting
<1> QED BY <1>1, <1>2 DEF Apart

LEMMA Counted ==
  ASSUME NEW w \in Workers, NEW onRow \in BOOLEAN, Counts(w, onRow)
  PROVE  /\ Solo(w) /\ ops < MaxOps /\ ops' = ops + 1 /\ astray' \in BOOLEAN
         /\ ~astray' /\ onRow => row # None
  BY DEF Counts, Solo
-----------------------------------------------------------------------------
LEMMA ReloadKeeps ==
  ASSUME LifecycleAssumption, IInv, NEW w \in Workers, Reload(w)
  PROVE  IInv'
<1>0. Sound /\ Shared /\ Maps /\ Local(w) /\ CacheFollowsRegistry /\ Apart
  BY DEF IInv, Sound
<1>a. Keeps(w, upgrade[w]) = Nothing <=> upgrade[w] = Nothing
  BY <1>0, KeepsObject, EntryFacts DEF Local, Keeps
<1>1. /\ cache' = [cache EXCEPT ![w] = row]
      /\ upgrade' = [upgrade EXCEPT ![w] = Keeps(w, upgrade[w])]
      /\ known' = [known EXCEPT ![w] = seen[w]]
      /\ op[w] = Idle
      /\ UNCHANGED <<row, clock, schema, seen, op, instance, handlers, ops, restarts, silent, astray>>
  BY DEF Reload, Replace, Free, local, bounds
<1>2. Frame(w)
  BY <1>0, <1>1 DEF Frame, Only, Maps, Shared
<1>3. Shared'
  BY <1>0, <1>1 DEF Shared
<1>4. /\ cache'[w] \in Entry \union {None} /\ cache'[w].stamp <= clock'
  BY <1>0, <1>1 DEF Shared, Local, Reads
<1>5. Reads(w)'
  BY <1>0, <1>1, <1>4, ReadsOn DEF Shared
<1>6. Works(w)'
  <2>1. op'[w] = Idle
    BY <1>1 DEF Maps, Moves, MovesWith
  <2> QED
    BY <1>0, <1>1, Ends DEF Shared
<1>7. Object(w, upgrade[w])'
  BY <1>0, <1>1, UpgradeHolds DEF Shared, Maps
<1>8. Follows(w)
  BY <1>0, <1>1 DEF Follows, Maps
<1>9. Apart'
  BY <1>0, <1>1, <1>2, <1>a, ApartStays
<1> QED
  BY <1>1, <1>2, <1>3, <1>5, <1>6, <1>7, <1>8, <1>9, FrameKeeps, FollowsKeeps
     DEF IInv, Local

LEMMA InstallSavesKeeps ==
  ASSUME LifecycleAssumption, IInv, NEW w \in Workers, InstallSaves(w)
  PROVE  IInv'
<1>0. Sound /\ Shared /\ Maps /\ Local(w) /\ CacheFollowsRegistry /\ Apart
  BY DEF IInv, Sound
<1>b. Stamped("installed") \in Entry /\ Stamped("installed").stamp = clock + 1
  BY <1>0, StampedFacts DEF Shared, Status
<1>1. /\ row' = Stamped("installed") /\ clock' = clock + 1 /\ silent' = 0
      /\ cache' = [cache EXCEPT ![w] = Stamped("installed")]
      /\ upgrade' = [upgrade EXCEPT ![w] = Keeps(w, upgrade[w])]
      /\ op' = [op EXCEPT ![w] = Idle]
      /\ UNCHANGED <<seen, known, schema, instance, handlers, ops, restarts, astray>>
  BY DEF InstallSaves, SaveStamped, Now, Replace, End, local, bounds, still
<1>2. Frame(w)
  BY <1>0, <1>1 DEF Frame, Only, Maps, Shared
<1>3. Shared'
  BY <1>0, <1>1, <1>b DEF Shared, Status
<1>4. /\ cache'[w] \in Entry \union {None} /\ cache'[w].stamp <= clock'
      /\ cache[w] # None => cache'[w] # None
  BY <1>0, <1>1, <1>b, EntryFacts DEF Maps
<1>5. Reads(w)'
  BY <1>0, <1>1, <1>4, ReadsOn DEF Shared
<1>6. Works(w)'
  <2>1. op'[w] = Idle
    BY <1>0, <1>1 DEF Maps, Moves, MovesWith
  <2> QED
    BY <2>1, <1>0, <1>1, Ends DEF Shared
<1>7. Object(w, upgrade[w])'
  BY <1>0, <1>1, <1>4, UpgradeHolds DEF Shared
<1>8. Follows(w)
  BY <1>1, <1>b DEF Follows, Maps, Shared
<1>9. Solo(w)
  BY <1>0, <1>1, Lone, IdleFacts DEF InstallSaves, At, Busy, Free
<1>10. ~astray' => Serves(w)' /\ (row' = None => ~schema')
  BY <1>0, <1>1, <1>b, IdleFacts, EntryFacts DEF Apart, Serves, Starting
<1> QED
  BY <1>1, <1>2, <1>3, <1>5, <1>6, <1>7, <1>8, <1>9, <1>10, FrameKeeps, FollowsKeeps,
       ApartKeeps DEF IInv, Local

LEMMA InstallLoadsKeeps ==
  ASSUME LifecycleAssumption, IInv, NEW w \in Workers, InstallLoads(w)
  PROVE  IInv'
<1>0. Sound /\ Shared /\ Maps /\ Local(w) /\ CacheFollowsRegistry /\ Apart
  BY DEF IInv, Sound
<1>a. op[w].info = Nothing /\ op[w].fp \in Nat /\ op[w].fp <= clock
  BY <1>0, OpsFacts DEF InstallLoads, At, Local, Works, Holds
<1>1. /\ op[w].pc = "load"
      /\ cache' = [cache EXCEPT ![w] = row]
      /\ upgrade' = [upgrade EXCEPT ![w] = Keeps(w, upgrade[w])]
      /\ seen' = [seen EXCEPT ![w] = op[w].fp]
      /\ known' = [known EXCEPT ![w] = op[w].fp]
      /\ \/ op' = [op EXCEPT ![w] = Idle]
         \/ op' = [op EXCEPT ![w].pc = "register"]
      /\ UNCHANGED <<row, clock, schema, instance, handlers, ops, restarts, silent, astray>>
  BY DEF InstallLoads, Replace, Goto, End, At, local, bounds
<1>2. Frame(w)
  BY <1>0, <1>1 DEF Frame, Only, Maps, Shared
<1>3. Shared'
  BY <1>0, <1>1 DEF Shared
<1>4. /\ cache'[w] \in Entry \union {None} /\ cache'[w].stamp <= clock'
  BY <1>0, <1>1 DEF Shared, Local, Reads
<1>5. Reads(w)'
  BY <1>0, <1>1, <1>4, <1>a, NatFacts DEF Maps, Reads
<1>6. Works(w)'
  <2>1. Moves(w, "register") \/ op'[w] = Idle
    BY <1>0, <1>1 DEF Maps, Moves, MovesWith
  <2> QED
    BY <2>1, <1>0, <1>1, <1>a, GoesOn, Ends, EntryFacts DEF Shared, Steps, Rowless
<1>7. Object(w, upgrade[w])'
  BY <1>0, <1>1, UpgradeHolds DEF Shared, Maps
<1>8. Follows(w)
  BY <1>0, <1>1 DEF Follows, Maps
<1>9. Solo(w)
  BY <1>0, <1>1, Lone, IdleFacts DEF InstallLoads, Busy, Free
<1>10. ~astray' => Serves(w)' /\ (row' = None => ~schema')
  BY <1>0, <1>1, IdleFacts DEF Apart, Maps, Ops, Serves, Starting, Rowless
<1> QED
  BY <1>1, <1>2, <1>3, <1>5, <1>6, <1>7, <1>8, <1>9, <1>10, FrameKeeps, FollowsKeeps,
       ApartKeeps DEF IInv, Local

LEMMA EnableGateKeeps ==
  ASSUME LifecycleAssumption, IInv, NEW w \in Workers, EnableGate(w)
  PROVE  IInv'
<1>0. Sound /\ Shared /\ Maps /\ Local(w) /\ CacheFollowsRegistry /\ Apart
  BY DEF IInv, Sound
<1>a. /\ [Info(w) EXCEPT !.status = "error"] \in Entry
      /\ [Info(w) EXCEPT !.status = "error"].stamp \in 1..clock
      /\ Info(w) \in Entry /\ Info(w).stamp \in 1..clock
  BY <1>0, FailedEntry DEF EnableGate, At, Rowless
<1>c. op[w].info # Nothing /\ op[w].kind \in Kinds
  BY <1>0, OpsFacts DEF EnableGate, At, Local, Works, Holds, Rowless
<1>1. PICK failed \in Entry :
      /\ op[w].pc = "gate"
      /\ failed.stamp \in 1..clock
      /\ \/ UNCHANGED <<row, silent, cache>>
         \/ /\ row' = failed
            /\ silent' = IF row' = row THEN silent ELSE failed.stamp
            /\ cache' = [cache EXCEPT ![w] = failed] \/ cache' = cache
      /\ \/ op' = [op EXCEPT ![w] = Idle]
         \/ op' = [op EXCEPT ![w].pc = "setup"]
      /\ UNCHANGED <<clock, upgrade, seen, known, schema, instance, handlers, ops, restarts, astray>>
  BY <1>a
     DEF EnableGate, Fails, SaveAsIs, Edit, Goto, End, NoSave, At, local, bounds, still
<1>2. Frame(w)
  BY <1>0, <1>1 DEF Frame, Only, Shared
<1>3. Shared'
  BY <1>0, <1>1 DEF Shared
<1>4. /\ cache'[w] \in Entry \union {None} /\ cache'[w].stamp <= clock'
      /\ cache[w] # None => cache'[w] # None
  BY <1>0, <1>1, EntryFacts DEF Maps, Local, Reads
<1>5. Reads(w)'
  BY <1>0, <1>1, <1>4, ReadsOn DEF Shared
<1>6. Works(w)'
  <2>1. Moves(w, "setup") \/ op'[w] = Idle
    BY <1>0, <1>1 DEF Maps, Moves, MovesWith
  <2> QED
    BY <2>1, <1>0, <1>1, <1>4, <1>c, GoesOn, Ends DEF Shared, Steps
<1>7. Object(w, upgrade[w])'
  BY <1>0, <1>1, <1>4, UpgradeHolds DEF Shared
<1>8. Follows(w)
  BY <1>0, <1>1 DEF Follows, Maps
<1>9. Solo(w)
  BY <1>0, <1>1, Lone, IdleFacts DEF EnableGate, Busy, Free
<1>10. ~astray' => Serves(w)' /\ (row' = None => ~schema')
  BY <1>0, <1>1, IdleFacts, EntryFacts DEF Apart, Maps, Ops, Serves, Starting, Rowless
<1> QED
  BY <1>1, <1>2, <1>3, <1>5, <1>6, <1>7, <1>8, <1>9, <1>10, FrameKeeps, FollowsKeeps,
       ApartKeeps DEF IInv, Local

LEMMA BeginOnKeeps ==
  ASSUME LifecycleAssumption, IInv, NEW w \in Workers,
         NEW kind \in {"enable", "activate", "disable", "uninstall"},
         NEW step \in {"conflicts", "run", "heal", "detach", "nested", "cleanup"},
         NEW info \in {cache[w], Refreshed(w)}, BeginOn(w, kind, step, info),
         step = "run" => w \in instance,
         step \in {"nested", "cleanup"} => kind = "uninstall"
  PROVE  IInv'
<1>0. Sound /\ Shared /\ Maps /\ Local(w) /\ CacheFollowsRegistry /\ Apart
  BY DEF IInv, Sound
<1> DEFINE orig == IF kind = "uninstall" THEN Got(w, info).status ELSE "none"
<1>a. Solo(w) /\ ops \in 0..MaxOps /\ ops < MaxOps /\ ops' = ops + 1
      /\ astray' \in BOOLEAN /\ (~astray' => row # None)
  BY <1>0, Counted DEF BeginOn, Begin, Shared
<1>b. Got(w, info) \in Entry /\ Got(w, info).stamp <= clock /\ orig \in Status \union {"none"}
      /\ (kind = "uninstall" => orig \in Status)
  BY <1>0, GotEntry, EntryFacts DEF BeginOn
<1>c. /\ Leaves(w, upgrade[w], info) \in Entry \union {Cached, Nothing}
      /\ Leaves(w, upgrade[w], info).stamp <= clock
  BY <1>0, LeavesObject DEF Local
<1> HIDE DEF orig
<1>1. /\ cache' = [cache EXCEPT ![w] = Got(w, info)]
      /\ known' = [known EXCEPT ![w] = seen[w]]
      /\ upgrade' = [upgrade EXCEPT ![w] = Leaves(w, upgrade[w], info)]
      /\ op' = [op EXCEPT ![w] = [kind |-> kind, pc |-> step, info |-> Cached,
                                  orig |-> orig, fp |-> 0]]
      /\ UNCHANGED <<row, clock, schema, seen, instance, handlers, restarts, silent>>
  BY DEF BeginOn, Get, Begin, orig, local
<1>2. Frame(w)
  BY <1>0, <1>1 DEF Frame, Only, Maps, Shared
<1>3. Shared'
  BY <1>0, <1>1, <1>a, LifecycleAssumption DEF Shared
<1>4. /\ cache'[w] \in Entry \union {None} /\ cache'[w].stamp <= clock'
      /\ cache[w] # None => cache'[w] # None
  BY <1>0, <1>1, <1>b, EntryFacts DEF Local, Reads
<1>5. Reads(w)'
  BY <1>0, <1>1, <1>4, ReadsOn DEF Shared
<1>6. Works(w)'
  <2>1. op'[w] = [kind |-> kind, pc |-> step, info |-> Cached, orig |-> orig, fp |-> 0]
    BY <1>0, <1>1 DEF Maps, Moves, MovesWith
  <2>2. kind \in Kinds /\ step \in Steps /\ cache'[w] # None /\ clock' \in Nat
    BY <1>0, <1>1, <1>b, EntryFacts DEF Kinds, Steps, Maps, Shared
  <2> QED
    BY <2>1, <2>2, <1>0, <1>1, <1>b, Begins
<1>7. Object(w, upgrade[w])'
  BY <1>0, <1>1, <1>b, <1>c, EntryFacts DEF Maps, Object
<1>8. Follows(w)
  BY <1>0, <1>1, GetFollows DEF Maps
<1>9. Solo(w)
  BY <1>a
<1>10. ~astray' => Serves(w)' /\ (row' = None => ~schema')
  BY <1>0, <1>1, <1>a DEF Solo, Apart, Serves, Starting
<1> QED
  BY <1>1, <1>2, <1>3, <1>5, <1>6, <1>7, <1>8, <1>9, <1>10, FrameKeeps, FollowsKeeps,
       ApartKeeps DEF IInv, Local

LEMMA ListsKeeps ==
  ASSUME LifecycleAssumption, IInv, NEW w \in Workers,
         NEW next \in {"gate", "activate", "cleanup", "select"}, Lists(w, next),
         next = "cleanup" => op[w].kind = "uninstall",
         IF next = "select" THEN op[w].pc = "start" ELSE op[w].pc \notin Rowless
  PROVE  IInv'
<1>0. Sound /\ Shared /\ Maps /\ Local(w) /\ CacheFollowsRegistry /\ Apart
  BY DEF IInv, Sound
<1>a. /\ op[w].pc \notin Rowless => op[w].info # Nothing
      /\ Object(w, op[w].info)
  BY <1>0 DEF Local, Works, Holds
<1>b. /\ Keeps(w, op[w].info) \in Entry \union {Nothing} /\ Keeps(w, op[w].info).stamp <= clock
      /\ op[w].info # Nothing => Keeps(w, op[w].info) # Nothing
  BY <1>0, <1>a, KeepsObject
<1>1. /\ \/ /\ cache' = [cache EXCEPT ![w] = row]
            /\ upgrade' = [upgrade EXCEPT ![w] = Keeps(w, upgrade[w])]
            /\ known' = [known EXCEPT ![w] = seen[w]]
            /\ op' = [op EXCEPT ![w] = [op[w] EXCEPT !.pc = next, !.info = Keeps(w, op[w].info)]]
         \/ /\ UNCHANGED <<cache, known, upgrade>>
            /\ op' = [op EXCEPT ![w] = [op[w] EXCEPT !.pc = next, !.info = op[w].info]]
      /\ UNCHANGED <<row, clock, schema, seen, instance, handlers, ops, restarts, silent, astray>>
  BY DEF Lists, Replace, local, bounds
<1>2. Frame(w)
  BY <1>0, <1>1 DEF Frame, Only, Shared
<1>3. Shared'
  BY <1>0, <1>1 DEF Shared
<1>4. /\ cache'[w] \in Entry \union {None} /\ cache'[w].stamp <= clock'
  BY <1>0, <1>1 DEF Shared, Maps, Local, Reads
<1>5. Reads(w)'
  BY <1>0, <1>1, <1>4, ReadsOn DEF Shared, Maps
<1>6. Works(w)'
  <2>1. \/ MovesWith(w, next, Keeps(w, op[w].info))
        \/ MovesWith(w, next, op[w].info) /\ cache' = cache
    BY <1>0, <1>1 DEF Maps, Moves, MovesWith
  <2> QED
    BY <2>1, <1>0, <1>1, <1>a, <1>b, GoesOnWith, EntryFacts
       DEF Shared, Steps, Object, Rowless
<1>7. Object(w, upgrade[w])'
  BY <1>0, <1>1, UpgradeHolds DEF Shared, Maps
<1>8. Follows(w)
  BY <1>0, <1>1 DEF Follows, Maps
<1>9. Solo(w)
  BY <1>0, <1>1, Lone, IdleFacts DEF Busy, Free, Rowless
<1>10. ~astray' => Serves(w)' /\ (row' = None => ~schema')
  <2>1. op'[w].pc = next
    <3>1. \/ MovesWith(w, next, Keeps(w, op[w].info))
          \/ MovesWith(w, next, op[w].info)
      BY <1>0, <1>1 DEF Maps, MovesWith
    <3> QED BY <1>0, <3>1, Moved
  <2>2. cache'[w] = cache[w] \/ cache'[w] = row
    BY <1>0, <1>1 DEF Maps
  <2> QED BY <1>0, <1>1, <2>1, <2>2 DEF Apart, Serves, Starting, Rowless
<1> QED
  BY <1>1, <1>2, <1>3, <1>5, <1>6, <1>7, <1>8, <1>9, <1>10, FrameKeeps, FollowsKeeps,
       ApartKeeps DEF IInv, Local

LEMMA CompareKeeps ==
  ASSUME LifecycleAssumption, IInv, NEW w \in Workers, Compare(w)
  PROVE  IInv'
<1>0. Sound /\ Shared /\ Maps /\ Local(w) /\ CacheFollowsRegistry /\ Apart
  BY DEF IInv, Sound
<1>1. /\ seen' = [seen EXCEPT ![w] = row.stamp]
      /\ UNCHANGED <<row, clock, schema, cache, known, instance, handlers, op, upgrade, ops,
                     restarts, silent, astray>>
  BY DEF Compare, Fingerprint, local, bounds
<1>2. Frame(w)
  BY <1>0, <1>1 DEF Frame, Only, Maps, Shared
<1>3. Shared'
  BY <1>0, <1>1 DEF Shared
<1>4. Reads(w)'
  BY <1>0, <1>1, NatFacts DEF Reads, Local, Shared
<1>5. Works(w)' /\ Object(w, upgrade[w])'
  BY <1>0, <1>1, Stays, UpgradeHolds DEF Shared
<1>6. Follows(w)
  BY <1>1 DEF Follows
<1>7. Apart'
  BY <1>0, <1>1, <1>2, ApartStays
<1> QED
  BY <1>1, <1>2, <1>3, <1>4, <1>5, <1>6, <1>7, FrameKeeps, FollowsKeeps DEF IInv, Local

LEMMA RefusedKeeps ==
  ASSUME LifecycleAssumption, IInv, NEW w \in Workers, Refused(w)
  PROVE  IInv'
<1>0. Sound /\ Shared /\ Maps /\ Local(w) /\ CacheFollowsRegistry /\ Apart
  BY DEF IInv, Sound
<1>1. PICK info \in {cache[w], Refreshed(w)} :
         /\ cache' = [cache EXCEPT ![w] = Got(w, info)]
         /\ known' = [known EXCEPT ![w] = seen[w]]
         /\ upgrade' = [upgrade EXCEPT ![w] = Leaves(w, upgrade[w], info)]
  BY DEF Refused, Get
<1>2. /\ op[w] = Idle
      /\ UNCHANGED <<row, clock, schema, seen, op, instance, handlers, ops, restarts, silent, astray>>
  BY DEF Refused, Free, local, bounds
<1>3. Got(w, info) \in Entry \union {None} /\ Got(w, info).stamp <= clock
  BY <1>0, GotEntry
<1>4. Frame(w)
  BY <1>0, <1>1, <1>2 DEF Frame, Only, Maps, Shared
<1>5. Shared'
  BY <1>0, <1>2 DEF Shared
<1>6. Reads(w)'
  BY <1>0, <1>1, <1>2, <1>3, ReadsOn DEF Shared, Maps
<1>7. Works(w)'
  BY <1>0, <1>2, Ends DEF Shared
<1>8. /\ upgrade'[w] \in Entry \union {Cached, Nothing} /\ upgrade'[w].stamp <= clock
      /\ upgrade'[w] = Cached => cache'[w] # None
      /\ upgrade'[w] = Nothing <=> upgrade[w] = Nothing
  <2>1. upgrade'[w] = Leaves(w, upgrade[w], info) /\ cache'[w] = Got(w, info)
    BY <1>0, <1>1 DEF Maps
  <2>2. upgrade[w] = Nothing => Leaves(w, upgrade[w], info) = Nothing
    BY EntryFacts DEF Leaves
  <2> QED BY <1>0, <2>1, <2>2, LeavesObject DEF Local
<1>9. Object(w, upgrade[w])'
  BY <1>2, <1>8 DEF Object
<1>10. Follows(w)
  BY <1>0, <1>1, <1>2, GetFollows DEF Maps
<1>11. Apart'
  BY <1>0, <1>2, <1>4, <1>8, ApartStays
<1> QED
  BY <1>2, <1>4, <1>5, <1>6, <1>7, <1>9, <1>10, <1>11, FrameKeeps, FollowsKeeps
     DEF IInv, Local

LEMMA InstallKeeps ==
  ASSUME LifecycleAssumption, IInv, NEW w \in Workers, Install(w)
  PROVE  IInv'
<1>0. Sound /\ Shared /\ Maps /\ Local(w) /\ CacheFollowsRegistry /\ Apart
  BY DEF IInv, Sound
<1>1. /\ op' = [op EXCEPT ![w] = [Idle EXCEPT !.kind = "install", !.pc = "load", !.fp = row.stamp]]
      /\ UNCHANGED <<row, clock, schema, cache, seen, known, instance, handlers, upgrade,
                     restarts, silent>>
  BY DEF Install, Fingerprint, view, local
<1>2. Solo(w) /\ ops \in 0..MaxOps /\ ops < MaxOps /\ ops' = ops + 1 /\ astray' \in BOOLEAN
  BY <1>0, Counted DEF Install, Shared
<1>3. Frame(w)
  BY <1>0, <1>1 DEF Frame, Only, Maps, Shared
<1>4. Shared'
  BY <1>0, <1>1, <1>2, LifecycleAssumption DEF Shared
<1>5. Reads(w)'
  BY <1>0, <1>1 DEF Local, Reads
<1>6. /\ op'[w] \in Ops /\ op'[w].kind = "install" /\ op'[w].pc = "load"
      /\ op'[w].info = Nothing /\ op'[w].fp = row.stamp
  <2>1. op'[w] = [Idle EXCEPT !.kind = "install", !.pc = "load", !.fp = row.stamp]
    BY <1>0, <1>1 DEF Maps
  <2>2. row.stamp \in Nat
    BY <1>0, EntryFacts DEF Shared
  <2> QED BY <2>1, <2>2 DEF Idle, Ops, Kinds, Steps
<1>7. Works(w)'
  BY <1>0, <1>1, <1>6, EntryFacts DEF Works, Object, Holds, Rowless, Shared
<1>8. Object(w, upgrade[w])'
  BY <1>0, <1>1, UpgradeHolds DEF Shared
<1>9. Follows(w)
  BY <1>1 DEF Follows
<1>10. ~astray' => Serves(w)' /\ (row' = None => ~schema')
  BY <1>0, <1>1, <1>2, <1>6 DEF Serves, Starting, Rowless, Solo, Apart
<1> QED
  BY <1>1, <1>2, <1>3, <1>4, <1>5, <1>7, <1>8, <1>9, <1>10, FrameKeeps, FollowsKeeps,
       ApartKeeps DEF IInv, Local

LEMMA EnableSetsUpKeeps ==
  ASSUME LifecycleAssumption, IInv, NEW w \in Workers, EnableSetsUp(w)
  PROVE  IInv'
<1>0. Sound /\ Shared /\ Maps /\ Local(w) /\ CacheFollowsRegistry /\ Apart
  BY DEF IInv, Sound
<1>a. /\ [Info(w) EXCEPT !.status = "error"] \in Entry
      /\ [Info(w) EXCEPT !.status = "error"].stamp \in 1..clock
      /\ Info(w) \in Entry /\ Info(w).stamp \in 1..clock
  BY <1>0, FailedEntry DEF EnableSetsUp, At, Rowless
<1>c. op[w].info # Nothing /\ op[w].kind \in Kinds
  BY <1>0, OpsFacts DEF EnableSetsUp, At, Local, Works, Holds, Rowless
<1>1. PICK saved \in Entry :
      /\ op[w].pc = "setup"
      /\ saved.stamp \in 1..clock
      /\ \/ UNCHANGED <<row, silent, cache>>
         \/ /\ row' = saved
            /\ silent' = IF row' = row THEN silent ELSE saved.stamp
            /\ cache' = [cache EXCEPT ![w] = saved] \/ cache' = cache
      /\ schema' \in BOOLEAN /\ (instance' = instance \union {w} \/ instance' = instance)
      /\ op' = [op EXCEPT ![w] = Idle] \/ op' = [op EXCEPT ![w].pc = "enabled"]
      /\ UNCHANGED <<clock, upgrade, seen, known, handlers, ops, restarts, astray>>
  BY <1>0, <1>a
     DEF EnableSetsUp, Fails, SaveAsIs, Edit, Goto, End, NoSave, At, Shared, bounds,
         still
<1>2. Frame(w)
  BY <1>0, <1>1 DEF Frame, Only, Shared
<1>3. Shared'
  BY <1>0, <1>1 DEF Shared
<1>4. /\ cache'[w] \in Entry \union {None} /\ cache'[w].stamp <= clock'
      /\ cache[w] # None => cache'[w] # None
  BY <1>0, <1>1, EntryFacts DEF Maps, Local, Reads
<1>5. Reads(w)'
  BY <1>0, <1>1, <1>4, ReadsOn DEF Shared
<1>6. Works(w)'
  <2>1. Moves(w, "enabled") \/ op'[w] = Idle
    BY <1>0, <1>1 DEF Maps, Moves, MovesWith
  <2> QED
    BY <2>1, <1>0, <1>1, <1>4, <1>c, GoesOn, Ends DEF Shared, Steps
<1>7. Object(w, upgrade[w])'
  BY <1>0, <1>1, <1>4, UpgradeHolds DEF Shared
<1>8. Follows(w)
  BY <1>0, <1>1 DEF Follows, Maps
<1>9. Solo(w)
  BY <1>0, <1>1, Lone, IdleFacts DEF EnableSetsUp, Busy, Free
<1>10. ~astray' => Serves(w)' /\ (row' = None => ~schema')
  BY <1>0, <1>1, IdleFacts, EntryFacts DEF Apart, Maps, Ops, Serves, Starting, Rowless
<1> QED
  BY <1>1, <1>2, <1>3, <1>5, <1>6, <1>7, <1>8, <1>9, <1>10, FrameKeeps, FollowsKeeps,
       ApartKeeps DEF IInv, Local

LEMMA ActivateHealsKeeps ==
  ASSUME LifecycleAssumption, IInv, NEW w \in Workers, ActivateHeals(w)
  PROVE  IInv'
<1>0. Sound /\ Shared /\ Maps /\ Local(w) /\ CacheFollowsRegistry /\ Apart
  BY DEF IInv, Sound
<1>a. /\ [Info(w) EXCEPT !.status = "error"] \in Entry
      /\ [Info(w) EXCEPT !.status = "error"].stamp \in 1..clock
      /\ Info(w) \in Entry /\ Info(w).stamp \in 1..clock
  BY <1>0, FailedEntry DEF ActivateHeals, At, Rowless
<1>c. op[w].info # Nothing /\ op[w].kind \in Kinds
  BY <1>0, OpsFacts DEF ActivateHeals, At, Local, Works, Holds, Rowless
<1>1. PICK saved \in Entry :
      /\ op[w].pc = "heal"
      /\ saved.stamp \in 1..clock
      /\ \/ UNCHANGED <<row, silent>>
         \/ /\ row' = saved
            /\ silent' = IF row' = row THEN silent ELSE saved.stamp
      /\ schema' \in BOOLEAN
      /\ \/ instance' = instance \union {w} /\ op' = [op EXCEPT ![w].pc = "run"]
         \/ instance' = instance /\ op' = [op EXCEPT ![w] = Idle]
      /\ UNCHANGED <<clock, cache, upgrade, seen, known, handlers, ops, restarts, astray>>
  BY <1>0, <1>a
     DEF ActivateHeals, SaveAsIs, Goto, End, NoSave, At, Shared, bounds, still
<1>2. Frame(w)
  BY <1>0, <1>1 DEF Frame, Only, Shared
<1>3. Shared'
  BY <1>0, <1>1 DEF Shared
<1>4. /\ cache'[w] \in Entry \union {None} /\ cache'[w].stamp <= clock'
      /\ cache[w] # None => cache'[w] # None
  BY <1>0, <1>1 DEF Local, Reads
<1>5. Reads(w)'
  BY <1>0, <1>1, <1>4, ReadsOn DEF Shared
<1>6. Works(w)'
  <2>1. (Moves(w, "run") /\ w \in instance') \/ op'[w] = Idle
    BY <1>0, <1>1 DEF Maps, Moves, MovesWith
  <2> QED
    BY <2>1, <1>0, <1>1, <1>c, GoesOn, Ends DEF Shared, Steps
<1>7. Object(w, upgrade[w])'
  BY <1>0, <1>1, UpgradeHolds DEF Shared
<1>8. Follows(w)
  BY <1>1 DEF Follows, Maps, Shared
<1>9. Solo(w)
  BY <1>0, <1>1, Lone, IdleFacts DEF ActivateHeals, Busy, Free
<1>10. ~astray' => Serves(w)' /\ (row' = None => ~schema')
  BY <1>0, <1>1, IdleFacts, EntryFacts DEF Apart, Maps, Ops, Serves, Starting, Rowless
<1> QED
  BY <1>1, <1>2, <1>3, <1>5, <1>6, <1>7, <1>8, <1>9, <1>10, FrameKeeps, FollowsKeeps,
       ApartKeeps DEF IInv, Local

LEMMA EnableSavesKeeps ==
  ASSUME LifecycleAssumption, IInv, NEW w \in Workers, EnableSaves(w)
  PROVE  IInv'
<1>0. Sound /\ Shared /\ Maps /\ Local(w) /\ CacheFollowsRegistry /\ Apart
  BY DEF IInv, Sound
<1>b. Stamped("enabled") \in Entry /\ Stamped("enabled").stamp = clock + 1
  BY <1>0, StampedFacts DEF Shared, Status
<1>1. /\ op[w].pc = "enabled"
      /\ row' = Stamped("enabled") /\ clock' = clock + 1 /\ silent' = 0
      /\ \/ /\ cache' = [cache EXCEPT ![w] = Stamped("enabled")]
            /\ op' = [op EXCEPT ![w] = [@ EXCEPT !.pc = "i18n", !.info = Cached]]
         \/ /\ cache' = cache
            /\ op' = [op EXCEPT ![w] = [@ EXCEPT !.pc = "i18n", !.info = Stamped("enabled")]]
      /\ UNCHANGED <<upgrade, seen, known, schema, instance, handlers, ops, restarts, astray>>
  BY DEF EnableSaves, SaveAs, SaveStamped, Now, Edit, Held, At, local, bounds, still
<1>2. Frame(w)
  BY <1>0, <1>1 DEF Frame, Only, Shared
<1>3. Shared'
  BY <1>0, <1>1, <1>b DEF Shared
<1>4. /\ cache'[w] \in Entry \union {None} /\ cache'[w].stamp <= clock'
      /\ cache[w] # None => cache'[w] # None
  BY <1>0, <1>1, <1>b, EntryFacts DEF Shared, Maps, Local, Reads
<1>5. Reads(w)'
  BY <1>0, <1>1, <1>4, ReadsOn DEF Shared
<1>6. Works(w)'
  <2>1. \/ MovesWith(w, "i18n", Cached) /\ cache'[w] = Stamped("enabled")
        \/ MovesWith(w, "i18n", Stamped("enabled"))
    BY <1>0, <1>1 DEF Maps, Moves, MovesWith
  <2> QED
    BY <2>1, <1>0, <1>1, <1>b, GoesOnWith, EntryFacts DEF Shared, Steps
<1>7. Object(w, upgrade[w])'
  BY <1>0, <1>1, <1>4, UpgradeHolds DEF Shared
<1>8. Follows(w)
  BY <1>1, <1>b DEF Follows, Maps, Shared
<1>9. Solo(w)
  BY <1>0, <1>1, Lone, IdleFacts DEF EnableSaves, Busy, Free
<1>10. ~astray' => Serves(w)' /\ (row' = None => ~schema')
  <2>1. row' # None
    BY <1>1, <1>b, EntryFacts
  <2>2. MovesWith(w, "i18n", Cached) \/ MovesWith(w, "i18n", Stamped("enabled"))
    BY <1>0, <1>1 DEF Maps, MovesWith
  <2>3. op'[w].pc = "i18n"
    BY <1>0, <2>2, Moved
  <2> QED BY <2>1, <2>3 DEF Serves
<1> QED
  BY <1>1, <1>2, <1>3, <1>5, <1>6, <1>7, <1>8, <1>9, <1>10, FrameKeeps, FollowsKeeps,
       ApartKeeps DEF IInv, Local

LEMMA EnableActivatesKeeps ==
  ASSUME LifecycleAssumption, IInv, NEW w \in Workers, EnableActivates(w)
  PROVE  IInv'
<1>0. Sound /\ Shared /\ Maps /\ Local(w) /\ CacheFollowsRegistry /\ Apart
  BY DEF IInv, Sound
<1>b. Stamped("active") \in Entry /\ Stamped("active").stamp = clock + 1
  BY <1>0, StampedFacts DEF Shared, Status
<1>1. /\ op[w].pc = "activate"
      /\ \/ /\ row' = Stamped("active") /\ clock' = clock + 1 /\ silent' = 0
            /\ cache' = [cache EXCEPT ![w] = Stamped("active")] \/ cache' = cache
            /\ w \in instance /\ handlers' = handlers \union {w}
         \/ UNCHANGED <<row, clock, silent, cache, handlers>>
      /\ op' = [op EXCEPT ![w] = Idle]
      /\ UNCHANGED <<upgrade, seen, known, schema, instance, ops, restarts, astray>>
  BY DEF EnableActivates, SaveAs, SaveStamped, Now, Edit, NoSave, End, At, bounds, still
<1>2. Frame(w)
  BY <1>0, <1>1 DEF Frame, Only, Maps, Shared
<1>3. Shared'
  BY <1>0, <1>1, <1>b DEF Shared, Status
<1>4. /\ cache'[w] \in Entry \union {None} /\ cache'[w].stamp <= clock'
      /\ cache[w] # None => cache'[w] # None
  BY <1>0, <1>1, <1>b, EntryFacts DEF Shared, Maps, Local, Reads
<1>5. Reads(w)'
  BY <1>0, <1>1, <1>4, ReadsOn DEF Shared
<1>6. Works(w)'
  <2>1. op'[w] = Idle
    BY <1>0, <1>1 DEF Maps, Moves, MovesWith
  <2> QED
    BY <2>1, <1>0, <1>1, Ends DEF Shared
<1>7. Object(w, upgrade[w])'
  BY <1>0, <1>1, <1>4, UpgradeHolds DEF Shared
<1>8. Follows(w)
  BY <1>1, <1>b DEF Follows, Maps, Shared
<1>9. Solo(w)
  BY <1>0, <1>1, Lone, IdleFacts DEF EnableActivates, Busy, Free
<1>10. ~astray' => Serves(w)' /\ (row' = None => ~schema')
  BY <1>0, <1>1, <1>b, IdleFacts, EntryFacts DEF Apart, Serves, Starting, Rowless
<1> QED
  BY <1>1, <1>2, <1>3, <1>5, <1>6, <1>7, <1>8, <1>9, <1>10, FrameKeeps, FollowsKeeps,
       ApartKeeps DEF IInv, Local

LEMMA ActivateRunsKeeps ==
  ASSUME LifecycleAssumption, IInv, NEW w \in Workers, ActivateRuns(w)
  PROVE  IInv'
<1>0. Sound /\ Shared /\ Maps /\ Local(w) /\ CacheFollowsRegistry /\ Apart
  BY DEF IInv, Sound
<1>a. /\ [Info(w) EXCEPT !.status = "error"] \in Entry
      /\ [Info(w) EXCEPT !.status = "error"].stamp \in 1..clock
      /\ Info(w) \in Entry /\ Info(w).stamp \in 1..clock
  BY <1>0, FailedEntry DEF ActivateRuns, At, Rowless
<1>b. Stamped("active") \in Entry /\ Stamped("active").stamp = clock + 1
  BY <1>0, StampedFacts DEF Shared, Status
<1>1. PICK saved \in Entry :
      /\ op[w].pc = "run"
      /\ saved.stamp \in 1..clock
      /\ \/ /\ row' = Stamped("active") /\ clock' = clock + 1 /\ silent' = 0
            /\ cache' = [cache EXCEPT ![w] = Stamped("active")] \/ cache' = cache
            /\ handlers' = handlers \union {w}
         \/ /\ row' = saved /\ clock' = clock /\ handlers' = handlers
            /\ silent' = IF row' = row THEN silent ELSE saved.stamp
            /\ cache' = [cache EXCEPT ![w] = saved] \/ cache' = cache
      /\ w \in instance
      /\ op' = [op EXCEPT ![w] = Idle]
      /\ UNCHANGED <<upgrade, seen, known, schema, instance, ops, restarts, astray>>
  BY <1>0, <1>a
     DEF ActivateRuns, Fails, SaveAs, SaveStamped, SaveAsIs, Now, Edit, End, At, Local,
         Works, bounds, still
<1>2. Frame(w)
  BY <1>0, <1>1 DEF Frame, Only, Maps, Shared
<1>3. Shared'
  BY <1>0, <1>1, <1>a, <1>b DEF Shared, Status
<1>4. /\ cache'[w] \in Entry \union {None} /\ cache'[w].stamp <= clock'
      /\ cache[w] # None => cache'[w] # None
  BY <1>0, <1>1, <1>b, EntryFacts DEF Shared, Maps, Local, Reads
<1>5. Reads(w)'
  BY <1>0, <1>1, <1>4, ReadsOn DEF Shared
<1>6. Works(w)'
  <2>1. op'[w] = Idle
    BY <1>0, <1>1 DEF Maps, Moves, MovesWith
  <2> QED
    BY <2>1, <1>0, <1>1, Ends DEF Shared
<1>7. Object(w, upgrade[w])'
  BY <1>0, <1>1, <1>4, UpgradeHolds DEF Shared
<1>8. Follows(w)
  BY <1>0, <1>1, <1>b DEF Follows, Maps
<1>9. Solo(w)
  BY <1>0, <1>1, Lone, IdleFacts DEF ActivateRuns, Busy, Free
<1>10. ~astray' => Serves(w)' /\ (row' = None => ~schema')
  BY <1>1, <1>b, IdleFacts, EntryFacts DEF Maps, Serves, Starting
<1> QED
  BY <1>1, <1>2, <1>3, <1>5, <1>6, <1>7, <1>8, <1>9, <1>10, FrameKeeps, FollowsKeeps,
       ApartKeeps DEF IInv, Local

LEMMA DisableSavesKeeps ==
  ASSUME LifecycleAssumption, IInv, NEW w \in Workers, DisableSaves(w)
  PROVE  IInv'
<1>0. Sound /\ Shared /\ Maps /\ Local(w) /\ CacheFollowsRegistry /\ Apart
  BY DEF IInv, Sound
<1>b. Stamped("disabled") \in Entry /\ Stamped("disabled").stamp = clock + 1
  BY <1>0, StampedFacts DEF Shared, Status
<1>c. op[w].info # Nothing /\ op[w].kind \in Kinds
  BY <1>0, OpsFacts DEF DisableSaves, At, Local, Works, Holds, Rowless
<1>1. /\ op[w].pc = "detach"
      /\ row' = Stamped("disabled") /\ clock' = clock + 1 /\ silent' = 0
      /\ cache' = [cache EXCEPT ![w] = Stamped("disabled")]
      /\ instance' = instance \ {w} /\ handlers' = handlers \ {w}
      /\ op' = [op EXCEPT ![w] = Idle] \/ op' = [op EXCEPT ![w].pc = "i18n"]
      /\ UNCHANGED <<upgrade, seen, known, schema, ops, restarts, astray>>
  BY DEF DisableSaves, SaveStamped, Now, Goto, End, At, bounds, still
<1>2. Frame(w)
  BY <1>0, <1>1 DEF Frame, Only, Maps, Shared
<1>3. Shared'
  BY <1>0, <1>1, <1>b DEF Shared
<1>4. /\ cache'[w] \in Entry \union {None} /\ cache'[w].stamp <= clock'
      /\ cache[w] # None => cache'[w] # None
  BY <1>0, <1>1, <1>b, EntryFacts DEF Maps
<1>5. Reads(w)'
  BY <1>0, <1>1, <1>4, ReadsOn DEF Shared
<1>6. Works(w)'
  <2>1. Moves(w, "i18n") \/ op'[w] = Idle
    BY <1>0, <1>1 DEF Maps, Moves, MovesWith
  <2> QED
    BY <2>1, <1>0, <1>1, <1>4, <1>c, GoesOn, Ends DEF Shared, Steps
<1>7. Object(w, upgrade[w])'
  BY <1>0, <1>1, <1>4, UpgradeHolds DEF Shared
<1>8. Follows(w)
  BY <1>1, <1>b DEF Follows, Maps, Shared
<1>9. Solo(w)
  BY <1>0, <1>1, Lone, IdleFacts DEF DisableSaves, Busy, Free
<1>10. ~astray' => Serves(w)' /\ (row' = None => ~schema')
  BY <1>0, <1>1, <1>b, IdleFacts, EntryFacts DEF Maps, Ops, Serves, Starting
<1> QED
  BY <1>1, <1>2, <1>3, <1>5, <1>6, <1>7, <1>8, <1>9, <1>10, FrameKeeps, FollowsKeeps,
       ApartKeeps DEF IInv, Local

LEMMA UninstallDisablesKeeps ==
  ASSUME LifecycleAssumption, IInv, NEW w \in Workers, UninstallDisables(w)
  PROVE  IInv'
<1>0. Sound /\ Shared /\ Maps /\ Local(w) /\ CacheFollowsRegistry /\ Apart
  BY DEF IInv, Sound
<1>a. /\ Object(w, op[w].info) /\ op[w].info # Nothing /\ op[w].kind = "uninstall"
      /\ Object(w, upgrade[w])
  BY <1>0 DEF UninstallDisables, At, Local, Works, Holds, Rowless
<1>b. /\ Got(w, Refreshed(w)) \in Entry \union {None} /\ Got(w, Refreshed(w)).stamp <= clock
      /\ cache[w] # None => Refreshed(w) # None
  BY <1>0, GotEntry
<1> DEFINE held == Leaves(w, op[w].info, Refreshed(w))
<1>c. /\ held \in Entry \union {Cached, Nothing} /\ held.stamp <= clock
      /\ held = Cached => Got(w, Refreshed(w)) # None
      /\ held # Nothing
  BY <1>0, <1>a, LeavesObject
<1>d. /\ Leaves(w, upgrade[w], Refreshed(w)) \in Entry \union {Cached, Nothing}
      /\ Leaves(w, upgrade[w], Refreshed(w)).stamp <= clock
      /\ Leaves(w, upgrade[w], Refreshed(w)) = Cached => Got(w, Refreshed(w)) # None
  BY <1>0, <1>a, LeavesObject
<1> HIDE DEF held
<1>1. PICK step \in {"detach", "rollback"} :
      /\ op[w].pc = "nested"
      /\ cache' = [cache EXCEPT ![w] = Got(w, Refreshed(w))]
      /\ known' = [known EXCEPT ![w] = seen[w]]
      /\ upgrade' = [upgrade EXCEPT ![w] = Leaves(w, upgrade[w], Refreshed(w))]
      /\ op' = [op EXCEPT ![w] = [op[w] EXCEPT !.info = held, !.pc = step]]
      /\ UNCHANGED <<row, clock, schema, seen, instance, handlers, ops, restarts, silent, astray>>
  BY DEF UninstallDisables, Get, At, held, local, bounds
<1>e. Only(op, op', w)
  <2>1. op' = [op EXCEPT ![w] = [op[w] EXCEPT !.info = held, !.pc = step]]
    BY <1>1
  <2> QED BY <2>1 DEF Only, Maps
<1>f. Only(cache, cache', w) /\ Only(known, known', w) /\ Only(upgrade, upgrade', w)
  BY <1>1 DEF Only, Maps
<1>2. Frame(w)
  BY <1>0, <1>1, <1>e, <1>f DEF Frame, Only, Shared
<1>3. Shared'
  BY <1>0, <1>1 DEF Shared
<1>4. /\ cache'[w] \in Entry \union {None} /\ cache'[w].stamp <= clock'
  BY <1>0, <1>1, <1>b DEF Local, Reads
<1>5. Reads(w)'
  BY <1>0, <1>1, <1>4, ReadsOn DEF Shared
<1>6. Works(w)'
  <2>1. MovesWith(w, step, held)
    BY <1>0, <1>1 DEF Maps, Moves, MovesWith
  <2> QED
    BY <2>1, <1>0, <1>1, <1>a, <1>c, GoesOnWith DEF Shared, Maps, Steps
<1>7. Object(w, upgrade[w])'
  BY <1>0, <1>1, <1>d DEF Maps, Object
<1>8. Follows(w)
  BY <1>0, <1>1, GetFollows DEF Maps
<1>9. Solo(w)
  BY <1>0, <1>1, Lone, IdleFacts DEF UninstallDisables, Busy, Free
<1>10. ~astray' => Serves(w)' /\ (row' = None => ~schema')
  <2>1. MovesWith(w, step, held)
    BY <1>0, <1>1 DEF Maps, MovesWith
  <2>2. op'[w].pc \in {"detach", "rollback"}
    BY <1>0, <2>1, Moved
  <2> QED BY <1>0, <1>1, <2>2 DEF Apart, Serves, Starting, Rowless
<1> QED
  BY <1>1, <1>2, <1>3, <1>5, <1>6, <1>7, <1>8, <1>9, <1>10, FrameKeeps, FollowsKeeps,
       ApartKeeps DEF IInv, Local

LEMMA UninstallCleansUpKeeps ==
  ASSUME LifecycleAssumption, IInv, NEW w \in Workers, UninstallCleansUp(w)
  PROVE  IInv'
<1>0. Sound /\ Shared /\ Maps /\ Local(w) /\ CacheFollowsRegistry /\ Apart
  BY DEF IInv, Sound
<1>b. Stamped("disabled") \in Entry /\ Stamped("disabled").stamp = clock + 1
  BY <1>0, StampedFacts DEF Shared, Status
<1>c. op[w].info # Nothing /\ op[w].kind = "uninstall"
  BY <1>0 DEF UninstallCleansUp, At, Local, Works, Holds, Rowless
<1>1. /\ op[w].pc = "cleanup"
      /\ instance' = instance \ {w} /\ handlers' = handlers \ {w}
      /\ schema' \in BOOLEAN
      /\ \/ /\ ~schema' /\ op' = [op EXCEPT ![w].pc = "delete"]
            /\ UNCHANGED <<row, clock, silent, cache, upgrade>>
         \/ /\ row' = Stamped("disabled") /\ clock' = clock + 1 /\ silent' = 0
            /\ cache' = [cache EXCEPT ![w] = Stamped("disabled")]
            /\ upgrade' = upgrade \/ upgrade' = [upgrade EXCEPT ![w] = Keeps(w, upgrade[w])]
            /\ op' = [op EXCEPT ![w] = Idle]
      /\ UNCHANGED <<seen, known, ops, restarts, astray>>
  BY <1>0
     DEF UninstallCleansUp, PutsBack, SaveStamped, Now, Goto, End, NoSave, At, Shared,
         bounds, still
<1>2. Frame(w)
  BY <1>0, <1>1 DEF Frame, Only, Shared
<1>3. Shared'
  BY <1>0, <1>1, <1>b DEF Shared
<1>4. /\ cache'[w] \in Entry \union {None} /\ cache'[w].stamp <= clock'
      /\ cache[w] # None => cache'[w] # None
  BY <1>0, <1>1, <1>b, EntryFacts DEF Maps, Local, Reads
<1>5. Reads(w)'
  BY <1>0, <1>1, <1>4, ReadsOn DEF Shared
<1>6. Works(w)'
  <2>1. Moves(w, "delete") \/ op'[w] = Idle
    BY <1>0, <1>1 DEF Maps, Moves, MovesWith
  <2> QED
    BY <2>1, <1>0, <1>1, <1>4, <1>c, GoesOn, Ends DEF Shared, Steps
<1>7. Object(w, upgrade[w])'
  BY <1>0, <1>1, <1>4, UpgradeHolds DEF Shared, Maps
<1>8. Follows(w)
  BY <1>1, <1>b DEF Follows, Maps, Shared
<1>9. Solo(w)
  BY <1>0, <1>1, Lone, IdleFacts DEF UninstallCleansUp, Busy, Free
<1>10. ~astray' => Serves(w)' /\ (row' = None => ~schema')
  BY <1>0, <1>1, <1>b, IdleFacts, EntryFacts DEF Apart, Maps, Serves, Starting, Rowless
<1> QED
  BY <1>1, <1>2, <1>3, <1>5, <1>6, <1>7, <1>8, <1>9, <1>10, FrameKeeps, FollowsKeeps,
       ApartKeeps DEF IInv, Local

LEMMA UninstallDeletesKeeps ==
  ASSUME LifecycleAssumption, IInv, NEW w \in Workers, UninstallDeletes(w)
  PROVE  IInv'
<1>0. Sound /\ Shared /\ Maps /\ Local(w) /\ CacheFollowsRegistry /\ Apart
  BY DEF IInv, Sound
<1>c. op[w].info # Nothing /\ op[w].kind = "uninstall"
  BY <1>0 DEF UninstallDeletes, At, Local, Works, Holds, Rowless
<1>1. /\ op[w].pc = "delete"
      /\ \/ /\ row' = None
            /\ cache' = [cache EXCEPT ![w] = None]
            /\ upgrade' = [upgrade EXCEPT ![w] = Keeps(w, upgrade[w])]
            /\ op' = [op EXCEPT ![w] = Idle]
         \/ /\ UNCHANGED <<row, cache, upgrade>>
            /\ op' = [op EXCEPT ![w].pc = "rollback"]
      /\ UNCHANGED <<clock, schema, seen, known, instance, handlers, ops, restarts, silent, astray>>
  BY DEF UninstallDeletes, Replace, Goto, End, At, local, bounds, still
<1>2. Frame(w)
  BY <1>0, <1>1 DEF Frame, Only, Shared
<1>3. Shared'
  BY <1>0, <1>1, EntryFacts DEF Shared
<1>4. /\ cache'[w] \in Entry \union {None} /\ cache'[w].stamp <= clock'
  BY <1>0, <1>1, EntryFacts DEF Shared, Maps, Local, Reads
<1>5. Reads(w)'
  BY <1>0, <1>1, <1>4, ReadsOn DEF Shared
<1>6. Works(w)'
  <2>1. (Moves(w, "rollback") /\ cache' = cache) \/ op'[w] = Idle
    BY <1>0, <1>1 DEF Maps, Moves, MovesWith
  <2> QED
    BY <2>1, <1>0, <1>1, <1>c, GoesOn, Ends DEF Shared, Steps
<1>7. Object(w, upgrade[w])'
  BY <1>0, <1>1, UpgradeHolds DEF Shared, Maps
<1>8. Follows(w)
  BY <1>1 DEF Follows, Maps, Shared
<1>9. Solo(w)
  BY <1>0, <1>1, Lone, IdleFacts DEF UninstallDeletes, Busy, Free
<1>10. ~astray' => Serves(w)' /\ (row' = None => ~schema')
  BY <1>0, <1>1, IdleFacts DEF Apart, Maps, Serves, Starting, Rowless
<1> QED
  BY <1>1, <1>2, <1>3, <1>5, <1>6, <1>7, <1>8, <1>9, <1>10, FrameKeeps, FollowsKeeps,
       ApartKeeps DEF IInv, Local

LEMMA UninstallRollsBackKeeps ==
  ASSUME LifecycleAssumption, IInv, NEW w \in Workers, UninstallRollsBack(w)
  PROVE  IInv'
<1>0. Sound /\ Shared /\ Maps /\ Local(w) /\ CacheFollowsRegistry /\ Apart
  BY DEF IInv, Sound
<1>a. op[w].orig \in Status
  BY <1>0 DEF UninstallRollsBack, At, Local, Works, Holds
<1>b. Stamped(op[w].orig) \in Entry /\ Stamped(op[w].orig).stamp = clock + 1
  BY <1>0, <1>a, StampedFacts DEF Shared
<1>1. /\ op[w].pc = "rollback"
      /\ row' = Stamped(op[w].orig) /\ clock' = clock + 1 /\ silent' = 0
      /\ cache' = [cache EXCEPT ![w] = Stamped(op[w].orig)]
      /\ upgrade' = upgrade \/ upgrade' = [upgrade EXCEPT ![w] = Keeps(w, upgrade[w])]
      /\ op' = [op EXCEPT ![w] = Idle]
      /\ UNCHANGED <<seen, known, schema, instance, handlers, ops, restarts, astray>>
  BY DEF UninstallRollsBack, PutsBack, SaveStamped, Now, End, At, local, bounds, still
<1>2. Frame(w)
  BY <1>0, <1>1 DEF Frame, Only, Maps, Shared
<1>3. Shared'
  BY <1>0, <1>1, <1>b DEF Shared
<1>4. /\ cache'[w] \in Entry \union {None} /\ cache'[w].stamp <= clock'
      /\ cache[w] # None => cache'[w] # None
  BY <1>0, <1>1, <1>b, EntryFacts DEF Maps
<1>5. Reads(w)'
  BY <1>0, <1>1, <1>4, ReadsOn DEF Shared
<1>6. Works(w)'
  <2>1. op'[w] = Idle
    BY <1>0, <1>1 DEF Maps, Moves, MovesWith
  <2> QED
    BY <2>1, <1>0, <1>1, Ends DEF Shared
<1>7. Object(w, upgrade[w])'
  BY <1>0, <1>1, <1>4, UpgradeHolds DEF Shared, Maps
<1>8. Follows(w)
  BY <1>1, <1>b DEF Follows, Maps, Shared
<1>9. Solo(w)
  BY <1>0, <1>1, Lone, IdleFacts DEF UninstallRollsBack, Busy, Free
<1>10. ~astray' => Serves(w)' /\ (row' = None => ~schema')
  BY <1>1, <1>b, IdleFacts, EntryFacts DEF Maps, Serves, Starting
<1> QED
  BY <1>1, <1>2, <1>3, <1>5, <1>6, <1>7, <1>8, <1>9, <1>10, FrameKeeps, FollowsKeeps,
       ApartKeeps DEF IInv, Local

LEMMA SetConfigKeeps ==
  ASSUME LifecycleAssumption, IInv, NEW w \in Workers, SetConfig(w)
  PROVE  IInv'
<1>0. Sound /\ Shared /\ Maps /\ Local(w) /\ CacheFollowsRegistry /\ Apart
  BY DEF IInv, Sound
<1>a. Solo(w) /\ ops \in 0..MaxOps /\ ops < MaxOps /\ ops' = ops + 1 /\ astray' \in BOOLEAN
  BY <1>0, Counted DEF SetConfig, Begin, Shared
<1>1. /\ row # None
      /\ cache' = [cache EXCEPT ![w] = row]
      /\ upgrade' = [upgrade EXCEPT ![w] = Keeps(w, upgrade[w])]
      /\ op' = [op EXCEPT ![w] = [kind |-> "config", pc |-> "config", info |-> Cached,
                                  orig |-> "none", fp |-> 0]]
      /\ UNCHANGED <<row, clock, schema, seen, known, instance, handlers, restarts, silent>>
  BY DEF SetConfig, Replace, Begin, local
<1>2. Frame(w)
  BY <1>0, <1>1 DEF Frame, Only, Maps, Shared
<1>3. Shared'
  BY <1>0, <1>1, <1>a, LifecycleAssumption DEF Shared, Status
<1>4. /\ cache'[w] \in Entry \union {None} /\ cache'[w].stamp <= clock'
      /\ cache[w] # None => cache'[w] # None
  BY <1>0, <1>1 DEF Shared, Local, Reads
<1>5. Reads(w)'
  BY <1>0, <1>1, <1>4, ReadsOn DEF Shared
<1>6. Works(w)'
  <2>1. op'[w] = [kind |-> "config", pc |-> "config", info |-> Cached, orig |-> "none", fp |-> 0]
    BY <1>0, <1>1 DEF Maps, Moves, MovesWith
  <2>2. cache'[w] # None
    BY <1>0, <1>1 DEF Maps
  <2> QED
    BY <2>1, <2>2, <1>0, <1>1, Begins DEF Shared, Kinds, Steps
<1>7. Object(w, upgrade[w])'
  BY <1>0, <1>1, UpgradeHolds DEF Shared
<1>8. Follows(w)
  BY <1>1 DEF Follows, Maps, Shared
<1>9. Solo(w)
  BY <1>a
<1>10. ~astray' => Serves(w)' /\ (row' = None => ~schema')
  BY <1>0, <1>1, <1>9 DEF Solo, Apart, Serves, Starting
<1> QED
  BY <1>1, <1>2, <1>3, <1>5, <1>6, <1>7, <1>8, <1>9, <1>10, FrameKeeps, FollowsKeeps,
       ApartKeeps DEF IInv, Local

LEMMA ConfigSavesKeeps ==
  ASSUME LifecycleAssumption, IInv, NEW w \in Workers, ConfigSaves(w)
  PROVE  IInv'
<1>0. Sound /\ Shared /\ Maps /\ Local(w) /\ CacheFollowsRegistry /\ Apart
  BY DEF IInv, Sound
<1>a. Info(w).status \in Status
  BY <1>0, FailedEntry, EntryFacts DEF ConfigSaves, At, Rowless
<1>b. Stamped(Info(w).status) \in Entry /\ Stamped(Info(w).status).stamp = clock + 1
  BY <1>0, <1>a, StampedFacts DEF Shared
<1>1. /\ op[w].pc = "config"
      /\ row' = Stamped(Info(w).status) /\ clock' = clock + 1 /\ silent' = 0
      /\ cache' = [cache EXCEPT ![w] = Stamped(Info(w).status)] \/ cache' = cache
      /\ op' = [op EXCEPT ![w] = Idle]
      /\ UNCHANGED <<upgrade, seen, known, schema, instance, handlers, ops, restarts, astray>>
  BY DEF ConfigSaves, SaveAs, SaveStamped, Now, Edit, End, At, local, bounds, still
<1>2. Frame(w)
  BY <1>0, <1>1 DEF Frame, Only, Maps, Shared
<1>3. Shared'
  BY <1>0, <1>1, <1>b DEF Shared
<1>4. /\ cache'[w] \in Entry \union {None} /\ cache'[w].stamp <= clock'
      /\ cache[w] # None => cache'[w] # None
  BY <1>0, <1>1, <1>b, EntryFacts DEF Shared, Maps, Local, Reads
<1>5. Reads(w)'
  BY <1>0, <1>1, <1>4, ReadsOn DEF Shared
<1>6. Works(w)'
  <2>1. op'[w] = Idle
    BY <1>0, <1>1 DEF Maps, Moves, MovesWith
  <2> QED
    BY <2>1, <1>0, <1>1, Ends DEF Shared
<1>7. Object(w, upgrade[w])'
  BY <1>0, <1>1, <1>4, UpgradeHolds DEF Shared
<1>8. Follows(w)
  BY <1>1, <1>b DEF Follows, Maps, Shared
<1>9. Solo(w)
  BY <1>0, <1>1, Lone, IdleFacts DEF ConfigSaves, Busy, Free
<1>10. ~astray' => Serves(w)' /\ (row' = None => ~schema')
  BY <1>1, <1>b, IdleFacts, EntryFacts DEF Maps, Serves, Starting
<1> QED
  BY <1>1, <1>2, <1>3, <1>5, <1>6, <1>7, <1>8, <1>9, <1>10, FrameKeeps, FollowsKeeps,
       ApartKeeps DEF IInv, Local

LEMMA UpgradeKeeps ==
  ASSUME LifecycleAssumption, IInv, NEW w \in Workers, Upgrade(w)
  PROVE  IInv'
<1>0. Sound /\ Shared /\ Maps /\ Local(w) /\ CacheFollowsRegistry /\ Apart
  BY DEF IInv, Sound
<1>a. Solo(w) /\ ops \in 0..MaxOps /\ ops < MaxOps /\ ops' = ops + 1 /\ astray' \in BOOLEAN
  BY <1>0, Counted DEF Upgrade, Shared
<1>b. Got(w, cache[w]) \in Entry \union {None} /\ Got(w, cache[w]).stamp <= clock
  BY <1>0, GotEntry
<1>1. /\ Got(w, cache[w]) # None /\ op[w] = Idle
      /\ cache' = [cache EXCEPT ![w] = Got(w, cache[w])]
      /\ known' = [known EXCEPT ![w] = seen[w]]
      /\ upgrade' = [upgrade EXCEPT ![w] = Cached]
      /\ UNCHANGED <<row, clock, schema, seen, op, instance, handlers, restarts, silent>>
  BY DEF Upgrade, Get, Free, local
<1>2. Frame(w)
  BY <1>0, <1>1 DEF Frame, Only, Maps, Shared
<1>3. Shared'
  BY <1>0, <1>1, <1>a, LifecycleAssumption DEF Shared
<1>4. /\ cache'[w] \in Entry \union {None} /\ cache'[w].stamp <= clock'
      /\ cache[w] # None => cache'[w] # None
  BY <1>0, <1>1, <1>b DEF Local, Reads
<1>5. Reads(w)'
  BY <1>0, <1>1, <1>4, ReadsOn DEF Shared
<1>6. Works(w)'
  <2>1. op'[w] = Idle
    BY <1>1 DEF Maps, Moves, MovesWith
  <2> QED
    BY <1>0, <1>1, Ends DEF Shared
<1>7. Object(w, upgrade[w])'
  BY <1>0, <1>1, EntryFacts DEF Shared, Maps, Object
<1>8. Follows(w)
  BY <1>0, <1>1, GetFollows DEF Maps
<1>9. Solo(w)
  BY <1>a
<1>10. ~astray' => Serves(w)' /\ (row' = None => ~schema')
  BY <1>0, <1>1, <1>9, IdleFacts DEF Solo, Apart, Serves, Starting, Rowless
<1> QED
  BY <1>1, <1>2, <1>3, <1>5, <1>6, <1>7, <1>8, <1>9, <1>10, FrameKeeps, FollowsKeeps,
       ApartKeeps DEF IInv, Local

LEMMA UpgradeEndsKeeps ==
  ASSUME LifecycleAssumption, IInv, NEW w \in Workers, UpgradeEnds(w)
  PROVE  IInv'
<1>0. Sound /\ Shared /\ Maps /\ Local(w) /\ CacheFollowsRegistry /\ Apart
  BY DEF IInv, Sound
<1>a. upgrade[w] # Nothing /\ Keeps(w, upgrade[w]).status \in Status
  BY <1>0, KeepsObject, EntryFacts DEF UpgradeEnds, Local
<1>b. /\ Stamped(Keeps(w, upgrade[w]).status) \in Entry
      /\ Stamped(Keeps(w, upgrade[w]).status).stamp = clock + 1
  BY <1>0, <1>a, StampedFacts DEF Shared
<1>1. /\ \/ /\ row' = Stamped(Keeps(w, upgrade[w]).status) /\ clock' = clock + 1
            /\ silent' = 0 /\ op[w] = Idle
            /\ \/ cache' = [cache EXCEPT ![w] = Stamped(Keeps(w, upgrade[w]).status)]
               \/ cache' = cache
         \/ UNCHANGED <<row, clock, silent, cache>>
      /\ upgrade' = [upgrade EXCEPT ![w] = Nothing]
      /\ UNCHANGED <<seen, known, schema, op, instance, handlers, ops, restarts, astray>>
  BY DEF UpgradeEnds, SaveStamped, NoSave, Now, Free, local, bounds, still
<1>2. Frame(w)
  BY <1>0, <1>1 DEF Frame, Only, Maps, Shared
<1>3. Shared'
  BY <1>0, <1>1, <1>b DEF Shared
<1>4. /\ cache'[w] \in Entry \union {None} /\ cache'[w].stamp <= clock'
      /\ cache[w] # None => cache'[w] # None
  BY <1>0, <1>1, <1>b, EntryFacts DEF Shared, Maps, Local, Reads
<1>5. Reads(w)'
  BY <1>0, <1>1, <1>4, ReadsOn DEF Shared
<1>6. Works(w)'
  <2>1. op'[w] = op[w]
    BY <1>1 DEF Maps, Moves, MovesWith
  <2> QED
    BY <1>0, <1>1, <1>4, Stays DEF Shared
<1>7. Object(w, upgrade[w])'
  BY <1>0, <1>1, EntryFacts DEF Shared, Maps, Object
<1>8. Follows(w)
  BY <1>1, <1>b DEF Follows, Maps, Shared
<1>9. Solo(w)
  BY <1>0, <1>1, <1>a, Lone DEF Busy
<1>10. ~astray' => Serves(w)' /\ (row' = None => ~schema')
  BY <1>0, <1>1, <1>b, EntryFacts DEF Apart, Serves, Starting
<1> QED
  BY <1>1, <1>2, <1>3, <1>5, <1>6, <1>7, <1>8, <1>9, <1>10, FrameKeeps, FollowsKeeps,
       ApartKeeps DEF IInv, Local

LEMMA RestartKeeps ==
  ASSUME LifecycleAssumption, IInv, NEW w \in Workers, Restart(w)
  PROVE  IInv'
<1>0. Sound /\ Shared /\ Maps /\ Local(w) /\ CacheFollowsRegistry /\ Apart
  BY DEF IInv, Sound
<1>1. /\ restarts < MaxRestarts /\ restarts' = restarts + 1
      /\ instance' = instance \ {w} /\ handlers' = handlers \ {w}
      /\ cache' = [cache EXCEPT ![w] = row]
      /\ seen' = [seen EXCEPT ![w] = Never] /\ known' = [known EXCEPT ![w] = Never]
      /\ upgrade' = [upgrade EXCEPT ![w] = Nothing]
      /\ op' = [op EXCEPT ![w] = [Idle EXCEPT !.kind = "preload", !.pc = "refresh"]]
      /\ UNCHANGED <<row, clock, schema, ops, silent>>
  BY DEF Restart
<1>2. Solo(w) /\ astray' \in BOOLEAN
  BY DEF Restart, Solo, Shared
<1>3. Frame(w)
  BY <1>0, <1>1 DEF Frame, Only, Maps, Shared
<1>4. Shared'
  BY <1>0, <1>1, <1>2, LifecycleAssumption DEF Shared
<1>5. Reads(w)'
  BY <1>0, <1>1, ReadsOn DEF Shared, Maps
<1>6. /\ op'[w] \in Ops /\ op'[w].kind = "preload" /\ op'[w].pc = "refresh"
      /\ op'[w].info = Nothing /\ op'[w].fp = 0
  <2>1. op'[w] = [kind |-> "preload", pc |-> "refresh", info |-> Nothing, orig |-> "none", fp |-> 0]
    BY <1>0, <1>1 DEF Maps, Idle
  <2> QED BY <2>1 DEF Ops, Kinds, Steps
<1>7. Works(w)' /\ Object(w, upgrade[w])'
  BY <1>0, <1>1, <1>6, EntryFacts DEF Works, Object, Holds, Rowless, Shared, Maps
<1>8. Follows(w)
  BY <1>0, <1>1 DEF Follows, Maps
<1>9. ~astray' => Serves(w)' /\ (row' = None => ~schema')
  <2>1. cache'[w] = row
    BY <1>0, <1>1 DEF Maps
  <2> QED BY <1>0, <1>1, <1>2, <1>6, <2>1 DEF Serves, Rowless, Solo, Apart
<1> QED
  BY <1>1, <1>2, <1>3, <1>4, <1>5, <1>7, <1>8, <1>9, FrameKeeps, FollowsKeeps,
       ApartKeeps DEF IInv, Local

LEMMA PreloadSelectsKeeps ==
  ASSUME LifecycleAssumption, IInv, NEW w \in Workers, PreloadSelects(w)
  PROVE  IInv'
<1>0. Sound /\ Shared /\ Maps /\ Local(w) /\ CacheFollowsRegistry /\ Apart
  BY DEF IInv, Sound
<1>a. op[w] \in Ops /\ (row.status \in {"enabled", "active"} => row # None)
  BY <1>0, EntryFacts DEF Maps
<1>1. /\ op[w].pc = "select"
      /\ \/ /\ row.status \in {"enabled", "active"} /\ cache[w] # None
            /\ op' = [op EXCEPT ![w] = [op[w] EXCEPT !.pc = "preload", !.info = Cached]]
         \/ op' = [op EXCEPT ![w] = [op[w] EXCEPT !.pc = "rest"]]
      /\ UNCHANGED <<row, clock, schema, cache, seen, known, instance, handlers, upgrade, ops, restarts,
                     silent, astray>>
  BY DEF PreloadSelects, At, local, bounds, view
<1>2. Frame(w)
  BY <1>0, <1>1 DEF Frame, Only, Shared
<1>3. Shared'
  BY <1>0, <1>1 DEF Shared
<1>4. /\ cache'[w] \in Entry \union {None} /\ cache'[w].stamp <= clock'
      /\ cache[w] # None => cache'[w] # None
  BY <1>0, <1>1 DEF Local, Reads
<1>5. Reads(w)'
  BY <1>0, <1>1, <1>4, ReadsOn DEF Shared
<1>6. Works(w)'
  <2>1. (MovesWith(w, "preload", Cached) /\ cache[w] # None) \/ Moves(w, "rest")
    BY <1>0, <1>1 DEF Maps, Moves, MovesWith
  <2> QED
    BY <2>1, <1>0, <1>1, GoesOnWith, GoesOn, EntryFacts DEF Shared, Steps, Rowless
<1>7. Object(w, upgrade[w])'
  BY <1>0, <1>1, UpgradeHolds DEF Shared
<1>8. Follows(w)
  BY <1>1 DEF Follows, Maps, Shared
<1>9. Solo(w)
  BY <1>0, <1>1, Lone, IdleFacts DEF PreloadSelects, Busy, Free
<1>10. ~astray' => Serves(w)' /\ (row' = None => ~schema')
  <2>1. (MovesWith(w, "preload", Cached) /\ row # None) \/ Moves(w, "rest")
    BY <1>0, <1>1, <1>a DEF Maps, MovesWith, Moves
  <2>2. (op'[w].pc = "preload" /\ row # None) \/ op'[w].pc = "rest"
    BY <1>0, <2>1, Moved
  <2> QED BY <2>2, <1>0, <1>1 DEF Serves, Starting, Rowless, Apart
<1> QED
  BY <1>1, <1>2, <1>3, <1>5, <1>6, <1>7, <1>8, <1>9, <1>10, FrameKeeps, FollowsKeeps,
       ApartKeeps DEF IInv, Local

LEMMA PreloadSetsUpKeeps ==
  ASSUME LifecycleAssumption, IInv, NEW w \in Workers, PreloadSetsUp(w)
  PROVE  IInv'
<1>0. Sound /\ Shared /\ Maps /\ Local(w) /\ CacheFollowsRegistry /\ Apart
  BY DEF IInv, Sound
<1>c. op[w].info # Nothing /\ op[w].kind \in Kinds
  BY <1>0, OpsFacts DEF PreloadSetsUp, At, Local, Works, Holds, Rowless
<1>1. /\ op[w].pc = "preload"
      /\ schema' \in BOOLEAN
      /\ \/ instance' = instance \union {w} /\ op' = [op EXCEPT ![w].pc = "mount"]
         \/ instance' = instance /\ op' = [op EXCEPT ![w].pc = "rest"]
      /\ UNCHANGED <<row, clock, silent, cache, upgrade, seen, known, handlers, ops, restarts, astray>>
  BY <1>0 DEF PreloadSetsUp, Goto, NoSave, At, Shared, bounds, still
<1>2. Frame(w)
  BY <1>0, <1>1 DEF Frame, Only, Shared
<1>3. Shared'
  BY <1>0, <1>1 DEF Shared
<1>4. /\ cache'[w] \in Entry \union {None} /\ cache'[w].stamp <= clock'
      /\ cache[w] # None => cache'[w] # None
  BY <1>0, <1>1 DEF Local, Reads
<1>5. Reads(w)'
  BY <1>0, <1>1, <1>4, ReadsOn DEF Shared
<1>6. Works(w)'
  <2>1. (Moves(w, "mount") /\ w \in instance') \/ Moves(w, "rest")
    BY <1>0, <1>1 DEF Maps, Moves, MovesWith
  <2> QED
    BY <2>1, <1>0, <1>1, <1>c, GoesOn DEF Shared, Steps
<1>7. Object(w, upgrade[w])'
  BY <1>0, <1>1, UpgradeHolds DEF Shared
<1>8. Follows(w)
  BY <1>1 DEF Follows, Maps, Shared
<1>9. Solo(w)
  BY <1>0, <1>1, Lone, IdleFacts DEF PreloadSetsUp, Busy, Free
<1>10. ~astray' => Serves(w)' /\ (row' = None => ~schema')
  <2>1. op'[w].pc \in {"mount", "rest"}
    BY <1>0, <1>1 DEF Maps, Ops
  <2> QED BY <1>0, <1>1, <2>1 DEF Apart, Serves, Starting, Rowless
<1> QED
  BY <1>1, <1>2, <1>3, <1>5, <1>6, <1>7, <1>8, <1>9, <1>10, FrameKeeps, FollowsKeeps,
       ApartKeeps DEF IInv, Local

LEMMA PreloadMountsKeeps ==
  ASSUME LifecycleAssumption, IInv, NEW w \in Workers, PreloadMounts(w)
  PROVE  IInv'
<1>0. Sound /\ Shared /\ Maps /\ Local(w) /\ CacheFollowsRegistry /\ Apart
  BY DEF IInv, Sound
<1>b. Stamped("active") \in Entry /\ Stamped("active").stamp = clock + 1
  BY <1>0, StampedFacts DEF Shared, Status
<1>1. /\ op[w].pc = "mount"
      /\ \/ /\ row' = Stamped("active") /\ clock' = clock + 1 /\ silent' = 0
            /\ cache' = [cache EXCEPT ![w] = Stamped("active")] \/ cache' = cache
         \/ UNCHANGED <<row, clock, silent, cache>>
      /\ handlers' = handlers \union {w} \/ handlers' = handlers
      /\ w \in instance
      /\ op' = [op EXCEPT ![w].pc = "rest"]
      /\ UNCHANGED <<upgrade, seen, known, schema, instance, ops, restarts, astray>>
  BY <1>0
     DEF PreloadMounts, SaveAs, SaveStamped, Now, Edit, NoSave, Goto, At, Local, Works,
         bounds, still
<1>2. Frame(w)
  BY <1>0, <1>1 DEF Frame, Only, Maps, Shared
<1>3. Shared'
  BY <1>0, <1>1, <1>b DEF Shared, Status
<1>4. /\ cache'[w] \in Entry \union {None} /\ cache'[w].stamp <= clock'
      /\ cache[w] # None => cache'[w] # None
  BY <1>0, <1>1, <1>b, EntryFacts DEF Shared, Maps, Local, Reads
<1>5. Reads(w)'
  BY <1>0, <1>1, <1>4, ReadsOn DEF Shared
<1>6. Works(w)'
  <2>1. Moves(w, "rest")
    BY <1>0, <1>1 DEF Maps, Moves
  <2> QED
    BY <2>1, <1>0, <1>1, <1>4, GoesOn DEF Shared, Steps, Rowless
<1>7. Object(w, upgrade[w])'
  BY <1>0, <1>1, <1>4, UpgradeHolds DEF Shared
<1>8. Follows(w)
  BY <1>1, <1>b DEF Follows, Maps, Shared
<1>9. Solo(w)
  BY <1>0, <1>1, Lone, IdleFacts DEF PreloadMounts, Busy, Free
<1>10. ~astray' => Serves(w)' /\ (row' = None => ~schema')
  <2>1. op'[w].pc = "rest"
    BY <1>0, <1>1 DEF Maps, Ops
  <2>2. ~astray' => row' # None
    BY <1>0, <1>1, <1>b, EntryFacts DEF Apart, Serves, Rowless
  <2> QED BY <2>1, <2>2 DEF Serves, Rowless
<1> QED
  BY <1>1, <1>2, <1>3, <1>5, <1>6, <1>7, <1>8, <1>9, <1>10, FrameKeeps, FollowsKeeps,
       ApartKeeps DEF IInv, Local

LEMMA RefreshesMetaKeeps ==
  ASSUME LifecycleAssumption, IInv, NEW w \in Workers, RefreshesMeta(w)
  PROVE  IInv'
<1>0. Sound /\ Shared /\ Maps /\ Local(w) /\ CacheFollowsRegistry /\ Apart
  BY DEF IInv, Sound
<1> DEFINE info == Stamped(cache[w].status)
<1>b. cache[w] # None => info \in Entry /\ info.stamp = clock + 1
  BY <1>0, StampedFacts, EntryFacts DEF Shared, Local, Reads
<1> HIDE DEF info
<1>1. /\ op[w].pc = "refresh"
      /\ \/ /\ cache[w] # None
            /\ row' = info /\ clock' = clock + 1 /\ silent' = 0
            /\ cache' = [cache EXCEPT ![w] = info]
         \/ UNCHANGED <<row, clock, silent, cache>>
      /\ op' = [op EXCEPT ![w].pc = "start"]
      /\ UNCHANGED <<upgrade, seen, known, schema, instance, handlers, ops, restarts, astray>>
  BY DEF RefreshesMeta, SaveStamped, NoSave, Goto, At, Now, info, local, bounds, still
<1>2. Frame(w)
  BY <1>0, <1>1 DEF Frame, Only, Maps, Shared
<1>3. Shared'
  BY <1>0, <1>1, <1>b DEF Shared
<1>4. /\ cache'[w] \in Entry \union {None} /\ cache'[w].stamp <= clock'
      /\ cache[w] # None => cache'[w] # None
  BY <1>0, <1>1, <1>b, EntryFacts DEF Shared, Maps, Local, Reads
<1>5. Reads(w)'
  BY <1>0, <1>1, <1>4, ReadsOn DEF Shared
<1>6. Works(w)'
  <2>1. Moves(w, "start")
    BY <1>0, <1>1 DEF Maps, Moves
  <2> QED
    BY <2>1, <1>0, <1>1, <1>4, GoesOn DEF Shared, Steps, Rowless
<1>7. Object(w, upgrade[w])'
  BY <1>0, <1>1, <1>4, UpgradeHolds DEF Shared
<1>8. Follows(w)
  BY <1>1, <1>b DEF Follows, Maps, Shared
<1>9. Solo(w)
  BY <1>0, <1>1, Lone, IdleFacts DEF Busy, Free
<1>10. ~astray' => Serves(w)' /\ (row' = None => ~schema')
  <2>1. op'[w].pc = "start"
    BY <1>0, <1>1 DEF Maps, Ops
  <2>2. row' = None => row = None /\ cache'[w] = cache[w]
    BY <1>1, <1>b, EntryFacts
  <2> QED BY <1>0, <1>1, <2>1, <2>2 DEF Apart, Serves, Starting, Rowless
<1> QED
  BY <1>1, <1>2, <1>3, <1>5, <1>6, <1>7, <1>8, <1>9, <1>10, FrameKeeps, FollowsKeeps,
       ApartKeeps DEF IInv, Local

LEMMA MountAllKeeps ==
  ASSUME LifecycleAssumption, IInv, NEW w \in Workers, MountAll(w)
  PROVE  IInv'
<1>0. Sound /\ Shared /\ Maps /\ Local(w) /\ CacheFollowsRegistry /\ Apart
  BY DEF IInv, Sound
<1>1. /\ op[w].pc = "rest"
      /\ schema' \in BOOLEAN /\ (cache[w] = None => schema' = schema)
      /\ instance' = instance \union {w} \/ instance' = instance
      /\ op' = [op EXCEPT ![w] = Idle]
      /\ UNCHANGED <<row, clock, silent, cache, upgrade, seen, known, handlers, ops, restarts, astray>>
  BY <1>0 DEF MountAll, End, NoSave, At, Shared, bounds, still
<1>2. Frame(w)
  <2>1. op'[w] = Idle /\ op' = [op EXCEPT ![w] = op'[w]]
    BY <1>0, <1>1 DEF Maps
  <2> QED BY <1>0, <1>1, <2>1 DEF Frame, Only, Shared
<1>3. Shared'
  BY <1>0, <1>1 DEF Shared
<1>4. cache'[w] \in Entry \union {None} /\ cache'[w].stamp <= clock'
  BY <1>0, <1>1 DEF Local, Reads
<1>5. Reads(w)'
  BY <1>0, <1>1, <1>4, ReadsOn DEF Shared
<1>6. Works(w)'
  <2>1. op'[w] = Idle
    BY <1>0, <1>1 DEF Maps
  <2> QED BY <2>1, <1>0, <1>1, Ends DEF Shared
<1>7. Object(w, upgrade[w])'
  BY <1>0, <1>1, UpgradeHolds DEF Shared
<1>8. Follows(w)
  BY <1>1 DEF Follows, Maps, Shared
<1>9. Solo(w)
  BY <1>0, <1>1, Lone, IdleFacts DEF Busy, Free
<1>10. ~astray' => Serves(w)' /\ (row' = None => ~schema')
  <2>1. op'[w].pc = "idle"
    BY <1>0, <1>1, IdleFacts DEF Maps
  <2>2. ~astray /\ row = None => cache[w] = None /\ ~schema
    BY <1>0, <1>1 DEF Apart, Serves, Starting
  <2> QED BY <1>1, <2>1, <2>2 DEF Serves, Starting, Rowless
<1> QED
  BY <1>1, <1>2, <1>3, <1>5, <1>6, <1>7, <1>8, <1>9, <1>10, FrameKeeps, FollowsKeeps,
       ApartKeeps DEF IInv, Local

-----------------------------------------------------------------------------
\* The operations that begin with the cached object, and those that list the
\* plugins on their way.
LEMMA BeginKeeps ==
  ASSUME LifecycleAssumption, IInv, NEW w \in Workers,
         Enable(w) \/ Activate(w) \/ Disable(w) \/ Uninstall(w)
  PROVE  IInv'
<1>1. CASE Enable(w)
  BY <1>1, BeginOnKeeps DEF Enable
<1>2. CASE Activate(w)
  BY <1>2, BeginOnKeeps DEF Activate
<1>3. CASE Disable(w)
  BY <1>3, BeginOnKeeps DEF Disable
<1>4. CASE Uninstall(w)
  BY <1>4, BeginOnKeeps DEF Uninstall
<1> QED BY <1>1, <1>2, <1>3, <1>4

LEMMA ListKeeps ==
  ASSUME LifecycleAssumption, IInv, NEW w \in Workers,
         EnableLists(w) \/ EnableListsAgain(w) \/ UninstallLists(w) \/ PreloadLists(w)
  PROVE  IInv'
<1>1. CASE EnableLists(w)
  BY <1>1, ListsKeeps DEF EnableLists, At, Rowless
<1>2. CASE EnableListsAgain(w)
  BY <1>2, ListsKeeps DEF EnableListsAgain, At, Rowless
<1>3. CASE UninstallLists(w)
  BY <1>3, ListsKeeps DEF UninstallLists, At, Rowless
<1>4. CASE PreloadLists(w)
  BY <1>4, ListsKeeps DEF PreloadLists, At, Rowless
<1> QED BY <1>1, <1>2, <1>3, <1>4

LEMMA StepKeeps ==
  ASSUME LifecycleAssumption, IInv, NEW w \in Workers, Step(w)
  PROVE  IInv'
<1>1. CASE InstallLoads(w) \/ InstallSaves(w) \/ ConfigSaves(w) \/ UpgradeEnds(w)
  BY <1>1, InstallLoadsKeeps, InstallSavesKeeps, ConfigSavesKeeps, UpgradeEndsKeeps
<1>2. CASE EnableLists(w) \/ EnableListsAgain(w) \/ UninstallLists(w) \/ PreloadLists(w)
  BY <1>2, ListKeeps
<1>3. CASE EnableGate(w) \/ EnableSetsUp(w) \/ EnableSaves(w) \/ EnableActivates(w)
  BY <1>3, EnableGateKeeps, EnableSetsUpKeeps, EnableSavesKeeps, EnableActivatesKeeps
<1>4. CASE ActivateHeals(w) \/ ActivateRuns(w) \/ DisableSaves(w)
  BY <1>4, ActivateHealsKeeps, ActivateRunsKeeps, DisableSavesKeeps
<1>5. CASE \/ UninstallDisables(w) \/ UninstallCleansUp(w)
           \/ UninstallDeletes(w) \/ UninstallRollsBack(w)
  BY <1>5, UninstallDisablesKeeps, UninstallCleansUpKeeps, UninstallDeletesKeeps,
     UninstallRollsBackKeeps
<1>6. CASE \/ RefreshesMeta(w) \/ PreloadSelects(w) \/ PreloadSetsUp(w)
           \/ PreloadMounts(w) \/ MountAll(w)
  BY <1>6, RefreshesMetaKeeps, PreloadSelectsKeeps, PreloadSetsUpKeeps, PreloadMountsKeeps,
     MountAllKeeps
<1> QED BY <1>1, <1>2, <1>3, <1>4, <1>5, <1>6 DEF Step

LEMMA NextKeeps ==
  ASSUME LifecycleAssumption, IInv, [Next]_vars
  PROVE  IInv'
<1>1. CASE Next
  <2>1. PICK w \in Workers :
           \/ Compare(w) \/ Reload(w) \/ Refused(w) \/ Restart(w)
           \/ Install(w) \/ Enable(w) \/ Activate(w) \/ Disable(w)
           \/ Uninstall(w) \/ SetConfig(w) \/ Upgrade(w)
           \/ Step(w)
    BY <1>1 DEF Next
  <2>2. CASE Compare(w) \/ Reload(w) \/ Refused(w) \/ Restart(w)
    BY <2>2, CompareKeeps, ReloadKeeps, RefusedKeeps, RestartKeeps
  <2>3. CASE Install(w) \/ SetConfig(w) \/ Upgrade(w)
    BY <2>3, InstallKeeps, SetConfigKeeps, UpgradeKeeps
  <2>4. CASE Enable(w) \/ Activate(w) \/ Disable(w) \/ Uninstall(w)
    BY <2>4, BeginKeeps
  <2>5. CASE Step(w)
    BY <2>5, StepKeeps
  <2> QED BY <2>1, <2>2, <2>3, <2>4, <2>5
<1>2. CASE UNCHANGED vars
  <2>1. /\ Shared' /\ Maps'
        /\ CacheFollowsRegistry'
        /\ \A w \in Workers : Local(w)'
    BY <1>2 DEF IInv, Sound, Shared, Maps, CacheFollowsRegistry, Fingerprint, Local, Reads, Works,
       Object, Holds, Rowless, vars
  <2>2. Apart'
    BY <1>2 DEF IInv, Apart, Busy, Free, Serves, Starting, vars
  <2> QED BY <2>1, <2>2 DEF IInv, Sound
<1> QED BY <1>1, <1>2

LEMMA InitHolds ==
  ASSUME LifecycleAssumption, Init
  PROVE  IInv
<1>1. /\ row \in Entry \union {None} /\ row.stamp \in {0, 1}
  <2>1. CASE row = None
    BY <2>1, EntryFacts
  <2>2. CASE row \in [status : {"active", "enabled"}, stamp : {1}]
    BY <2>2 DEF Entry, Status
  <2> QED BY <2>1, <2>2 DEF Init
<1>2. row = None => row.status # "active"
  BY EntryFacts
<1>3. Shared
  <2>1. schema \in BOOLEAN /\ instance \subseteq Workers /\ handlers \subseteq instance
    BY DEF Init
  <2>2. clock = row.stamp /\ silent = 0 /\ astray \in BOOLEAN
    BY DEF Init
  <2>4. clock \in Nat /\ row.stamp <= clock
    BY <1>1, <2>2
  <2>3. ops \in 0..MaxOps /\ restarts \in 0..MaxRestarts
    <3>1. ops = 0 /\ restarts = 0
      BY DEF Init
    <3>2. MaxOps \in Nat /\ MaxRestarts \in Nat
      BY LifecycleAssumption
    <3> QED BY <3>1, <3>2
  <2> QED BY <1>1, <2>1, <2>2, <2>3, <2>4 DEF Shared
<1>4. Maps
  BY <1>1, IdleFacts DEF Init, Maps
<1>5. ASSUME NEW w \in Workers PROVE Local(w)
  <2>1. /\ cache[w] = row /\ seen[w] = row.stamp /\ known[w] = row.stamp
        /\ op[w] = Idle /\ upgrade[w] = Nothing /\ clock = row.stamp
    BY <1>5 DEF Init
  <2>2. Reads(w)
    BY <1>1, <2>1 DEF Reads
  <2>3. Object(w, Nothing)
    BY <1>1, <2>1, EntryFacts DEF Object
  <2>4. Works(w)
    BY <1>1, <2>1, <2>3, IdleFacts, EntryFacts DEF Works, Holds, Rowless
  <2> QED BY <2>1, <2>2, <2>3, <2>4 DEF Local
<1>6. CacheFollowsRegistry
  BY DEF Init, CacheFollowsRegistry
<1>7. Apart
  BY <1>2, IdleFacts DEF Init, Apart, Busy, Free, Serves, Starting, Rowless
<1> QED BY <1>3, <1>4, <1>5, <1>6, <1>7 DEF IInv, Sound

LEMMA Inductive == Spec => []IInv
<1>1. Init => IInv
  BY InitHolds, LifecycleAssumption
<1>2. IInv /\ [Next]_vars => IInv'
  BY NextKeeps, LifecycleAssumption
<1> QED BY <1>1, <1>2, PTL DEF Spec

\* The state has its types: in particular a worker never holds an object of
\* its cache (Cached) where the cache has none, and has no handlers without
\* an instance.
THEOREM TypeCorrect == Spec => []TypeOK
<1>1. IInv => TypeOK
  BY TypesFollow DEF IInv
<1> QED BY <1>1, Inductive, PTL

\* A worker whose fingerprint is that of plugin_registry has the status of
\* the row in _cache, however the operations, reloads and deaths of any number
\* of workers interleave, unless the row was saved without a new updated_at.
THEOREM CacheFollows == Spec => []CacheFollowsRegistry
<1>1. IInv => CacheFollowsRegistry
  BY DEF IInv
<1> QED BY <1>1, Inductive, PTL

\* A plugin whose row is gone has left no tables where the operations and the
\* starts of the workers did not overlap, whichever steps of uninstall() failed
\* or died.
THEOREM NothingLeft == Spec => []LeavesNothing
<1>1. IInv => LeavesNothing
  BY DEF IInv, Apart, LeavesNothing
<1> QED BY <1>1, Inductive, PTL
=============================================================================
