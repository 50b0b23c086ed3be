--------------------------- MODULE PluginLifecycle ---------------------------
(***************************************************************************)
(* The life of one plugin in a site of several workers: PluginManager of   *)
(* plugin_manager/manager.py installs, enables, activates, configures,     *)
(* upgrades, disables and uninstalls it, each worker under a lock of its   *)
(* own, with its own cache, instance and event handlers.  What the workers *)
(* share is the row of plugin_registry and the tables of the plugin.  A    *)
(* worker learns of the writes of another from the fingerprint of          *)
(* plugin_registry, which it reads at most once a second, and reloads its  *)
(* cache when it has changed.                                              *)
(*                                                                         *)
(* An operation reads at its beginning and writes in later transactions;   *)
(* an upgrade lets go of the lock while it downloads; a worker may be      *)
(* recycled at any time.  The checks of an operation (edition, licence,    *)
(* conflicts, roles) and what the plugin's own code does are outcomes.     *)
(* The plugin is an official one, which is exempt from the failure guard   *)
(* and the permission checks, part of the edition, and the only one whose  *)
(* row changes: the fingerprint <count, last updated_at> is then the       *)
(* updated_at of its row.  PLUGIN_AUTO_INSTALL is off.                     *)
(***************************************************************************)
EXTENDS Integers, FiniteSets

CONSTANTS
    Workers,        \* processes of the site
    MaxOps,         \* bound: operations begun
    MaxRestarts     \* bound: workers recycled

ASSUME LifecycleAssumption ==
    IsFiniteSet(Workers) /\ MaxOps \in Nat /\ MaxRestarts \in Nat

VARIABLES
    row,        \* the row of plugin_registry: status and updated_at
    schema,     \* the tables of the plugin exist
    cache,      \* cache[w]: the PluginInfo in _cache
    seen,       \* seen[w]: _fp_state['value'], the fingerprint last read
    known,      \* known[w]: _cache_fp, the fingerprint of the last reload
    instance,   \* workers that hold an instance of the plugin
    handlers,   \* workers in which its event handlers are subscribed
    op,         \* op[w]: the operation that holds the lock of a worker
    upgrade,    \* upgrade[w]: the PluginInfo an upgrade holds while it downloads
    clock,      \* the last updated_at
    ops,        \* operations begun
    restarts,   \* workers recycled
    silent,     \* history: the updated_at under which the row changed again, or 0
    astray      \* history: operations or starts overlapped, or one worked without a row

view == <<cache, seen, known>>
local == <<instance, handlers>>
bounds == <<ops, restarts>>
vars == <<row, schema, cache, seen, known, instance, handlers, op, upgrade,
          clock, ops, restarts, silent, astray>>

None == [status |-> "none", stamp |-> 0]
Never == -1         \* a process that starts has read no fingerprint
Cached == [status |-> "cached", stamp |-> 0]    \* held: the very object of the cache
Nothing == [status |-> "nothing", stamp |-> 0]  \* nothing is held
Status == {"installed", "enabled", "active", "disabled", "error"}
Entry == [status : Status, stamp : Nat \ {0}]
Idle == [kind |-> "idle", pc |-> "idle", info |-> Nothing, orig |-> "none", fp |-> 0]

\* PluginStatus.valid_transitions, without the statuses no row has.
Transitions ==
    [installed |-> {"enabled", "disabled"},
     enabled   |-> {"active", "disabled"},
     active    |-> {"disabled"},
     disabled  |-> {"enabled"},
     error     |-> {"installed", "enabled", "disabled"}]
MayBecome(info, status) == info # None /\ status \in Transitions[info.status]

Kinds == {"idle", "install", "enable", "activate", "disable", "uninstall", "config", "preload"}
Steps == {"idle", "load", "register", "conflicts", "gate", "setup", "enabled", "i18n",
          "activate", "heal", "run", "nested", "detach", "cleanup", "delete",
          "rollback", "config", "refresh", "start", "select", "preload", "mount", "rest"}

TypeOK ==
    /\ row \in Entry \union {None}
    /\ schema \in BOOLEAN
    /\ cache \in [Workers -> Entry \union {None}]
    /\ seen \in [Workers -> Nat \union {Never}]
    /\ known \in [Workers -> Nat \union {Never}]
    /\ instance \subseteq Workers
    /\ handlers \subseteq instance
    /\ op \in [Workers -> [kind : Kinds, pc : Steps,
                           info : Entry \union {Cached, Nothing},
                           orig : Status \union {"none"}, fp : Nat]]
    /\ upgrade \in [Workers -> Entry \union {Cached, Nothing}]
    /\ \A w \in Workers : (op[w].info = Cached \/ upgrade[w] = Cached) => cache[w] # None
    /\ clock \in Nat
    /\ ops \in 0..MaxOps
    /\ restarts \in 0..MaxRestarts
    /\ silent \in 0..clock
    /\ astray \in BOOLEAN

\* All workers have just started; the plugin is on disk only, or active, or
\* was enabled but could not be set up.
Init ==
    /\ row \in {None} \union [status : {"active", "enabled"}, stamp : {1}]
    /\ schema = (row.status = "active")
    /\ cache = [w \in Workers |-> row]
    /\ seen = [w \in Workers |-> row.stamp]
    /\ known = [w \in Workers |-> row.stamp]
    /\ instance = IF row.status = "active" THEN Workers ELSE {}
    /\ handlers = instance
    /\ op = [w \in Workers |-> Idle]
    /\ upgrade = [w \in Workers |-> Nothing]
    /\ clock = row.stamp
    /\ ops = 0
    /\ restarts = 0
    /\ silent = 0
    /\ astray = FALSE
-----------------------------------------------------------------------------
\* The cache of a worker

Fingerprint == row.stamp
Stale(w) == seen[w] # known[w]
Free(w) == op[w] = Idle

\* Another object takes the place of the cached one; who holds the old keeps it.
Keeps(w, held) == IF held = Cached THEN cache[w] ELSE held
Replace(w, info) ==
    /\ cache' = [cache EXCEPT ![w] = info]
    /\ upgrade' = [upgrade EXCEPT ![w] = Keeps(w, @)]

\* A read compares the fingerprints when the last comparison is a second old,
Compare(w) ==
    /\ seen[w] # Fingerprint
    /\ seen' = [seen EXCEPT ![w] = Fingerprint]
    /\ UNCHANGED <<row, schema, cache, known, local, op, upgrade, clock, bounds, silent, astray>>

\* and reloads the cache if they differ, once it has the lock.
Reload(w) ==
    /\ Free(w) /\ Stale(w)
    /\ Replace(w, row)
    /\ known' = [known EXCEPT ![w] = seen[w]]
    /\ UNCHANGED <<row, schema, seen, local, op, clock, bounds, silent, astray>>

\* refresh_status_from_db: the cached object takes over the status of the row
Refreshed(w) ==
    IF cache[w] # None /\ row # None THEN [cache[w] EXCEPT !.status = row.status] ELSE cache[w]

\* _get_cached, after the cached object was or was not refreshed
Reloads(w, info) == Stale(w) \/ info = None
Got(w, info) == IF Reloads(w, info) THEN row ELSE info
Get(w, info) ==
    /\ cache' = [cache EXCEPT ![w] = Got(w, info)]
    /\ known' = [known EXCEPT ![w] = seen[w]]
Leaves(w, held, info) == IF held = Cached /\ Reloads(w, info) THEN info ELSE held
-----------------------------------------------------------------------------
\* The row

Now == clock + 1
Stamped(status) == [status |-> status, stamp |-> Now]
SaveStamped(status) == row' = Stamped(status) /\ clock' = Now /\ silent' = 0

\* Saved without a new updated_at: the fingerprint may stay what it was, or
\* go back to what it has been.
SaveAsIs(info) ==
    /\ row' = info
    /\ silent' = IF row' = row THEN silent ELSE info.stamp
    /\ UNCHANGED clock

NoSave == UNCHANGED <<row, clock, silent>>
still == <<seen, known, bounds, astray>>    \* what a step leaves alone

\* What an operation does to the object it holds.
Info(w) == Keeps(w, op[w].info)
Edit(w, info) == cache' = IF op[w].info = Cached THEN [cache EXCEPT ![w] = info] ELSE cache
Held(w, info) == IF op[w].info = Cached THEN Cached ELSE info
-----------------------------------------------------------------------------
\* Operations: a worker runs one at a time, others may run elsewhere.

Busy(w) == ~Free(w) \/ upgrade[w] # Nothing
At(w, step) == op[w].pc = step
Goto(w, step) == op' = [op EXCEPT ![w].pc = step]
End(w) == op' = [op EXCEPT ![w] = Idle]
Counts(w, onRow) ==
    /\ ops < MaxOps
    /\ ops' = ops + 1
    /\ astray' = \/ astray \/ (onRow /\ row = None) \/ upgrade[w] # Nothing
                 \/ \E v \in Workers \ {w} : Busy(v)
Begin(w, kind, step, orig) ==
    /\ Free(w)
    /\ Counts(w, TRUE)
    /\ op' = [op EXCEPT ![w] =
                 [kind |-> kind, pc |-> step, info |-> Cached, orig |-> orig, fp |-> 0]]
    /\ UNCHANGED <<row, schema, seen, local, clock, restarts, silent>>
\* An operation that begins with the cached object, refreshed or not.
BeginOn(w, kind, step, info) ==
    /\ Got(w, info) # None
    /\ Get(w, info)
    /\ upgrade' = [upgrade EXCEPT ![w] = Leaves(w, @, info)]
    /\ Begin(w, kind, step, IF kind = "uninstall" THEN Got(w, info).status ELSE "none")

\* One that the checks refuse has only brought the cache up to date.
Refused(w) ==
    /\ Free(w)
    /\ \E info \in {cache[w], Refreshed(w)} :
        /\ Get(w, info)
        /\ upgrade' = [upgrade EXCEPT ![w] = Leaves(w, @, info)]
    /\ UNCHANGED <<row, schema, seen, local, op, clock, bounds, silent, astray>>

\* list_plugins within an operation, whose lock it may take again
Lists(w, next) ==
    /\ IF Stale(w)
       THEN Replace(w, row) /\ known' = [known EXCEPT ![w] = seen[w]]
       ELSE UNCHANGED <<cache, known, upgrade>>
    /\ op' = [op EXCEPT ![w] =
                 [op[w] EXCEPT !.pc = next, !.info = IF Stale(w) THEN Keeps(w, @) ELSE @]]
    /\ UNCHANGED <<row, schema, seen, local, clock, bounds, silent, astray>>

\* The object that is held becomes the one of the cache again.
PutsBack(w, status) ==
    /\ cache' = [cache EXCEPT ![w] = Stamped(status)]
    /\ upgrade' = IF op[w].info = Cached THEN upgrade ELSE [upgrade EXCEPT ![w] = Keeps(w, @)]

\* A save of the object that is held, after which the operation goes on or ends.
SaveAs(w, status) == SaveStamped(status) /\ Edit(w, Stamped(status))
Fails(w) ==
    LET failed == [Info(w) EXCEPT !.status = "error"]
    IN SaveAsIs(failed) /\ Edit(w, failed) /\ End(w)
-----------------------------------------------------------------------------
\* install

Install(w) ==
    /\ Free(w)
    /\ Counts(w, FALSE)
    /\ op' = [op EXCEPT ![w] = [Idle EXCEPT !.kind = "install", !.pc = "load", !.fp = Fingerprint]]
    /\ UNCHANGED <<row, schema, view, local, upgrade, clock, restarts, silent>>

InstallLoads(w) ==
    /\ At(w, "load")
    /\ Replace(w, row)
    /\ known' = [known EXCEPT ![w] = op[w].fp]
    /\ seen' = [seen EXCEPT ![w] = op[w].fp]
    /\ \/ row.status \in {"none", "disabled", "error"} /\ Goto(w, "register")
       \/ End(w)
    /\ UNCHANGED <<row, schema, local, clock, bounds, silent, astray>>

InstallSaves(w) ==
    /\ At(w, "register")
    /\ SaveStamped("installed")
    /\ Replace(w, Stamped("installed"))
    /\ End(w)
    /\ UNCHANGED <<schema, still, local>>
-----------------------------------------------------------------------------
\* enable

Enable(w) ==
    /\ MayBecome(Got(w, Refreshed(w)), "enabled")
    /\ BeginOn(w, "enable", "conflicts", Refreshed(w))

EnableLists(w) == At(w, "conflicts") /\ Lists(w, "gate")

\* A conflict, no licence, modified files, another edition, no role; or a
\* dependency or a version, which raises and saves nothing.
EnableGate(w) ==
    /\ At(w, "gate")
    /\ \/ Fails(w)
       \/ Goto(w, "setup") /\ NoSave /\ UNCHANGED cache
       \/ End(w) /\ NoSave /\ UNCHANGED cache
    /\ UNCHANGED <<schema, still, local, upgrade>>

\* setup() may create the tables even where it fails.  PluginInstallError ends
\* the operation; any other exception is saved and SystemExit ignored.
EnableSetsUp(w) ==
    /\ At(w, "setup")
    /\ schema' \in {schema, TRUE}
    /\ \/ /\ schema'
          /\ instance' = instance \union {w}
          /\ Goto(w, "enabled") /\ NoSave /\ UNCHANGED cache
       \/ Fails(w) /\ UNCHANGED instance
       \/ Goto(w, "enabled") /\ (SaveAsIs(Info(w)) \/ NoSave) /\ UNCHANGED <<cache, instance>>
    /\ UNCHANGED <<still, handlers, upgrade>>

EnableSaves(w) ==
    /\ At(w, "enabled")
    /\ SaveAs(w, "enabled")
    /\ op' = [op EXCEPT ![w] = [@ EXCEPT !.pc = "i18n", !.info = Held(w, Stamped("enabled"))]]
    /\ UNCHANGED <<schema, still, local, upgrade>>

EnableListsAgain(w) == At(w, "i18n") /\ op[w].kind = "enable" /\ Lists(w, "activate")

\* The instance of this worker is activated at once, if there is one.
EnableActivates(w) ==
    /\ At(w, "activate")
    /\ \/ w \in instance /\ handlers' = handlers \union {w} /\ SaveAs(w, "active")
       \/ NoSave /\ UNCHANGED <<cache, handlers>>
    /\ End(w)
    /\ UNCHANGED <<schema, still, instance, upgrade>>
-----------------------------------------------------------------------------
\* activate

Activate(w) ==
    /\ MayBecome(Got(w, Refreshed(w)), "active")
    /\ BeginOn(w, "activate", IF w \in instance THEN "run" ELSE "heal", Refreshed(w))

\* The instance is made good for; a failure is saved, SystemExit is not.
ActivateHeals(w) ==
    /\ At(w, "heal")
    /\ schema' \in {schema, TRUE}
    /\ \/ schema' /\ instance' = instance \union {w} /\ Goto(w, "run") /\ NoSave
       \/ End(w) /\ (SaveAsIs(Info(w)) \/ NoSave) /\ UNCHANGED instance
    /\ UNCHANGED <<cache, still, handlers, upgrade>>

ActivateRuns(w) ==
    /\ At(w, "run")
    /\ \/ handlers' = handlers \union {w} /\ SaveAs(w, "active") /\ End(w)
       \/ Fails(w) /\ UNCHANGED handlers
    /\ UNCHANGED <<schema, still, instance, upgrade>>
-----------------------------------------------------------------------------
\* disable, by itself or as the first part of an uninstall

Disable(w) ==
    /\ MayBecome(Got(w, Refreshed(w)), "disabled")
    /\ BeginOn(w, "disable", "detach", Refreshed(w))

DisableForgets(w) ==    \* fault: the handlers stay subscribed
    /\ At(w, "detach")
    /\ instance' = instance \ {w}
    /\ SaveStamped("disabled")
    /\ cache' = [cache EXCEPT ![w] = Stamped("disabled")]
    /\ IF op[w].kind = "disable" THEN End(w) ELSE Goto(w, "i18n")
    /\ UNCHANGED <<schema, handlers, still, upgrade>>

DisableUnstamped(w) ==  \* fault: updated_at is not set
    /\ At(w, "detach")
    /\ instance' = instance \ {w}
    /\ handlers' = handlers \ {w}
    /\ row' = [cache[w] EXCEPT !.status = "disabled"]
    /\ cache' = [cache EXCEPT ![w].status = "disabled"]
    /\ IF op[w].kind = "disable" THEN End(w) ELSE Goto(w, "i18n")
    /\ UNCHANGED <<schema, clock, silent, still, upgrade>>

\* It works on the object of the cache, and takes it out of this worker only.
DisableSaves(w) ==
    /\ At(w, "detach")
    /\ instance' = instance \ {w}
    /\ handlers' = handlers \ {w}
    /\ SaveStamped("disabled")
    /\ cache' = [cache EXCEPT ![w] = Stamped("disabled")]
    /\ IF op[w].kind = "disable" THEN End(w) ELSE Goto(w, "i18n")
    /\ UNCHANGED <<schema, still, upgrade>>
-----------------------------------------------------------------------------
\* uninstall

Uninstall(w) ==
    /\ Got(w, cache[w]) # None
    /\ BeginOn(w, "uninstall",
               IF Got(w, cache[w]).status \in {"enabled", "active"} THEN "nested" ELSE "cleanup",
               cache[w])

UninstallDisables(w) ==
    LET info == Refreshed(w) IN
    /\ At(w, "nested")
    /\ Get(w, info)
    /\ upgrade' = [upgrade EXCEPT ![w] = Leaves(w, @, info)]
    /\ op' = [op EXCEPT ![w] = [op[w] EXCEPT
                 !.info = Leaves(w, @, info),
                 !.pc = IF MayBecome(Got(w, info), "disabled") THEN "detach" ELSE "rollback"]]
    /\ UNCHANGED <<row, schema, seen, local, clock, bounds, silent, astray>>

UninstallLists(w) == At(w, "i18n") /\ op[w].kind = "uninstall" /\ Lists(w, "cleanup")

UninstallCleansUpLoaded(w) ==   \* fault: on_uninstall is skipped where no instance is loaded
    /\ At(w, "cleanup")
    /\ instance' = instance \ {w}
    /\ handlers' = handlers \ {w}
    /\ schema' = (schema /\ w \notin instance)
    /\ Goto(w, "delete") /\ NoSave
    /\ UNCHANGED <<cache, upgrade, still>>

\* on_uninstall of the instance, which may have to be loaded, drops the tables,
\* or fails and leaves the row disabled.
UninstallCleansUp(w) ==
    /\ At(w, "cleanup")
    /\ instance' = instance \ {w}
    /\ handlers' = handlers \ {w}
    /\ schema' \in {schema, FALSE}
    /\ \/ ~schema' /\ Goto(w, "delete") /\ NoSave /\ UNCHANGED <<cache, upgrade>>
       \/ SaveStamped("disabled") /\ PutsBack(w, "disabled") /\ End(w)
    /\ UNCHANGED still

\* The row is deleted, unless the statement fails.
UninstallDeletes(w) ==
    /\ At(w, "delete")
    /\ \/ /\ row' = None
          /\ Replace(w, None)
          /\ End(w)
       \/ Goto(w, "rollback") /\ UNCHANGED <<row, cache, upgrade>>
    /\ UNCHANGED <<schema, still, local, clock, silent>>

\* An exception: the status that the cache had at the beginning is restored.
UninstallRollsBack(w) ==
    /\ At(w, "rollback")
    /\ SaveStamped(op[w].orig)
    /\ PutsBack(w, op[w].orig)
    /\ End(w)
    /\ UNCHANGED <<schema, still, local>>
-----------------------------------------------------------------------------
\* set_config, set_config_batch: the whole row is read and written back.

SetConfig(w) ==
    /\ row # None
    /\ Replace(w, row)
    /\ Begin(w, "config", "config", "none")
    /\ UNCHANGED known

ConfigSaves(w) ==
    /\ At(w, "config")
    /\ SaveAs(w, Info(w).status)
    /\ End(w)
    /\ UNCHANGED <<schema, still, local, upgrade>>
-----------------------------------------------------------------------------
\* upgrade: the lock is released for the download, not the object.

Upgrade(w) ==
    LET info == Got(w, cache[w]) IN
    /\ Free(w) /\ upgrade[w] = Nothing
    /\ info # None /\ info.status \in {"installed", "enabled", "active"}
    /\ Get(w, cache[w])
    /\ Counts(w, TRUE)
    /\ upgrade' = [upgrade EXCEPT ![w] = Cached]
    /\ UNCHANGED <<row, schema, seen, local, op, clock, restarts, silent>>

UpgradeEnds(w) ==
    LET held == Keeps(w, upgrade[w]) IN
    /\ upgrade[w] # Nothing
    /\ \/ /\ Free(w)
          /\ SaveStamped(held.status)
          /\ cache' = IF upgrade[w] = Cached THEN [cache EXCEPT ![w] = Stamped(held.status)] ELSE cache
       \/ NoSave /\ UNCHANGED cache
    /\ upgrade' = [upgrade EXCEPT ![w] = Nothing]
    /\ UNCHANGED <<schema, still, local, op>>
-----------------------------------------------------------------------------
\* A worker is recycled, in the middle of whatever it does.  The new process
\* loads its cache, writes what plugin.json says now to the rows it loaded,
\* loads the cache again when it first lists the plugins, and then loads the
\* plugin: where it is enabled to serve it, and where it is not to mount its
\* routes.

Restart(w) ==
    /\ restarts < MaxRestarts
    /\ restarts' = restarts + 1
    /\ instance' = instance \ {w}
    /\ handlers' = handlers \ {w}
    /\ cache' = [cache EXCEPT ![w] = row]
    /\ seen' = [seen EXCEPT ![w] = Never]
    /\ known' = [known EXCEPT ![w] = Never]
    /\ upgrade' = [upgrade EXCEPT ![w] = Nothing]
    /\ op' = [op EXCEPT ![w] = [Idle EXCEPT !.kind = "preload", !.pc = "refresh"]]
    /\ astray' = (astray \/ \E v \in Workers \ {w} : Busy(v))
    /\ UNCHANGED <<row, schema, clock, ops, silent>>

\* _refresh_static_meta: the row is saved as it was loaded, deleted or not.
RefreshesMeta(w) ==
    /\ At(w, "refresh")
    /\ \/ /\ cache[w] # None
          /\ SaveStamped(cache[w].status)
          /\ cache' = [cache EXCEPT ![w] = Stamped(@.status)]
       \/ NoSave /\ UNCHANGED cache
    /\ Goto(w, "start")
    /\ UNCHANGED <<schema, still, local, upgrade>>

PreloadLists(w) == At(w, "start") /\ seen[w] # Never /\ Lists(w, "select")

PreloadSelects(w) ==
    /\ At(w, "select")
    /\ op' = [op EXCEPT ![w] = IF row.status \in {"enabled", "active"} /\ cache[w] # None
                               THEN [@ EXCEPT !.pc = "preload", !.info = Cached]
                               ELSE [@ EXCEPT !.pc = "rest"]]
    /\ UNCHANGED <<row, schema, view, local, upgrade, clock, bounds, silent, astray>>

PreloadSetsUp(w) ==
    /\ At(w, "preload")
    /\ schema' \in {schema, TRUE}
    /\ \/ schema' /\ instance' = instance \union {w} /\ Goto(w, "mount")
       \/ Goto(w, "rest") /\ UNCHANGED instance
    /\ NoSave
    /\ UNCHANGED <<cache, still, handlers, upgrade>>

\* An enabled plugin whose routes and handlers are mounted becomes active.
PreloadMounts(w) ==
    /\ At(w, "mount")
    /\ \/ /\ handlers' = handlers \union {w}
          /\ IF Info(w).status = "enabled" THEN SaveAs(w, "active") ELSE NoSave /\ UNCHANGED cache
       \/ NoSave /\ UNCHANGED <<cache, handlers>>
    /\ Goto(w, "rest")
    /\ UNCHANGED <<schema, still, instance, upgrade>>

\* mount_all_routes: what the cache has is set up whatever its status is, if
\* it was not before, and whether or not its row is still there.
MountAll(w) ==
    /\ At(w, "rest")
    /\ \/ /\ cache[w] # None /\ w \notin instance
          /\ schema' \in {schema, TRUE}
          /\ \/ schema' /\ instance' = instance \union {w}
             \/ UNCHANGED instance
       \/ (cache[w] = None \/ w \in instance) /\ UNCHANGED <<schema, instance>>
    /\ NoSave
    /\ End(w)
    /\ UNCHANGED <<cache, still, handlers, upgrade>>
-----------------------------------------------------------------------------
Step(w) ==
    \/ InstallLoads(w) \/ InstallSaves(w)
    \/ EnableLists(w) \/ EnableGate(w) \/ EnableSetsUp(w) \/ EnableSaves(w)
    \/ EnableListsAgain(w) \/ EnableActivates(w)
    \/ ActivateHeals(w) \/ ActivateRuns(w)
    \/ DisableSaves(w)
    \/ UninstallDisables(w) \/ UninstallLists(w) \/ UninstallCleansUp(w)
    \/ UninstallDeletes(w) \/ UninstallRollsBack(w)
    \/ ConfigSaves(w) \/ UpgradeEnds(w)
    \/ RefreshesMeta(w) \/ PreloadLists(w) \/ PreloadSelects(w)
    \/ PreloadSetsUp(w) \/ PreloadMounts(w) \/ MountAll(w)

Next ==
    \E w \in Workers :
        \/ Compare(w) \/ Reload(w) \/ Refused(w) \/ Restart(w)
        \/ Install(w) \/ Enable(w) \/ Activate(w) \/ Disable(w)
        \/ Uninstall(w) \/ SetConfig(w) \/ Upgrade(w)
        \/ Step(w)

Spec == Init /\ [][Next]_vars
-----------------------------------------------------------------------------
\* A worker whose fingerprint is that of the registry has the status of the
\* row in its cache, whichever workers wrote, reloaded or died in between,
\* unless the row was saved under an updated_at it had before.
CacheFollowsRegistry ==
    \A w \in Workers :
        row # None /\ known[w] = Fingerprint /\ row.stamp # silent =>
            cache[w].status = row.status

\* A plugin whose row is gone has left no tables, whatever failed or died on
\* the way and however old the cache was that the uninstall began with, if
\* the operations and the starts of the workers did not overlap.  (A worker
\* that starts while another uninstalls sets the plugin up, or saves its row,
\* from the cache it loaded before.)
LeavesNothing == row = None /\ ~astray => ~schema
=============================================================================
