---------------------------- MODULE AdapterAdmin ----------------------------
(***************************************************************************)
(* The administration of one service: handle_adapter_load,                 *)
(* handle_adapter_rollback and handle_protocol_migration of                *)
(* src/admin/migration_api.py, over the registry entry of the service      *)
(* (src/core/registry.py), its file, and the adapter manager, while        *)
(* requests enter and leave the adapters.                                  *)
(*                                                                         *)
(* A handler runs without interruption between two suspensions, which are  *)
(* the lock of the migrations, the canary or validation call to a backend, *)
(* and the wait for a drain: each stretch between them is one action.  The *)
(* registry writes its file inside such a stretch, by a temporary file and *)
(* a rename, so a write happens wholly or, if it fails, not at all.  The    *)
(* file is taken to be readable at a restart: what a read that fails does   *)
(* is in RegistryStore.                                                     *)
(***************************************************************************)
EXTENDS AdapterManager, FiniteSets

CONSTANTS
    Versions, DefaultVersion,
    Loads, Migrations,   \* calls of the two suspending handlers
    Users,               \* requests of clients
    DiskMayFail,         \* whether writes of the registry file may fail
    Unloadable           \* plugins that may be gone at a restart

ASSUME VersionAssumption == DefaultVersion \in Versions
ASSUME NobodyAssumption == None \notin Versions \cup Migrations
ASSUME UsersAssumption == IsFiniteSet(Users)
ASSUME FaultAssumption == DiskMayFail \in BOOLEAN /\ Unloadable \subseteq Plugins

\* What of a ServiceEntry these handlers change: its version, and the
\* descriptors under meta.adapter_plugins.
Meta == [Versions -> Maybe(Plugins)]
Entry == [version : Versions, meta : Meta]

ASSUME NoFileAssumption == None \notin Entry

DefaultEntry ==
    [version |-> DefaultVersion, meta |-> [v \in Versions |-> None]]

Load == [pc : {"idle", "canary"}, version : Maybe(Versions), plugin : Maybe(Plugins),
         meta : Meta, had_previous : BOOLEAN]
IdleLoad == [pc |-> "idle", version |-> None, plugin |-> None,
             meta |-> DefaultEntry.meta, had_previous |-> FALSE]

Migration == [pc : {"idle", "validating", "draining"}, target : Maybe(Versions),
              version : Maybe(Versions), meta : Meta, candidate : Maybe(Adapter),
              spec : Maybe(Plugins), is_new : BOOLEAN, woken : BOOLEAN]
IdleMigration == [pc |-> "idle", target |-> None, version |-> None,
                  meta |-> DefaultEntry.meta, candidate |-> None, spec |-> None,
                  is_new |-> FALSE, woken |-> FALSE]

User == [pc : {"idle", "listed", "inside"}, version : Maybe(Versions)]
IdleUser == [pc |-> "idle", version |-> None]

VARIABLES
    entry,      \* the registry's entry of the service
    disk,       \* the entry in the registry file, or None without a file
    slots,      \* the adapter manager, by version
    lock,       \* who holds the migration lock
    load,       \* the local variables of each load
    migration,  \* and of each migration
    user,       \* where each client request is
    waits,      \* history: users inside the old version when a drain began
    disturbed   \* history: a handler began, or rolled back, amid another one, or
                \* could neither write nor take back what it changed in memory

vars == <<entry, disk, slots, lock, load, migration, user, waits, disturbed>>

TypeOK ==
    /\ entry \in Entry
    /\ disk \in Maybe(Entry)
    /\ slots \in [Versions -> Slot]
    /\ lock \in Maybe(Migrations)
    /\ load \in [Loads -> Load]
    /\ migration \in [Migrations -> Migration]
    /\ user \in [Users -> User]
    /\ waits \in [Migrations -> SUBSET Users]
    /\ disturbed \in BOOLEAN

-----------------------------------------------------------------------------
(* Start and restart of the gateway (main.py:45-66).                        *)

\* load_state: the file's entry, or the defaults without a file.
Loaded(file) == IF file = None THEN DefaultEntry ELSE file

\* What it leaves on disk: the defaults are written, if they can be.
AfterLoad(file) == {Loaded(file)} \cup (IF DiskMayFail THEN {file} ELSE {})

\* configure_from_registry, on a new manager: a built-in adapter for the
\* active version, then the persisted plugins, except those it cannot import.
BuiltInSlot(e, v) ==
    IF v \in {DefaultVersion, e.version} THEN DefaultSlot ELSE EmptySlot

Configure(e, lost) ==
    [v \in Versions |->
        IF e.meta[v] \in Plugins \ lost
        THEN Register(BuiltInSlot(e, v), e.meta[v], e.meta[v])
        ELSE BuiltInSlot(e, v)]

Init ==
    /\ entry = DefaultEntry
    /\ disk \in AfterLoad(None)
    /\ slots = Configure(DefaultEntry, {})
    /\ lock = None
    /\ load = [l \in Loads |-> IdleLoad]
    /\ migration = [m \in Migrations |-> IdleMigration]
    /\ user = [u \in Users |-> IdleUser]
    /\ waits = [m \in Migrations |-> {}]
    /\ disturbed = FALSE

\* The process stops, saving its state on the way out or not, and starts anew.
Restart(saved, lost) ==
    LET file == IF saved THEN entry ELSE disk
    IN  /\ entry' = Loaded(file)
        /\ disk' \in AfterLoad(file)
        /\ slots' = Configure(Loaded(file), lost)
        /\ lock' = None
        /\ load' = [l \in Loads |-> IdleLoad]
        /\ migration' = [m \in Migrations |-> IdleMigration]
        /\ user' = [u \in Users |-> IdleUser]
        /\ waits' = [m \in Migrations |-> {}]
        /\ disturbed' = (\E v \in Versions : Loaded(file).meta[v] \in lost)

-----------------------------------------------------------------------------
(* The registry: update_version and update_metadata put the old entry back  *)
(* when the file cannot be written.                                         *)

Persisted(e) == entry' = e /\ disk' = e
NotPersisted == DiskMayFail /\ UNCHANGED <<entry, disk>>

\* A handler is between its first reading of the entry and its write.
Busy ==
    \/ \E l \in Loads : load[l].pc = "canary"
    \/ \E m \in Migrations : migration[m].pc = "validating"
NoteOverlap == disturbed' = (disturbed \/ Busy)

-----------------------------------------------------------------------------
(* handle_adapter_load.                                                     *)

\* Up to the canary: the entry is copied and the old adapter looked up before
\* the plugin's process is started and its backend called.
LoadBegins(l, v, p) ==
    /\ load[l].pc = "idle"
    /\ load' = [load EXCEPT ![l] =
                    [pc |-> "canary", version |-> v, plugin |-> p,
                     meta |-> entry.meta, had_previous |-> slots[v].adapter # None]]
    /\ NoteOverlap
    /\ UNCHANGED <<entry, disk, slots, lock, migration, user, waits>>

LoadEnds(l) ==
    /\ load[l].pc = "canary"
    /\ load' = [load EXCEPT ![l] = IdleLoad]
    /\ UNCHANGED <<lock, migration, user, waits>>

\* The plugin does not start, is incompatible, or fails its canary.
LoadRejected(l) ==
    /\ LoadEnds(l)
    /\ UNCHANGED <<entry, disk, slots, disturbed>>

\* register_adapter, then update_metadata with the descriptor added to the
\* descriptors read before the canary.
LoadCommits(l) ==
    LET v == load[l].version
        p == load[l].plugin
    IN  /\ LoadEnds(l)
        /\ slots' = [slots EXCEPT ![v] = Register(@, p, p)]
        /\ Persisted([entry EXCEPT !.meta = [load[l].meta EXCEPT ![v] = p]])
        /\ UNCHANGED disturbed

\* The descriptor cannot be saved: the registration is taken back, if the
\* manager allows it.
LoadNotPersisted(l) ==
    LET v == load[l].version
        p == load[l].plugin
    IN  /\ LoadEnds(l)
        /\ slots' = [slots EXCEPT ![v] =
                        IF load[l].had_previous THEN RollBack(Register(@, p, p))
                        ELSE Remove(Register(@, p, p))]
        /\ NotPersisted
        /\ disturbed' = (disturbed \/ slots[v].in_flight > 0)

-----------------------------------------------------------------------------
(* handle_adapter_rollback, which does not suspend.  Its result does not    *)
(* depend on the write.                                                     *)

\* Mutant: the descriptor of the plugin that was rolled back is kept.
DescriptorsKept(v) == entry.meta

DescriptorsAfterRollBack(v) == [entry.meta EXCEPT ![v] = RollBack(slots[v]).spec]

RollsBack(v) ==
    /\ CanRollBack(slots[v])
    /\ slots' = [slots EXCEPT ![v] = RollBack(@)]
    /\ \/ Persisted([entry EXCEPT !.meta = DescriptorsAfterRollBack(v)]) /\ NoteOverlap
       \/ NotPersisted /\ disturbed' = TRUE
    /\ UNCHANGED <<lock, load, migration, user, waits>>

-----------------------------------------------------------------------------
(* handle_protocol_migration.                                               *)

\* Mutant: the handler takes no lock.
TakeNoLock(m) == UNCHANGED lock

TakeLock(m) == lock = None /\ lock' = m

\* Under the lock, up to the validation: the adapter of the target version
\* or else of the active one is to be asked whether it can talk the target.
\* A migration to the active version, and one without a candidate, end here.
MigrationBegins(m, t) ==
    LET v      == entry.version
        is_new == slots[t].adapter = None
        source == IF is_new THEN slots[v] ELSE slots[t]
    IN  /\ migration[m].pc = "idle"
        /\ TakeLock(m)
        /\ t # v
        /\ source.adapter # None
        /\ migration' = [migration EXCEPT ![m] =
                [pc |-> "validating", target |-> t, version |-> v,
                 meta |-> entry.meta, candidate |-> source.adapter,
                 spec |-> source.spec, is_new |-> is_new, woken |-> FALSE]]
        /\ NoteOverlap
        /\ UNCHANGED <<entry, disk, slots, load, user, waits>>

MigrationEnds(m) ==
    /\ migration' = [migration EXCEPT ![m] = IdleMigration]
    /\ waits' = [waits EXCEPT ![m] = {}]
    /\ lock' = None

MigrationRejected(m) ==
    /\ migration[m].pc = "validating"
    /\ MigrationEnds(m)
    /\ UNCHANGED <<entry, disk, slots, load, user, disturbed>>

\* The slot of the target version once the candidate is published there.
Published(m) ==
    LET x == migration[m]
    IN  IF x.is_new THEN Register(slots[x.target], x.candidate, x.spec)
        ELSE slots[x.target]

MetaWithTarget(m) ==
    LET x == migration[m]
    IN  IF x.spec # None THEN [x.meta EXCEPT ![x.target] = x.spec] ELSE x.meta

Inside(v) == {u \in Users : user[u].pc = "inside" /\ user[u].version = v}

\* Publish, and switch the version; then wait_for_drain, if it is asked for
\* and somebody is inside the old version.
MigrationCommits(m, drain) ==
    LET x   == migration[m]
        old == slots[x.version]
    IN  /\ x.pc = "validating"
        /\ slots' = [slots EXCEPT ![x.target] = Published(m)]
        /\ Persisted([version |-> x.target, meta |-> MetaWithTarget(m)])
        /\ IF drain /\ old.in_flight > 0
           THEN /\ migration' = [migration EXCEPT ![m] =
                        [IdleMigration EXCEPT !.pc = "draining", !.version = x.version,
                                              !.woken = old.drained]]
                /\ waits' = [waits EXCEPT ![m] = Inside(x.version)]
                /\ UNCHANGED lock
           ELSE MigrationEnds(m)
        /\ UNCHANGED <<load, user, disturbed>>

\* Mutant: the target's adapter is removed whoever registered it.
MigrationNotPersistedRemoves(m) ==
    LET x == migration[m]
    IN  /\ x.pc = "validating"
        /\ slots' = [slots EXCEPT ![x.target] = Remove(Published(m))]
        /\ NotPersisted
        /\ MigrationEnds(m)
        /\ UNCHANGED <<load, user, disturbed>>

MigrationNotPersisted(m) ==
    LET x == migration[m]
    IN  /\ x.pc = "validating"
        /\ slots' = [slots EXCEPT ![x.target] =
                        IF x.is_new THEN Remove(Published(m)) ELSE @]
        /\ NotPersisted
        /\ MigrationEnds(m)
        /\ UNCHANGED <<load, user, disturbed>>

\* The event woke the waiter: the reply says that the old version is drained.
Drained(m) ==
    /\ migration[m].pc = "draining"
    /\ migration[m].woken
    /\ MigrationEnds(m)
    /\ UNCHANGED <<entry, disk, slots, load, user, disturbed>>

\* Mutant: the drain has no timeout.
DrainNeverTimesOut(m) == FALSE /\ UNCHANGED vars

\* Or the timeout came first: it says that requests are still draining.
DrainTimesOut(m) ==
    /\ migration[m].pc = "draining"
    /\ MigrationEnds(m)
    /\ UNCHANGED <<entry, disk, slots, load, user, disturbed>>

-----------------------------------------------------------------------------
(* The requests of clients, as far as the adapters see them.                *)

\* The router lists the service's entry, and its version with it; it reaches
\* the entry later, perhaps after other candidates (router.py:105-146).
Lists(u) ==
    /\ user[u].pc = "idle"
    /\ user' = [user EXCEPT ![u] = [pc |-> "listed", version |-> entry.version]]
    /\ UNCHANGED <<entry, disk, slots, lock, load, migration, waits, disturbed>>

\* acquire_adapter, for the listed version or for the preferred one.
Enters(u, v) ==
    /\ \/ user[u].pc = "listed" /\ v = user[u].version
       \/ user[u].pc = "idle"
    /\ slots[v].adapter # None
    /\ slots' = [slots EXCEPT ![v] = Acquire(@)]
    /\ user' = [user EXCEPT ![u] = [pc |-> "inside", version |-> v]]
    /\ UNCHANGED <<entry, disk, lock, load, migration, waits, disturbed>>

\* The request is answered without reaching the entry, or finds no adapter.
GivesUp(u) ==
    /\ user[u].pc = "listed"
    /\ user' = [user EXCEPT ![u] = IdleUser]
    /\ UNCHANGED <<entry, disk, slots, lock, load, migration, waits, disturbed>>

\* Setting the event resolves the future of everyone who waits on it.
Wakes(v) ==
    [m \in Migrations |->
        IF migration[m].pc = "draining" /\ migration[m].version = v
        THEN [migration[m] EXCEPT !.woken = TRUE] ELSE migration[m]]

Exits(u) ==
    LET v == user[u].version
        k == Release(slots[v])
    IN  /\ user[u].pc = "inside"
        /\ slots' = [slots EXCEPT ![v] = k]
        /\ migration' = IF k.drained THEN Wakes(v) ELSE migration
        /\ user' = [user EXCEPT ![u] = IdleUser]
        /\ waits' = [m \in Migrations |-> waits[m] \ {u}]
        /\ UNCHANGED <<entry, disk, lock, load, disturbed>>

-----------------------------------------------------------------------------
LoadSteps(l) ==
    \/ \E v \in Versions, p \in Plugins : LoadBegins(l, v, p)
    \/ LoadRejected(l)
    \/ LoadCommits(l)
    \/ LoadNotPersisted(l)

MigrationSteps(m) ==
    \/ \E t \in Versions : MigrationBegins(m, t)
    \/ MigrationRejected(m)
    \/ \E drain \in BOOLEAN : MigrationCommits(m, drain)
    \/ MigrationNotPersisted(m)
    \/ Drained(m)
    \/ DrainTimesOut(m)

UserSteps(u) ==
    \/ Lists(u)
    \/ \E v \in Versions : Enters(u, v)
    \/ GivesUp(u)
    \/ Exits(u)

Next ==
    \/ \E l \in Loads : LoadSteps(l)
    \/ \E m \in Migrations : MigrationSteps(m)
    \/ \E u \in Users : UserSteps(u)
    \/ \E v \in Versions : RollsBack(v)
    \/ \E saved \in BOOLEAN, lost \in SUBSET Unloadable : Restart(saved, lost)

Spec == Init /\ [][Next]_vars

\* A validation and a drain have a timeout each; requests may stay inside an
\* adapter for as long as they like.
FairSpec ==
    /\ Spec
    /\ \A m \in Migrations :
          WF_vars(MigrationRejected(m)) /\ WF_vars(DrainTimesOut(m))

-----------------------------------------------------------------------------
\* What a restart would load is what the registry holds: every change that
\* took effect is on disk, and every change that could not be written was
\* taken back (registry.py:187-207, 221-246).
DurableRegistry == Loaded(disk) = entry

\* The descriptor kept with an adapter, and with the adapter a rollback would
\* restore, is the one it was made from, through every order of loads,
\* migrations, removals and rollbacks (plugin_loader.py:184-231).
DescriptorsMatch == \A v \in Versions : SlotMatches(slots[v])

\* The in-flight count of a version is the number of requests inside it
\* (plugin_loader.py:147-170).
InFlightCounts == \A v \in Versions : slots[v].in_flight = Cardinality(Inside(v))

\* A migration that is told the old version is drained was told so after every
\* request that was inside when its wait began has left, although others may
\* have entered since (migration_api.py:182-194, plugin_loader.py:172-182).
DrainIsReal ==
    \A m \in Migrations :
        migration[m].pc = "draining" /\ migration[m].woken => waits[m] = {}

\* The version that a migration replaces is the one it read before its
\* validation: no other migration commits in between (migration_api.py:67-79,
\* 166-170).
MigrationReplacesWhatItRead ==
    \A m \in Migrations :
        migration[m].pc = "validating" => migration[m].version = entry.version

\* While handlers run one at a time, and what they changed was written or taken
\* back, the active version and every version that a request was listed with
\* before a migration have an adapter, through loads, rollbacks, migrations
\* there and back, failing writes and restarts
\* (migration_api.py:171-180, 251-255; plugin_loader.py:147).
RoutedVersions ==
    {entry.version} \cup {user[u].version : u \in {w \in Users : user[w].pc = "listed"}}
SerialRoutesServed ==
    ~disturbed => \A v \in RoutedVersions : slots[v].adapter # None

\* "Adapter rejected safely; existing adapter retained"
\* (migration_api.py:267): the version of a load that is answered so keeps the
\* adapter it has.
RejectedLoadRetains ==
    [][\A l \in Loads : LoadRejected(l) \/ LoadNotPersisted(l) =>
          LET v == load[l].version
          IN  slots[v].adapter # None => slots'[v].adapter = slots[v].adapter]_vars

\* "Plugin descriptors are persisted in registry metadata"
\* (plugin_loader.py:94): for every plugin in service.
DescriptorsPersisted ==
    \A v \in Versions : slots[v].spec # None => entry.meta[v] = slots[v].spec

\* After handlers that ran one at a time, and whose changes were written or
\* taken back, a restart brings back the adapter of the active version and
\* every plugin in service, however many writes failed and plugins got lost
\* before (plugin_loader.py:67-127).
RestartKeeps(v) == Configure(Loaded(disk), {})[v].adapter = slots[v].adapter
SerialRestartIsFaithful ==
    ~disturbed => \A v \in Versions :
        v = entry.version \/ slots[v].spec # None => RestartKeeps(v)

\* The migration under way, as VersionSwitch knows it.
Current == IF lock = None THEN IdleMigration ELSE migration[lock]
Stage ==
    CASE Current.pc = "idle"       -> "none"
      [] Current.pc = "validating" -> "accepted"
      [] Current.pc = "draining" /\ Current.woken  -> "drained"
      [] Current.pc = "draining" /\ ~Current.woken -> "switched"

Switching == INSTANCE VersionSwitch WITH
    active <- entry.version,
    holder <- lock,
    stage  <- Stage,
    from   <- Current.version,
    to     <- Current.target,
    inside <- [u \in Users |-> IF user[u].pc = "inside" THEN user[u].version ELSE None],
    waits  <- IF lock = None THEN {} ELSE waits[lock]

\* Migrations switch versions one after the other, from what they read to what
\* they were asked for, and say "drained" when it is so, amid everything else
\* that goes on (migration_api.py:58-205, plugin_loader.py:154-182).
ImplementsVersionSwitch == Switching!Spec

-----------------------------------------------------------------------------
(* The inductive invariant of the administration.                           *)

\* The locals of a handler are those of a call in progress, and whoever
\* migrates holds the lock.
LocalsInUse ==
    /\ \A l \in Loads : load[l].pc = "canary" =>
           load[l].version \in Versions /\ load[l].plugin \in Plugins
    /\ \A m \in Migrations : migration[m].pc # "idle" =>
           lock = m /\ migration[m].version \in Versions
    /\ \A m \in Migrations : migration[m].pc = "validating" =>
           /\ migration[m].target \in Versions
           /\ migration[m].candidate \in Adapter
           /\ Describes(migration[m].spec, migration[m].candidate)
    /\ \A u \in Users : user[u].pc # "idle" => user[u].version \in Versions

AdminInv ==
    /\ TypeOK
    /\ LocalsInUse
    /\ DurableRegistry
    /\ DescriptorsMatch
    /\ MigrationReplacesWhatItRead

\* What a drain rests on: a set event means that nobody is inside, and those a
\* migration waits for are inside.
DrainInv ==
    /\ InFlightCounts
    /\ \A v \in Versions : slots[v].drained => slots[v].in_flight = 0
    /\ \A m \in Migrations : migration[m].pc = "draining" =>
           waits[m] \subseteq Inside(migration[m].version)
    /\ DrainIsReal

\* A migration gives its lock back, although it waits under it for a backend
\* and for requests that may never leave the old version: no service is shut
\* to the administration (migration_api.py:66-68, plugin_loader.py:172-182).
LockComesBack == \A m \in Migrations : lock = m ~> lock # m
=============================================================================
