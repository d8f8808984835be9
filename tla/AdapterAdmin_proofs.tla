------------------------- MODULE AdapterAdmin_proofs -------------------------
(***************************************************************************)
(* The administration of a service for every set of versions, plugins,     *)
(* callers and requests, whether or not its file can be written: AdminInv  *)
(* is inductive, DrainInv and SerialInv (handlers one at a time) are       *)
(* inductive relative to it, and SerialServed relative to both.            *)
(***************************************************************************)
EXTENDS AdapterAdmin, FiniteSetTheorems, TLAPS

-----------------------------------------------------------------------------
(* The methods of the adapter manager.                                      *)

LEMMA SlotsAtStart ==
    /\ EmptySlot \in Slot /\ SlotMatches(EmptySlot)
    /\ DefaultSlot \in Slot /\ SlotMatches(DefaultSlot)
<1>1. /\ 0 \in Nat /\ FALSE \in BOOLEAN /\ None \in Maybe(Adapter)
      /\ None \in Maybe(Plugins) /\ BuiltIn \in Maybe(Adapter)
      /\ BuiltIn \notin Plugins /\ None \notin Plugins /\ BuiltIn # None
  BY AdapterAssumption DEF AdapterAssumption, Maybe, Adapter
<1>2. EmptySlot \in Slot /\ DefaultSlot \in Slot
  BY <1>1 DEF EmptySlot, DefaultSlot, Slot
<1>3. SlotMatches(EmptySlot) /\ SlotMatches(DefaultSlot)
  BY <1>1 DEF EmptySlot, DefaultSlot, SlotMatches, Describes
<1>4. QED
  BY <1>2, <1>3

\* A registration keeps descriptor and adapter together, and so does what it
\* saves for a rollback (plugin_loader.py:203-209).
LEMMA RegisterSlot ==
    ASSUME NEW k \in Slot, SlotMatches(k), NEW a \in Adapter,
           NEW sp \in Maybe(Plugins), Describes(sp, a)
    PROVE  Register(k, a, sp) \in Slot /\ SlotMatches(Register(k, a, sp))
<1>1. Register(k, a, sp) \in Slot
  BY DEF Register, Slot, Maybe
<1>2. SlotMatches(Register(k, a, sp))
  <2>1. a # None
    BY AdapterAssumption DEF AdapterAssumption, Adapter
  <2>2. CASE k.adapter # None
    BY <2>1, <2>2 DEF Register, Slot, SlotMatches
  <2>3. CASE k.adapter = None
    BY <2>1, <2>3 DEF Register, Slot, SlotMatches
  <2>4. QED
    BY <2>2, <2>3
<1>3. QED
  BY <1>1, <1>2

LEMMA RemoveSlot ==
    ASSUME NEW k \in Slot, SlotMatches(k)
    PROVE  Remove(k) \in Slot /\ SlotMatches(Remove(k))
<1>1. None \in Maybe(Adapter) /\ None \in Maybe(Plugins) /\ None \notin Plugins
  BY AdapterAssumption DEF AdapterAssumption, Maybe
<1>2. QED
  BY <1>1 DEF Remove, Slot, SlotMatches, Describes

\* A rollback brings back an adapter with its own descriptor
\* (plugin_loader.py:221-231).
LEMMA RollBackSlot ==
    ASSUME NEW k \in Slot, SlotMatches(k)
    PROVE  RollBack(k) \in Slot /\ SlotMatches(RollBack(k))
<1>1. None \in Maybe(Adapter) /\ None \in Maybe(Plugins) /\ None \notin Plugins
  BY AdapterAssumption DEF AdapterAssumption, Maybe
<1>2. QED
  BY <1>1 DEF RollBack, CanRollBack, Slot, SlotMatches, Describes

LEMMA UseSlot ==
    ASSUME NEW k \in Slot, SlotMatches(k)
    PROVE  /\ Acquire(k) \in Slot /\ SlotMatches(Acquire(k))
           /\ Release(k) \in Slot /\ SlotMatches(Release(k))
<1>1. /\ TRUE \in BOOLEAN /\ FALSE \in BOOLEAN /\ 0 \in Nat
      /\ k.in_flight \in Nat /\ k.in_flight + 1 \in Nat
  BY DEF Slot
<1>2. ASSUME ~(k.in_flight <= 1)
      PROVE  k.in_flight - 1 \in Nat
  BY <1>1, <1>2
<1>3. Acquire(k) \in Slot
  BY <1>1 DEF Acquire, Slot
<1>4. Release(k) \in Slot
  BY <1>1, <1>2 DEF Release, Slot
<1>5. ASSUME NEW n, NEW d
      PROVE  SlotMatches([k EXCEPT !.in_flight = n, !.drained = d])
  BY DEF Slot, SlotMatches
<1>6. ASSUME NEW n
      PROVE  SlotMatches([k EXCEPT !.in_flight = n])
  BY DEF Slot, SlotMatches
<1>7. QED
  BY <1>3, <1>4, <1>5, <1>6 DEF Acquire, Release

\* A restart brings up slots whose descriptors match (plugin_loader.py:67-127).
LEMMA ConfigureSlots ==
    ASSUME NEW e \in Entry, NEW lost
    PROVE  /\ Configure(e, lost) \in [Versions -> Slot]
           /\ \A v \in Versions : SlotMatches(Configure(e, lost)[v])
<1>1. ASSUME NEW v \in Versions
      PROVE  BuiltInSlot(e, v) \in Slot /\ SlotMatches(BuiltInSlot(e, v))
  BY SlotsAtStart DEF BuiltInSlot
<1>2. ASSUME NEW v \in Versions, e.meta[v] \in Plugins
      PROVE  LET k == Register(BuiltInSlot(e, v), e.meta[v], e.meta[v])
             IN  k \in Slot /\ SlotMatches(k)
  <2>1. /\ e.meta[v] \in Adapter
        /\ e.meta[v] \in Maybe(Plugins)
        /\ Describes(e.meta[v], e.meta[v])
    BY <1>2 DEF Adapter, Maybe, Describes
  <2>2. QED
    BY <1>1, <2>1, RegisterSlot
<1>3. QED
  BY <1>1, <1>2 DEF Configure

-----------------------------------------------------------------------------
(* The initial states, and restarts.                                        *)

\* An entry is never mistaken for the absence of a file.
LEMMA EntryValues ==
    /\ DefaultEntry \in Entry
    /\ DefaultEntry.meta \in Meta
    /\ \A e \in Entry : e # None /\ Loaded(e) = e
    /\ \A d \in Maybe(Entry) : Loaded(d) \in Entry
    /\ \A d \in Maybe(Entry) : \A x \in AfterLoad(d) :
           x \in Maybe(Entry) /\ Loaded(x) = Loaded(d)
<1>1. DefaultEntry \in Entry /\ DefaultEntry.meta \in Meta
  BY VersionAssumption
     DEF VersionAssumption, DefaultEntry, Entry, Meta, Maybe
<1>2. \A e \in Entry : e # None /\ Loaded(e) = e
  BY NoFileAssumption DEF NoFileAssumption, Loaded
<1>3. \A d \in Maybe(Entry) : Loaded(d) \in Entry
  BY <1>1, <1>2 DEF Loaded, Maybe
<1>4. ASSUME NEW d \in Maybe(Entry), NEW x \in AfterLoad(d)
      PROVE  x \in Maybe(Entry) /\ Loaded(x) = Loaded(d)
  BY <1>2, <1>3, <1>4 DEF AfterLoad, Maybe
<1>5. QED
  BY <1>1, <1>2, <1>3, <1>4

LEMMA IdleValues ==
    IdleLoad \in Load /\ IdleMigration \in Migration /\ IdleUser \in User
<1>1. /\ "idle" \in {"idle", "canary"} /\ "idle" \in {"idle", "validating", "draining"}
      /\ "idle" \in {"idle", "listed", "inside"} /\ FALSE \in BOOLEAN
      /\ None \in Maybe(Versions) /\ None \in Maybe(Plugins) /\ None \in Maybe(Adapter)
  BY DEF Maybe
<1>2. QED
  BY <1>1, EntryValues DEF IdleLoad, Load, IdleMigration, Migration, IdleUser, User

\* The gateway has just started, from the file that holds e or from none.
Started(e) ==
    /\ e \in Entry
    /\ entry = e
    /\ disk \in Maybe(Entry)
    /\ Loaded(disk) = e
    /\ \E lost : slots = Configure(e, lost)
    /\ lock = None
    /\ load = [l \in Loads |-> IdleLoad]
    /\ migration = [m \in Migrations |-> IdleMigration]
    /\ user = [u \in Users |-> IdleUser]
    /\ waits = [m \in Migrations |-> {}]
    /\ disturbed \in BOOLEAN

LEMMA StartedInv ==
    ASSUME NEW e, Started(e)
    PROVE  AdminInv
<1> USE DEF Started
<1>1. slots \in [Versions -> Slot] /\ DescriptorsMatch
  BY ConfigureSlots DEF DescriptorsMatch
<1>2. TypeOK
  BY <1>1, IdleValues DEF TypeOK, Maybe
<1>3. LocalsInUse
  BY DEF LocalsInUse, IdleLoad, IdleMigration, IdleUser
<1>4. DurableRegistry
  BY DEF DurableRegistry
<1>5. MigrationReplacesWhatItRead
  BY DEF MigrationReplacesWhatItRead, IdleMigration
<1>6. QED
  BY <1>1, <1>2, <1>3, <1>4, <1>5 DEF AdminInv

LEMMA InitAdmin == Init => AdminInv
<1> SUFFICES ASSUME Init PROVE AdminInv
  OBVIOUS
<1>1. Started(DefaultEntry)
  <2>1. None \in Maybe(Entry) /\ Loaded(None) = DefaultEntry
    BY DEF Maybe, Loaded
  <2>2. disk \in Maybe(Entry) /\ Loaded(disk) = DefaultEntry
    BY <2>1, EntryValues DEF Init
  <2>3. QED
    BY <2>2, EntryValues DEF Init, Started
<1>2. QED
  BY <1>1, StartedInv
LEMMA StartedAlways == \A e : Started(e) => AdminInv
  BY StartedInv

\* A restart comes back to the registry it left (registry.py:122-139).
LEMMA RestartAdmin ==
    ASSUME AdminInv, NEW saved \in BOOLEAN, NEW lost, Restart(saved, lost)
    PROVE  AdminInv'
<1> DEFINE file == IF saved THEN entry ELSE disk
<1>1. file \in Maybe(Entry)
  BY DEF AdminInv, TypeOK, Maybe
<1>2. /\ disk' \in Maybe(Entry)
      /\ Loaded(disk') = Loaded(file)
      /\ Loaded(file) \in Entry
  BY <1>1, EntryValues DEF Restart
<1>3. ASSUME NEW e, e = Loaded(file)
      PROVE  Started(e)'
  BY <1>2, <1>3 DEF Restart, Started
<1>4. (\A e : Started(e) => AdminInv)'
  BY StartedAlways, PTL
<1>5. QED
  BY <1>3, <1>4
-----------------------------------------------------------------------------
(* What the steps of the handlers have in common.                           *)

\* What a step does to the registry and to the slots keeps their invariants.
RegistryKept == entry' \in Entry /\ disk' \in Maybe(Entry) /\ DurableRegistry'
SlotsKept == slots' \in [Versions -> Slot] /\ DescriptorsMatch'

LEMMA OneSlot ==
    ASSUME AdminInv, NEW v \in Versions, NEW k \in Slot, SlotMatches(k),
           slots' = [slots EXCEPT ![v] = k]
    PROVE  SlotsKept
  BY DEF AdminInv, TypeOK, DescriptorsMatch, SlotsKept

LEMMA SameSlots ==
    ASSUME AdminInv, UNCHANGED slots
    PROVE  SlotsKept
  BY DEF AdminInv, TypeOK, DescriptorsMatch, SlotsKept

\* A change is written, or it is not made (registry.py:187-207, 221-246).
LEMMA RegistrySteps ==
    ASSUME AdminInv
    PROVE  /\ \A e \in Entry : Persisted(e) => RegistryKept
           /\ UNCHANGED <<entry, disk>> => RegistryKept
<1>1. \A e \in Entry : Persisted(e) => RegistryKept
  BY EntryValues DEF Persisted, RegistryKept, Maybe, DurableRegistry
<1>2. UNCHANGED <<entry, disk>> => RegistryKept
  BY DEF RegistryKept, AdminInv, TypeOK, DurableRegistry
<1>3. QED
  BY <1>1, <1>2

LEMMA MetaUpdate ==
    ASSUME NEW e \in Entry, NEW meta \in Meta, NEW v \in Versions,
           NEW sp \in Maybe(Plugins)
    PROVE  /\ [meta EXCEPT ![v] = sp] \in Meta
           /\ [e EXCEPT !.meta = [meta EXCEPT ![v] = sp]] \in Entry
<1>1. [meta EXCEPT ![v] = sp] \in Meta
  BY DEF Meta
<1>2. QED
  BY <1>1 DEF Entry

-----------------------------------------------------------------------------
(* The loads.                                                               *)

LEMMA LoadBeginsAdmin ==
    ASSUME AdminInv, NEW l \in Loads, NEW v \in Versions, NEW p \in Plugins,
           LoadBegins(l, v, p)
    PROVE  AdminInv'
<1>1. RegistryKept /\ SlotsKept
  BY RegistrySteps, SameSlots DEF LoadBegins
<1>2. load' \in [Loads -> Load]
  <2>1. /\ "canary" \in {"idle", "canary"} /\ v \in Maybe(Versions)
        /\ p \in Maybe(Plugins) /\ entry.meta \in Meta
        /\ (slots[v].adapter # None) \in BOOLEAN
    BY DEF AdminInv, TypeOK, Entry, Maybe
  <2>2. [pc |-> "canary", version |-> v, plugin |-> p, meta |-> entry.meta,
         had_previous |-> slots[v].adapter # None] \in Load
    BY <2>1 DEF Load
  <2>3. QED
    BY <2>2 DEF LoadBegins, AdminInv, TypeOK
<1>3. TypeOK'
  BY <1>1, <1>2
     DEF LoadBegins, AdminInv, TypeOK, RegistryKept, SlotsKept, NoteOverlap, Busy
<1>4. LocalsInUse'
  BY DEF LoadBegins, AdminInv, TypeOK, LocalsInUse
<1>5. MigrationReplacesWhatItRead'
  BY DEF LoadBegins, AdminInv, MigrationReplacesWhatItRead
<1>6. QED
  BY <1>1, <1>3, <1>4, <1>5 DEF AdminInv, RegistryKept, SlotsKept

\* A load ends without changing the active version.
LEMMA LoadEndsAdmin ==
    ASSUME AdminInv, NEW l \in Loads, LoadEnds(l), RegistryKept, SlotsKept,
           entry'.version = entry.version, disturbed' \in BOOLEAN
    PROVE  AdminInv'
<1>1. load' \in [Loads -> Load]
  BY IdleValues DEF LoadEnds, AdminInv, TypeOK
<1>2. TypeOK'
  BY <1>1 DEF LoadEnds, AdminInv, TypeOK, RegistryKept, SlotsKept
<1>3. LocalsInUse'
  BY DEF LoadEnds, AdminInv, TypeOK, LocalsInUse, IdleLoad
<1>4. MigrationReplacesWhatItRead'
  BY DEF LoadEnds, AdminInv, MigrationReplacesWhatItRead
<1>5. QED
  BY <1>2, <1>3, <1>4 DEF AdminInv, RegistryKept, SlotsKept

LEMMA LoadAdmin ==
    ASSUME AdminInv, NEW l \in Loads, LoadSteps(l)
    PROVE  AdminInv'
<1> DEFINE v == load[l].version
           p == load[l].plugin
           k == Register(slots[v], p, p)
<1>1. ASSUME LoadEnds(l)
      PROVE  /\ v \in Versions /\ p \in Maybe(Plugins) /\ load[l].meta \in Meta
             /\ k \in Slot /\ SlotMatches(k)
  <2>1. v \in Versions /\ p \in Plugins /\ load[l].meta \in Meta
    BY <1>1 DEF LoadEnds, AdminInv, LocalsInUse, TypeOK, Load
  <2>2. p \in Adapter /\ p \in Maybe(Plugins) /\ Describes(p, p)
    BY <2>1 DEF Adapter, Maybe, Describes
  <2>3. slots[v] \in Slot /\ SlotMatches(slots[v])
    BY <2>1 DEF AdminInv, TypeOK, DescriptorsMatch
  <2>4. QED
    BY <2>1, <2>2, <2>3, RegisterSlot
<1>2. CASE \E w \in Versions, q \in Plugins : LoadBegins(l, w, q)
  BY <1>2, LoadBeginsAdmin
<1>3. CASE LoadRejected(l)
  <2>1. disturbed' \in BOOLEAN
    BY <1>3 DEF LoadRejected, AdminInv, TypeOK
  <2>2. QED
    BY <1>3, <2>1, RegistrySteps, SameSlots, LoadEndsAdmin DEF LoadRejected
<1>4. CASE LoadCommits(l)
  <2>1. LoadEnds(l) /\ slots' = [slots EXCEPT ![v] = k]
    BY <1>4 DEF LoadCommits
  <2>2. SlotsKept
    BY <1>1, <2>1, OneSlot
  <2> DEFINE e == [entry EXCEPT !.meta = [load[l].meta EXCEPT ![v] = p]]
  <2>3. entry \in Entry /\ e \in Entry /\ e.version = entry.version
    BY <1>1, <2>1, MetaUpdate DEF AdminInv, TypeOK, Entry
  <2>4. Persisted(e)
    BY <1>4 DEF LoadCommits
  <2>5. RegistryKept /\ entry'.version = entry.version
    BY <2>3, <2>4, RegistrySteps DEF Persisted
  <2>6. disturbed' \in BOOLEAN
    BY <1>4 DEF LoadCommits, AdminInv, TypeOK
  <2>7. QED
    BY <2>1, <2>2, <2>5, <2>6, LoadEndsAdmin
<1>5. CASE LoadNotPersisted(l)
  <2>1. /\ LoadEnds(l)
        /\ slots' = [slots EXCEPT ![v] =
                IF load[l].had_previous THEN RollBack(k) ELSE Remove(k)]
    BY <1>5 DEF LoadNotPersisted
  <2>2. SlotsKept
    BY <1>1, <2>1, RollBackSlot, RemoveSlot, OneSlot
  <2>3. UNCHANGED <<entry, disk>>
    BY <1>5 DEF LoadNotPersisted, NotPersisted
  <2>4. disturbed' \in BOOLEAN
    BY <1>5 DEF LoadNotPersisted, AdminInv, TypeOK
  <2>5. QED
    BY <2>1, <2>2, <2>3, <2>4, RegistrySteps, LoadEndsAdmin
<1>6. QED
  BY <1>2, <1>3, <1>4, <1>5 DEF LoadSteps
-----------------------------------------------------------------------------
(* The rollbacks.                                                           *)

LEMMA RollBackAdmin ==
    ASSUME AdminInv, NEW v \in Versions, RollsBack(v)
    PROVE  AdminInv'
<1> DEFINE k == RollBack(slots[v])
<1>1. k \in Slot /\ SlotMatches(k)
  BY RollBackSlot DEF AdminInv, TypeOK, DescriptorsMatch
<1>2. SlotsKept
  BY <1>1, OneSlot DEF RollsBack
<1>3. RegistryKept /\ entry'.version = entry.version
  <2> DEFINE e == [entry EXCEPT !.meta = DescriptorsAfterRollBack(v)]
  <2>1. entry \in Entry /\ entry.meta \in Meta /\ k.spec \in Maybe(Plugins)
    BY <1>1 DEF AdminInv, TypeOK, Entry, Slot
  <2>2. e \in Entry /\ e.version = entry.version
    BY <2>1, MetaUpdate DEF DescriptorsAfterRollBack, Entry
  <2>3. CASE Persisted(e)
    BY <2>2, <2>3, RegistrySteps DEF Persisted
  <2>4. CASE NotPersisted
    BY <2>4, RegistrySteps DEF NotPersisted
  <2>5. QED
    BY <2>3, <2>4 DEF RollsBack
<1>4. TypeOK'
  BY <1>2, <1>3
     DEF RollsBack, AdminInv, TypeOK, RegistryKept, SlotsKept, NoteOverlap, Busy
<1>5. LocalsInUse' /\ MigrationReplacesWhatItRead'
  BY <1>3 DEF RollsBack, AdminInv, LocalsInUse, MigrationReplacesWhatItRead
<1>6. QED
  BY <1>2, <1>3, <1>4, <1>5 DEF AdminInv, RegistryKept, SlotsKept

-----------------------------------------------------------------------------
(* The migrations: at most one is not idle, the one that has the lock       *)
(* (migration_api.py:67-68).                                                *)

LEMMA MigrationBeginsAdmin ==
    ASSUME AdminInv, NEW m \in Migrations, NEW t \in Versions, MigrationBegins(m, t)
    PROVE  AdminInv'
<1> DEFINE v      == entry.version
           is_new == slots[t].adapter = None
           source == IF is_new THEN slots[v] ELSE slots[t]
           x      == [pc |-> "validating", target |-> t, version |-> v,
                      meta |-> entry.meta, candidate |-> source.adapter,
                      spec |-> source.spec, is_new |-> is_new, woken |-> FALSE]
<1>1. RegistryKept /\ SlotsKept
  BY RegistrySteps, SameSlots DEF MigrationBegins
<1>2. /\ v \in Versions /\ entry.meta \in Meta
      /\ source \in Slot /\ SlotMatches(source) /\ source.adapter # None
  BY DEF AdminInv, TypeOK, Entry, DescriptorsMatch, MigrationBegins
<1>3. /\ source.adapter \in Adapter /\ source.spec \in Maybe(Plugins)
      /\ Describes(source.spec, source.adapter)
  BY <1>2 DEF Slot, Maybe, SlotMatches
<1>4. x \in Migration
  <2>1. /\ "validating" \in {"idle", "validating", "draining"} /\ FALSE \in BOOLEAN
        /\ is_new \in BOOLEAN /\ t \in Maybe(Versions) /\ v \in Maybe(Versions)
        /\ source.adapter \in Maybe(Adapter)
    BY <1>2, <1>3 DEF Maybe
  <2>2. QED
    BY <1>2, <1>3, <2>1 DEF Migration
<1>5. lock = None /\ lock' = m /\ migration' = [migration EXCEPT ![m] = x]
  BY DEF MigrationBegins, TakeLock
<1>6. \A n \in Migrations : migration[n].pc = "idle"
  BY <1>5, NobodyAssumption DEF NobodyAssumption, AdminInv, LocalsInUse
<1>7. TypeOK'
  BY <1>1, <1>4, <1>5
     DEF MigrationBegins, AdminInv, TypeOK, RegistryKept, SlotsKept, NoteOverlap,
         Busy, Maybe
<1>8. /\ migration'[m] = x /\ x.pc = "validating"
      /\ \A n \in Migrations \ {m} : migration'[n].pc = "idle"
  BY <1>5, <1>6 DEF AdminInv, TypeOK
<1>9. LocalsInUse'
  <2>1. UNCHANGED <<load, user>>
    BY DEF MigrationBegins
  <2>2. \A n \in Migrations : migration'[n].pc # "idle" => n = m
    BY <1>8
  <2>3. QED
    BY <1>2, <1>3, <1>5, <1>8, <2>1, <2>2 DEF LocalsInUse, AdminInv
<1>10. MigrationReplacesWhatItRead'
  BY <1>8 DEF MigrationReplacesWhatItRead, MigrationBegins
<1>11. QED
  BY <1>1, <1>7, <1>9, <1>10 DEF AdminInv, RegistryKept, SlotsKept

\* Only the migration that is validating, or draining, can move on.
LEMMA OneMigration ==
    ASSUME AdminInv, NEW m \in Migrations, migration[m].pc # "idle"
    PROVE  \A n \in Migrations \ {m} : migration[n].pc = "idle"
  BY DEF AdminInv, LocalsInUse

\* A migration ends, whatever it has done to the registry and the slots.
LEMMA MigrationEndsAdmin ==
    ASSUME AdminInv, NEW m \in Migrations, migration[m].pc # "idle",
           MigrationEnds(m), RegistryKept, SlotsKept,
           UNCHANGED <<load, user, disturbed>>
    PROVE  AdminInv'
<1>1. migration' \in [Migrations -> Migration] /\ waits' \in [Migrations -> SUBSET Users]
  BY IdleValues DEF MigrationEnds, AdminInv, TypeOK
<1>2. TypeOK'
  BY <1>1
     DEF MigrationEnds, AdminInv, TypeOK, RegistryKept, SlotsKept, Maybe
<1>3. \A n \in Migrations : migration'[n].pc = "idle"
  BY OneMigration DEF MigrationEnds, AdminInv, TypeOK, IdleMigration
<1>4. LocalsInUse' /\ MigrationReplacesWhatItRead'
  BY <1>3 DEF AdminInv, LocalsInUse, MigrationReplacesWhatItRead
<1>5. QED
  BY <1>2, <1>4 DEF AdminInv, RegistryKept, SlotsKept

\* The candidate is published with its own descriptor
\* (migration_api.py:141-165).
LEMMA PublishedSlot ==
    ASSUME AdminInv, NEW m \in Migrations, migration[m].pc = "validating"
    PROVE  /\ migration[m].target \in Versions
           /\ migration[m].version \in Versions
           /\ Published(m) \in Slot /\ SlotMatches(Published(m))
           /\ [version |-> migration[m].target, meta |-> MetaWithTarget(m)] \in Entry
<1> DEFINE x == migration[m]
<1>1. /\ x.target \in Versions /\ x.version \in Versions
      /\ x.candidate \in Adapter /\ Describes(x.spec, x.candidate)
  BY DEF AdminInv, LocalsInUse
<1>2. x.spec \in Maybe(Plugins) /\ x.meta \in Meta
  BY DEF AdminInv, TypeOK, Migration
<1>3. slots[x.target] \in Slot /\ SlotMatches(slots[x.target])
  BY <1>1 DEF AdminInv, TypeOK, DescriptorsMatch
<1>4. Published(m) \in Slot /\ SlotMatches(Published(m))
  BY <1>1, <1>2, <1>3, RegisterSlot DEF Published
<1>5. MetaWithTarget(m) \in Meta
  BY <1>1, <1>2 DEF MetaWithTarget, Meta
<1>6. QED
  BY <1>1, <1>4, <1>5 DEF Entry

LEMMA MigrationCommitsAdmin ==
    ASSUME AdminInv, NEW m \in Migrations, NEW drain \in BOOLEAN,
           MigrationCommits(m, drain)
    PROVE  AdminInv'
<1> DEFINE x   == migration[m]
           old == slots[x.version]
           y   == [IdleMigration EXCEPT !.pc = "draining", !.version = x.version,
                                        !.woken = old.drained]
<1>1. x.pc = "validating" /\ x.pc # "idle"
  BY DEF MigrationCommits
<1>2. SlotsKept
  BY <1>1, PublishedSlot, OneSlot DEF MigrationCommits
<1>3. RegistryKept
  BY <1>1, PublishedSlot, RegistrySteps DEF MigrationCommits
<1>4. CASE MigrationEnds(m)
  BY <1>1, <1>2, <1>3, <1>4, MigrationEndsAdmin DEF MigrationCommits
<1>5. ASSUME /\ migration' = [migration EXCEPT ![m] = y]
             /\ waits' = [waits EXCEPT ![m] = Inside(x.version)]
             /\ UNCHANGED lock
      PROVE  AdminInv'
  <2>1. x.version \in Versions /\ old.drained \in BOOLEAN
    BY <1>1, PublishedSlot DEF AdminInv, TypeOK, Slot
  <2>2. y \in Migration /\ y.pc = "draining" /\ y.version = x.version
    <3>1. "draining" \in {"idle", "validating", "draining"} /\ x.version \in Maybe(Versions)
      BY <2>1 DEF Maybe
    <3>2. QED
      BY <2>1, <3>1, IdleValues DEF Migration, IdleMigration
  <2>3. TypeOK'
    BY <1>2, <1>3, <1>5, <2>2
       DEF MigrationCommits, AdminInv, TypeOK, RegistryKept, SlotsKept, Inside
  <2>4. /\ migration'[m] = y
        /\ \A n \in Migrations \ {m} : migration'[n].pc = "idle"
    BY <1>1, <1>5, OneMigration DEF AdminInv, TypeOK
  <2>5. \A n \in Migrations : migration'[n].pc # "validating"
    BY <2>2, <2>4
  <2>6. LocalsInUse'
    <3>1. UNCHANGED <<load, user, lock>> /\ lock = m
      BY <1>1, <1>5 DEF MigrationCommits, AdminInv, LocalsInUse
    <3>2. \A n \in Migrations : migration'[n].pc # "idle" => n = m
      BY <2>4
    <3>3. QED
      BY <2>1, <2>2, <2>4, <2>5, <3>1, <3>2 DEF LocalsInUse, AdminInv
  <2>7. MigrationReplacesWhatItRead'
    BY <2>5 DEF MigrationReplacesWhatItRead
  <2>8. QED
    BY <1>2, <1>3, <2>3, <2>6, <2>7 DEF AdminInv, RegistryKept, SlotsKept
<1>6. QED
  BY <1>4, <1>5 DEF MigrationCommits

LEMMA MigrationAdmin ==
    ASSUME AdminInv, NEW m \in Migrations, MigrationSteps(m)
    PROVE  AdminInv'
<1>1. CASE \E t \in Versions : MigrationBegins(m, t)
  BY <1>1, MigrationBeginsAdmin
<1>2. CASE \E drain \in BOOLEAN : MigrationCommits(m, drain)
  BY <1>2, MigrationCommitsAdmin
<1>3. CASE MigrationRejected(m) \/ Drained(m) \/ DrainTimesOut(m)
  <2>1. /\ migration[m].pc # "idle" /\ MigrationEnds(m)
        /\ UNCHANGED <<entry, disk, slots, load, user, disturbed>>
    BY <1>3 DEF MigrationRejected, Drained, DrainTimesOut
  <2>2. QED
    BY <2>1, RegistrySteps, SameSlots, MigrationEndsAdmin
<1>4. CASE MigrationNotPersisted(m)
  <2> DEFINE x == migration[m]
  <2>1. /\ x.pc = "validating" /\ x.pc # "idle" /\ MigrationEnds(m)
        /\ UNCHANGED <<entry, disk, load, user, disturbed>>
        /\ slots' = [slots EXCEPT ![x.target] =
                IF x.is_new THEN Remove(Published(m)) ELSE slots[x.target]]
    BY <1>4 DEF MigrationNotPersisted, NotPersisted
  <2>2. slots[x.target] \in Slot /\ SlotMatches(slots[x.target])
    BY <2>1, PublishedSlot DEF AdminInv, TypeOK, DescriptorsMatch
  <2>3. SlotsKept
    BY <2>1, <2>2, PublishedSlot, RemoveSlot, OneSlot
  <2>4. QED
    BY <2>1, <2>3, RegistrySteps, MigrationEndsAdmin
<1>5. QED
  BY <1>1, <1>2, <1>3, <1>4 DEF MigrationSteps
-----------------------------------------------------------------------------
(* The requests of clients.                                                 *)

LEMMA UserAdmin ==
    ASSUME AdminInv, NEW u \in Users, UserSteps(u)
    PROVE  AdminInv'
<1>1. UNCHANGED <<entry, disk, lock, load, disturbed>>
  BY DEF UserSteps, Lists, Enters, GivesUp, Exits
<1>2. RegistryKept
  BY <1>1, RegistrySteps
<1> DEFINE UsersKept ==
               /\ user' \in [Users -> User]
               /\ \A w \in Users :
                      user'[w].pc # "idle" => user'[w].version \in Versions
<1>3. UsersKept
  <2>1. /\ "listed" \in {"idle", "listed", "inside"}
        /\ "inside" \in {"idle", "listed", "inside"}
        /\ entry.version \in Versions
    BY DEF AdminInv, TypeOK, Entry
  <2>2. ASSUME NEW pc \in {"listed", "inside"}, NEW v \in Versions,
               user' = [user EXCEPT ![u] = [pc |-> pc, version |-> v]]
        PROVE  UsersKept
    BY <2>1, <2>2 DEF AdminInv, TypeOK, LocalsInUse, User, Maybe
  <2>3. ASSUME user' = [user EXCEPT ![u] = IdleUser]
        PROVE  UsersKept
    BY <2>3, IdleValues DEF AdminInv, TypeOK, LocalsInUse, IdleUser
  <2>4. QED
    BY <2>1, <2>2, <2>3 DEF UserSteps, Lists, Enters, GivesUp, Exits
<1>4. SlotsKept
  <2>1. ASSUME NEW v \in Versions
        PROVE  slots[v] \in Slot /\ SlotMatches(slots[v])
    BY DEF AdminInv, TypeOK, DescriptorsMatch
  <2>2. CASE Lists(u) \/ GivesUp(u)
    BY <2>2, SameSlots DEF Lists, GivesUp
  <2>3. ASSUME NEW v \in Versions, Enters(u, v)
        PROVE  SlotsKept
    BY <2>1, <2>3, UseSlot, OneSlot DEF Enters
  <2>4. CASE Exits(u)
    <3>1. user[u].version \in Versions
      BY <2>4 DEF Exits, AdminInv, LocalsInUse
    <3>2. QED
      BY <2>1, <2>4, <3>1, UseSlot, OneSlot DEF Exits
  <2>5. QED
    BY <2>2, <2>3, <2>4 DEF UserSteps
<1> DEFINE OnlyWoken(m) ==
               /\ migration'[m].pc = migration[m].pc
               /\ migration'[m].version = migration[m].version
               /\ migration'[m].target = migration[m].target
               /\ migration'[m].candidate = migration[m].candidate
               /\ migration'[m].spec = migration[m].spec
<1>5. /\ migration' \in [Migrations -> Migration]
      /\ \A m \in Migrations : OnlyWoken(m)
  <2>1. ASSUME NEW v
        PROVE  Wakes(v) \in [Migrations -> Migration]
    <3>1. ASSUME NEW m \in Migrations
          PROVE  [migration[m] EXCEPT !.woken = TRUE] \in Migration
      <4>1. TRUE \in BOOLEAN /\ migration[m] \in Migration
        BY DEF AdminInv, TypeOK
      <4>2. QED
        BY <4>1 DEF Migration
    <3>2. QED
      BY <3>1 DEF Wakes, AdminInv, TypeOK
  <2>2. \/ UNCHANGED migration
        \/ \E v : migration' = Wakes(v)
    BY DEF UserSteps, Lists, Enters, GivesUp, Exits
  <2>3. CASE UNCHANGED migration
    BY <2>3 DEF AdminInv, TypeOK
  <2>4. ASSUME NEW v, migration' = Wakes(v)
        PROVE  \A m \in Migrations : OnlyWoken(m)
    <3>1. ASSUME NEW m \in Migrations
          PROVE  \/ migration'[m] = migration[m]
                 \/ migration'[m] = [migration[m] EXCEPT !.woken = TRUE]
      BY <2>4 DEF Wakes
    <3>2. ASSUME NEW m \in Migrations
          PROVE  LET x == [migration[m] EXCEPT !.woken = TRUE]
                     y == migration[m]
                 IN  /\ x.pc = y.pc /\ x.version = y.version /\ x.target = y.target
                     /\ x.candidate = y.candidate /\ x.spec = y.spec
      BY DEF AdminInv, TypeOK, Migration
    <3>3. QED
      BY <3>1, <3>2
  <2>5. QED
    BY <2>1, <2>2, <2>3, <2>4
<1>6. waits' \in [Migrations -> SUBSET Users]
  BY DEF UserSteps, Lists, Enters, GivesUp, Exits, AdminInv, TypeOK
<1>7. TypeOK'
  BY <1>1, <1>2, <1>3, <1>4, <1>5, <1>6
     DEF AdminInv, TypeOK, RegistryKept, SlotsKept
<1>8. LocalsInUse' /\ MigrationReplacesWhatItRead'
  BY <1>1, <1>3, <1>5 DEF AdminInv, LocalsInUse, MigrationReplacesWhatItRead
<1>9. QED
  BY <1>2, <1>4, <1>7, <1>8 DEF AdminInv, RegistryKept, SlotsKept

-----------------------------------------------------------------------------
(* The invariant.                                                           *)

LEMMA NextAdmin ==
    ASSUME AdminInv, [Next]_vars
    PROVE  AdminInv'
<1>1. CASE UNCHANGED vars
  BY <1>1
     DEF vars, AdminInv, TypeOK, LocalsInUse, DurableRegistry, DescriptorsMatch,
         MigrationReplacesWhatItRead
<1>2. CASE Next
  BY <1>2, LoadAdmin, MigrationAdmin, UserAdmin, RollBackAdmin, RestartAdmin DEF Next
<1>3. QED
  BY <1>1, <1>2

\* AdminInv is an invariant, whoever calls whatever, in any order, whether or
\* not the registry file can be written, across restarts.
THEOREM AdminInvariant == Spec => []AdminInv
<1>1. Init => AdminInv
  BY InitAdmin
<1>2. AdminInv /\ [Next]_vars => AdminInv'
  BY NextAdmin
<1>3. QED
  BY <1>1, <1>2, PTL DEF Spec

\* No handler, request or restart leaves an entry, a slot or a local variable
\* outside its type (plugin_loader.py:26-34, migration_api.py:61-312).
THEOREM AdminTypes == Spec => []TypeOK
<1>1. AdminInv => TypeOK
  BY DEF AdminInv
<1>2. QED
  BY <1>1, AdminInvariant, PTL

\* Every change that took effect in the registry is on disk, and every change
\* that could not be written was taken back (registry.py:187-207, 221-246).
THEOREM RegistryIsDurable == Spec => []DurableRegistry
<1>1. AdminInv => DurableRegistry
  BY DEF AdminInv
<1>2. QED
  BY <1>1, AdminInvariant, PTL

\* An adapter and what a rollback would restore are kept with their own
\* descriptors (plugin_loader.py:184-231).
THEOREM DescriptorsAlwaysMatch == Spec => []DescriptorsMatch
<1>1. AdminInv => DescriptorsMatch
  BY DEF AdminInv
<1>2. QED
  BY <1>1, AdminInvariant, PTL

\* No two migrations interleave between reading the active version and
\* replacing it (migration_api.py:67-79, 166-170).
THEOREM MigrationsAreSerial == Spec => []MigrationReplacesWhatItRead
<1>1. AdminInv => MigrationReplacesWhatItRead
  BY DEF AdminInv
<1>2. QED
  BY <1>1, AdminInvariant, PTL
-----------------------------------------------------------------------------
(* Draining.  Only a request that enters or leaves changes a count or an    *)
(* event; every other step keeps them, and starts or ends waits at most.    *)

SameUse ==
    \A v \in Versions : /\ slots'[v].in_flight = slots[v].in_flight
                        /\ slots'[v].drained = slots[v].drained
SameInside == \A v \in Versions : Inside(v)' = Inside(v)

\* m waits on as before, or begins a wait for all who are inside.
WaitsOn(m) ==
    \/ /\ migration[m].pc = "draining"
       /\ migration'[m].version = migration[m].version
       /\ migration'[m].woken = migration[m].woken
       /\ waits'[m] = waits[m]
    \/ /\ waits'[m] = Inside(migration'[m].version)
       /\ migration'[m].woken = FALSE

QuietStep ==
    /\ SameUse
    /\ SameInside
    /\ \A m \in Migrations : migration'[m].pc = "draining" => WaitsOn(m)

LEMMA QuietMethods ==
    ASSUME NEW k \in Slot
    PROVE  /\ \A a, sp : LET r == Register(k, a, sp)
                         IN  r.in_flight = k.in_flight /\ r.drained = k.drained
           /\ Remove(k).in_flight = k.in_flight /\ Remove(k).drained = k.drained
           /\ RollBack(k).in_flight = k.in_flight /\ RollBack(k).drained = k.drained
  BY DEF Slot, Register, Remove, RollBack, CanRollBack

LEMMA OneSlotUse ==
    ASSUME AdminInv, NEW v \in Versions, NEW k,
           k.in_flight = slots[v].in_flight, k.drained = slots[v].drained,
           slots' = [slots EXCEPT ![v] = k]
    PROVE  SameUse
  BY DEF AdminInv, TypeOK, SameUse

LEMMA QuietDrain ==
    ASSUME AdminInv, AdminInv', DrainInv, QuietStep
    PROVE  DrainInv'
<1> USE DEF QuietStep, SameUse, SameInside
<1>1. InFlightCounts'
  BY DEF DrainInv, InFlightCounts
<1>2. \A v \in Versions : slots'[v].drained => slots'[v].in_flight = 0
  BY DEF DrainInv
<1>3. ASSUME NEW m \in Migrations, migration'[m].pc = "draining"
      PROVE  /\ waits'[m] \subseteq Inside(migration'[m].version)
             /\ migration'[m].woken => waits'[m] = {}
             /\ migration'[m].version \in Versions
  <2>1. migration'[m].version \in Versions
    BY <1>3 DEF AdminInv, LocalsInUse
  <2>2. WaitsOn(m)
    BY <1>3
  <2>3. QED
    BY <2>1, <2>2 DEF WaitsOn, DrainInv, DrainIsReal
<1>4. \A m \in Migrations : migration'[m].pc = "draining" =>
          waits'[m] \subseteq Inside(migration[m].version)'
  <2>1. \A m \in Migrations : \A v \in Versions : migration'[m].version = v =>
            Inside(migration[m].version)' = Inside(v)'
    BY DEF Inside
  <2>2. QED
    BY <1>3, <2>1
<1>5. QED
  BY <1>1, <1>2, <1>3, <1>4 DEF DrainInv, DrainIsReal

LEMMA HandlersAreQuiet ==
    ASSUME AdminInv, DrainInv
    PROVE  /\ \A l \in Loads : LoadSteps(l) => QuietStep
           /\ \A v \in Versions : RollsBack(v) => QuietStep
           /\ \A m \in Migrations : MigrationSteps(m) => QuietStep
           /\ \A u \in Users : Lists(u) \/ GivesUp(u) => QuietStep
           /\ UNCHANGED vars => QuietStep
<1>1. ASSUME UNCHANGED user
      PROVE  SameInside
  BY <1>1 DEF SameInside, Inside
<1>2. ASSUME UNCHANGED slots
      PROVE  SameUse
  BY <1>2 DEF SameUse
<1>3. ASSUME UNCHANGED <<migration, waits>>
      PROVE  \A m \in Migrations : migration'[m].pc = "draining" => WaitsOn(m)
  BY <1>3 DEF WaitsOn
<1>4. \A v \in Versions : slots[v] \in Slot
  BY DEF AdminInv, TypeOK
<1>5. ASSUME NEW l \in Loads, LoadSteps(l)
      PROVE  QuietStep
  <2> DEFINE v == load[l].version
             k == Register(slots[v], load[l].plugin, load[l].plugin)
  <2>1. UNCHANGED <<user, migration, waits>>
    BY <1>5 DEF LoadSteps, LoadBegins, LoadRejected, LoadCommits, LoadNotPersisted, LoadEnds
  <2>2. CASE UNCHANGED slots
    BY <1>1, <1>2, <1>3, <2>1, <2>2 DEF QuietStep
  <2>3. CASE LoadCommits(l) \/ LoadNotPersisted(l)
    <3>1. v \in Versions /\ load[l].plugin \in Plugins
      BY <2>3 DEF LoadCommits, LoadNotPersisted, LoadEnds, AdminInv, LocalsInUse
    <3>2. k \in Slot
      <4>1. load[l].plugin \in Adapter /\ load[l].plugin \in Maybe(Plugins)
        BY <3>1 DEF Adapter, Maybe
      <4>2. Describes(load[l].plugin, load[l].plugin) /\ SlotMatches(slots[v])
        BY <3>1 DEF Describes, AdminInv, DescriptorsMatch
      <4>3. QED
        BY <1>4, <3>1, <4>1, <4>2, RegisterSlot
    <3>3. \E r \in {k, RollBack(k), Remove(k)} : slots' = [slots EXCEPT ![v] = r]
      BY <2>3 DEF LoadCommits, LoadNotPersisted
    <3>4. \A r \in {k, RollBack(k), Remove(k)} :
              r.in_flight = slots[v].in_flight /\ r.drained = slots[v].drained
      BY <1>4, <3>1, <3>2, QuietMethods
    <3>5. SameUse
      BY <3>1, <3>3, <3>4, OneSlotUse
    <3>6. QED
      BY <1>1, <1>3, <2>1, <3>5 DEF QuietStep
  <2>4. QED
    BY <1>5, <2>2, <2>3 DEF LoadSteps, LoadBegins, LoadRejected
<1>6. ASSUME NEW v \in Versions, RollsBack(v)
      PROVE  QuietStep
  <2>1. SameUse
    BY <1>4, <1>6, QuietMethods, OneSlotUse DEF RollsBack
  <2>2. QED
    BY <1>1, <1>3, <1>6, <2>1 DEF RollsBack, QuietStep
<1>7. ASSUME NEW m \in Migrations, MigrationSteps(m)
      PROVE  QuietStep
  <2> DEFINE x == migration[m]
  <2>1. UNCHANGED user
    BY <1>7
       DEF MigrationSteps, MigrationBegins, MigrationRejected, MigrationCommits,
           MigrationNotPersisted, Drained, DrainTimesOut
  <2>2. SameUse
    <3>1. CASE UNCHANGED slots
      BY <1>2, <3>1
    <3>2. ASSUME x.pc = "validating",
                 \E r \in {slots[x.target], Published(m), Remove(Published(m))} :
                     slots' = [slots EXCEPT ![x.target] = r]
          PROVE  SameUse
      <4>1. x.target \in Versions /\ Published(m) \in Slot
        BY <3>2, PublishedSlot
      <4>2. \A r \in {slots[x.target], Published(m), Remove(Published(m))} :
                /\ r.in_flight = slots[x.target].in_flight
                /\ r.drained = slots[x.target].drained
        BY <1>4, <4>1, QuietMethods DEF Published
      <4>3. QED
        BY <3>2, <4>1, <4>2, OneSlotUse
    <3>3. QED
      BY <1>7, <3>1, <3>2
         DEF MigrationSteps, MigrationBegins, MigrationRejected, MigrationCommits,
             MigrationNotPersisted, Drained, DrainTimesOut
  <2>3. ASSUME NEW n \in Migrations, migration'[n].pc = "draining"
        PROVE  WaitsOn(n)
    <3>1. ASSUME NEW t \in Versions, MigrationBegins(m, t)
          PROVE  WaitsOn(n)
      <4> DEFINE is_new == slots[t].adapter = None
                 source == IF is_new THEN slots[entry.version] ELSE slots[t]
                 y      == [pc |-> "validating", target |-> t,
                            version |-> entry.version, meta |-> entry.meta,
                            candidate |-> source.adapter, spec |-> source.spec,
                            is_new |-> is_new, woken |-> FALSE]
      <4>1. migration' = [migration EXCEPT ![m] = y] /\ y.pc = "validating"
        BY <3>1 DEF MigrationBegins
      <4>2. UNCHANGED waits
        BY <3>1 DEF MigrationBegins
      <4>3. n # m /\ migration'[n] = migration[n]
        BY <2>3, <4>1 DEF AdminInv, TypeOK
      <4>4. QED
        BY <2>3, <4>2, <4>3 DEF WaitsOn
    <3>2. CASE MigrationEnds(m)
      BY <2>3, <3>2 DEF MigrationEnds, IdleMigration, WaitsOn, AdminInv, TypeOK
    <3>3. ASSUME NEW drain \in BOOLEAN, MigrationCommits(m, drain), ~MigrationEnds(m)
          PROVE  WaitsOn(n)
      <4>1. x.version \in Versions
        BY <3>3, PublishedSlot DEF MigrationCommits
      <4>2. slots[x.version].drained = FALSE
        BY <1>4, <3>3, <4>1 DEF MigrationCommits, DrainInv, Slot
      <4>3. CASE n = m
        BY <3>3, <4>2, <4>3
           DEF MigrationCommits, WaitsOn, AdminInv, TypeOK, IdleMigration
      <4>4. CASE n # m
        BY <2>3, <3>3, <4>4 DEF MigrationCommits, WaitsOn, AdminInv, TypeOK
      <4>5. QED
        BY <4>3, <4>4
    <3>4. QED
      BY <1>7, <3>1, <3>2, <3>3
         DEF MigrationSteps, MigrationRejected, MigrationNotPersisted, Drained,
             DrainTimesOut
  <2>4. QED
    BY <1>1, <2>1, <2>2, <2>3 DEF QuietStep
<1>8. ASSUME NEW u \in Users, Lists(u) \/ GivesUp(u)
      PROVE  QuietStep
  <2>1. SameInside
    BY <1>8 DEF Lists, GivesUp, IdleUser, AdminInv, TypeOK, SameInside, Inside
  <2>2. QED
    BY <1>2, <1>3, <1>8, <2>1 DEF Lists, GivesUp, QuietStep
<1>9. ASSUME UNCHANGED vars
      PROVE  QuietStep
  BY <1>1, <1>2, <1>3, <1>9 DEF vars, QuietStep
<1>10. QED
  BY <1>5, <1>6, <1>7, <1>8, <1>9
\* A request that enters is one more inside, and clears the event
\* (plugin_loader.py:147-156).
LEMMA EntersDrain ==
    ASSUME AdminInv, AdminInv', DrainInv, NEW u \in Users, NEW v \in Versions,
           Enters(u, v)
    PROVE  DrainInv'
<1>1. /\ user[u].pc # "inside"
      /\ user' = [user EXCEPT ![u] = [pc |-> "inside", version |-> v]]
      /\ slots' = [slots EXCEPT ![v] = Acquire(@)]
      /\ UNCHANGED <<migration, waits>>
  BY DEF Enters
<1>2. /\ Inside(v)' = Inside(v) \cup {u} /\ u \notin Inside(v)
      /\ \A w \in Versions \ {v} : Inside(w)' = Inside(w)
  BY <1>1 DEF Inside, AdminInv, TypeOK
<1>3. /\ slots'[v].in_flight = slots[v].in_flight + 1 /\ slots'[v].drained = FALSE
      /\ \A w \in Versions \ {v} : slots'[w] = slots[w]
  BY <1>1 DEF AdminInv, TypeOK, Slot, Acquire
<1>4. InFlightCounts'
  <2>1. Cardinality(Inside(v)') = Cardinality(Inside(v)) + 1
    <3>1. IsFiniteSet(Inside(v))
      BY UsersAssumption, FS_Subset DEF UsersAssumption, Inside
    <3>2. QED
      BY <1>2, <3>1, FS_AddElement
  <2>2. QED
    BY <1>2, <1>3, <2>1 DEF InFlightCounts, DrainInv
<1>5. \A w \in Versions : slots'[w].drained => slots'[w].in_flight = 0
  BY <1>3 DEF DrainInv
<1>6. \A m \in Migrations : migration[m].pc = "draining" =>
          waits[m] \subseteq Inside(migration[m].version)'
  BY <1>1, <1>2 DEF DrainInv, AdminInv, LocalsInUse, Inside
<1>7. QED
  BY <1>1, <1>4, <1>5, <1>6 DEF DrainInv, DrainIsReal, Inside

\* A request that leaves is one less inside; the last one sets the event and
\* wakes whoever waits for it (plugin_loader.py:159-170).
LEMMA ExitsDrain ==
    ASSUME AdminInv, AdminInv', DrainInv, NEW u \in Users, Exits(u),
           NEW v \in Versions, v = user[u].version
    PROVE  DrainInv'
<1> DEFINE k == Release(slots[v])
<1>1. /\ user[u].pc = "inside"
      /\ user' = [user EXCEPT ![u] = IdleUser]
      /\ slots' = [slots EXCEPT ![v] = k]
      /\ waits' = [m \in Migrations |-> waits[m] \ {u}]
      /\ migration' = IF k.drained THEN Wakes(v) ELSE migration
  BY DEF Exits
<1>2. /\ Inside(v)' = Inside(v) \ {u} /\ u \in Inside(v)
      /\ \A w \in Versions \ {v} : Inside(w)' = Inside(w)
  BY <1>1 DEF Inside, AdminInv, TypeOK, IdleUser
<1>3. /\ IsFiniteSet(Inside(v))
      /\ Cardinality(Inside(v)) = slots[v].in_flight
      /\ Cardinality(Inside(v)') = Cardinality(Inside(v)) - 1
      /\ slots[v].in_flight \in Nat /\ slots[v].in_flight > 0
  <2>1. IsFiniteSet(Inside(v))
    BY UsersAssumption, FS_Subset DEF UsersAssumption, Inside
  <2>2. Cardinality(Inside(v)) = slots[v].in_flight /\ slots[v].in_flight \in Nat
    BY DEF DrainInv, InFlightCounts, AdminInv, TypeOK, Slot
  <2>3. Cardinality(Inside(v)') = Cardinality(Inside(v)) - 1
    BY <1>2, <2>1, FS_RemoveElement
  <2>4. Cardinality(Inside(v)) # 0
    BY <1>2, <2>1, FS_EmptySet
  <2>5. QED
    BY <2>1, <2>2, <2>3, <2>4
<1>4. /\ slots'[v] = k /\ \A w \in Versions \ {v} : slots'[w] = slots[w]
      /\ k.in_flight = slots[v].in_flight - 1
      /\ k.drained => k.in_flight = 0
  <2>1. slots[v] \in Slot /\ (slots[v].drained => slots[v].in_flight = 0)
    BY DEF DrainInv, AdminInv, TypeOK
  <2>2. k.in_flight = slots[v].in_flight - 1 /\ (k.drained => k.in_flight = 0)
    BY <1>3, <2>1 DEF Release, Slot
  <2>3. QED
    BY <1>1, <2>2 DEF AdminInv, TypeOK
<1>5. InFlightCounts'
  BY <1>2, <1>3, <1>4 DEF InFlightCounts, DrainInv
<1>6. \A w \in Versions : slots'[w].drained => slots'[w].in_flight = 0
  BY <1>4 DEF DrainInv
<1>7. ASSUME NEW m \in Migrations
      PROVE  /\ migration'[m].pc = migration[m].pc
             /\ migration'[m].version = migration[m].version
             /\ \/ migration'[m].woken = migration[m].woken
                \/ k.drained /\ migration[m].version = v
  <2> DEFINE x == [migration[m] EXCEPT !.woken = TRUE]
  <2>1. x.pc = migration[m].pc /\ x.version = migration[m].version
    BY DEF AdminInv, TypeOK, Migration
  <2>2. \/ migration'[m] = migration[m]
        \/ migration'[m] = x /\ k.drained /\ migration[m].version = v
    BY <1>1 DEF Wakes
  <2>3. QED
    BY <2>1, <2>2
<1>8. ASSUME NEW m \in Migrations, NEW w \in Versions, migration[m].pc = "draining",
             migration[m].version = w
      PROVE  /\ waits'[m] \subseteq Inside(w)'
             /\ migration'[m].woken => waits'[m] = {}
  <2>1. waits[m] \subseteq Inside(w) /\ (migration[m].woken => waits[m] = {})
    BY <1>8 DEF DrainInv, DrainIsReal
  <2>2. waits'[m] = waits[m] \ {u}
    BY <1>1
  <2>3. waits'[m] \subseteq Inside(w)'
    BY <1>2, <2>1, <2>2 DEF Inside
  <2>4. ASSUME k.drained, w = v
        PROVE  waits'[m] = {}
    <3>1. Cardinality(Inside(v)') = 0
      BY <1>3, <1>4, <2>4
    <3>2. IsFiniteSet(Inside(v)')
      BY <1>2, <1>3, FS_RemoveElement
    <3>3. Inside(v)' = {}
      BY <3>1, <3>2, FS_EmptySet
    <3>4. QED
      BY <2>3, <2>4, <3>3
  <2>5. QED
    BY <1>7, <1>8, <2>1, <2>2, <2>3, <2>4
<1>9. \A m \in Migrations : migration'[m].pc = "draining" =>
          /\ waits'[m] \subseteq Inside(migration[m].version)'
          /\ migration'[m].woken => waits'[m] = {}
  <2>1. ASSUME NEW m \in Migrations, migration'[m].pc = "draining", NEW w \in Versions,
               migration[m].version = w
        PROVE  Inside(migration[m].version)' = Inside(w)'
    BY <1>7, <2>1 DEF Inside
  <2>2. \A m \in Migrations : migration'[m].pc = "draining" =>
            migration[m].version \in Versions
    BY <1>7 DEF AdminInv, LocalsInUse
  <2>3. QED
    BY <1>7, <1>8, <2>1, <2>2
<1>10. QED
  BY <1>5, <1>6, <1>9 DEF DrainInv, DrainIsReal

LEMMA DrainAtStart ==
    ASSUME \A v \in Versions : slots[v].in_flight = 0 /\ slots[v].drained = FALSE,
           user = [u \in Users |-> IdleUser],
           migration = [m \in Migrations |-> IdleMigration]
    PROVE  DrainInv
<1>1. \A v \in Versions : Inside(v) = {}
  BY DEF Inside, IdleUser
<1>2. QED
  BY <1>1, FS_EmptySet
     DEF DrainInv, InFlightCounts, DrainIsReal, IdleMigration

LEMMA ConfigureUnused ==
    ASSUME NEW e, NEW lost, NEW v \in Versions
    PROVE  LET k == Configure(e, lost)[v]
           IN  k.in_flight = 0 /\ k.drained = FALSE
  BY DEF Configure, BuiltInSlot, DefaultSlot, EmptySlot, Register

LEMMA InitDrain == Init => DrainInv
<1> SUFFICES ASSUME Init PROVE DrainInv
  OBVIOUS
<1>1. \A v \in Versions : slots[v].in_flight = 0 /\ slots[v].drained = FALSE
  BY ConfigureUnused DEF Init
<1>2. QED
  BY <1>1, DrainAtStart DEF Init

LEMMA DrainAlwaysAtStart ==
    (/\ \A v \in Versions : slots[v].in_flight = 0 /\ slots[v].drained = FALSE
     /\ user = [u \in Users |-> IdleUser]
     /\ migration = [m \in Migrations |-> IdleMigration]) => DrainInv
  BY DrainAtStart

LEMMA RestartDrain ==
    ASSUME NEW saved, NEW lost, Restart(saved, lost)
    PROVE  DrainInv'
<1>1. (/\ \A v \in Versions : slots[v].in_flight = 0 /\ slots[v].drained = FALSE
       /\ user = [u \in Users |-> IdleUser]
       /\ migration = [m \in Migrations |-> IdleMigration])'
  BY ConfigureUnused DEF Restart
<1>2. ((/\ \A v \in Versions : slots[v].in_flight = 0 /\ slots[v].drained = FALSE
        /\ user = [u \in Users |-> IdleUser]
        /\ migration = [m \in Migrations |-> IdleMigration]) => DrainInv)'
  BY DrainAlwaysAtStart, PTL
<1>3. QED
  BY <1>1, <1>2

LEMMA NextDrain ==
    ASSUME AdminInv, AdminInv', DrainInv, [Next]_vars
    PROVE  DrainInv'
<1>1. CASE UNCHANGED vars
  BY <1>1, HandlersAreQuiet, QuietDrain
<1>2. ASSUME NEW u \in Users, UserSteps(u)
      PROVE  DrainInv'
  <2>1. CASE Exits(u)
    <3>1. user[u].version \in Versions
      BY <2>1 DEF Exits, AdminInv, LocalsInUse
    <3>2. QED
      BY <2>1, <3>1, ExitsDrain
  <2>2. QED
    BY <1>2, <2>1, HandlersAreQuiet, QuietDrain, EntersDrain DEF UserSteps
<1>3. CASE Next
  BY <1>2, <1>3, HandlersAreQuiet, QuietDrain, RestartDrain DEF Next
<1>4. QED
  BY <1>1, <1>3

\* DrainInv is an invariant: it is inductive relative to AdminInv.
THEOREM DrainInvariant == Spec => []DrainInv
<1>1. Init => DrainInv
  BY InitDrain
<1>2. AdminInv /\ AdminInv' /\ DrainInv /\ [Next]_vars => DrainInv'
  BY NextDrain
<1>3. QED
  BY <1>1, <1>2, AdminInvariant, PTL DEF Spec

\* A migration is told that the old version is drained only after every request
\* that was inside it at the commit has left (migration_api.py:182-194).
THEOREM DrainedIsDrained == Spec => []DrainIsReal
<1>1. DrainInv => DrainIsReal
  BY DEF DrainInv
<1>2. QED
  BY <1>1, DrainInvariant, PTL

\* The in-flight count of a version is the number of requests inside it
\* (plugin_loader.py:147-170).
THEOREM InFlightIsExact == Spec => []InFlightCounts
<1>1. DrainInv => InFlightCounts
  BY DEF DrainInv
<1>2. QED
  BY <1>1, DrainInvariant, PTL

-----------------------------------------------------------------------------
(* SerialRestartIsFaithful: while nothing was disturbed, the registry       *)
(* describes what is in service, and a handler finds after its await what   *)
(* it read before.                                                          *)

\* A version without an adapter has nobody inside, so that a registration
\* there can always be taken back.
Unused(k) == k.adapter = None => k.in_flight = 0

Agreement ==
    /\ \A v \in Versions : entry.meta[v] = slots[v].spec
    /\ slots[entry.version].adapter # None

FreshLoad(l) ==
    /\ load[l].meta = entry.meta
    /\ load[l].had_previous <=> slots[load[l].version].adapter # None

FreshMigration(m) ==
    /\ migration[m].meta = entry.meta
    /\ migration[m].is_new <=> slots[migration[m].target].adapter = None
    /\ ~migration[m].is_new => migration[m].spec = slots[migration[m].target].spec

Loading(l) == load[l].pc = "canary"
Validating(m) == migration[m].pc = "validating"

FreshLocals ==
    /\ \A l \in Loads : Loading(l) => FreshLoad(l)
    /\ \A m \in Migrations : Validating(m) => FreshMigration(m)

OneBusy ==
    /\ \A l, k \in Loads : Loading(l) /\ Loading(k) => l = k
    /\ \A l \in Loads, m \in Migrations : ~(Loading(l) /\ Validating(m))

AllUnused == \A v \in Versions : Unused(slots[v])
Undisturbed == ~disturbed => Agreement /\ FreshLocals /\ OneBusy
SerialInv == AllUnused /\ Undisturbed

\* Where registry and slots agree, a restart rebuilds the slots.
LEMMA AgreementIsFaithful ==
    ASSUME AdminInv, SerialInv
    PROVE  SerialRestartIsFaithful
<1> SUFFICES ASSUME ~disturbed, NEW v \in Versions,
                    v = entry.version \/ slots[v].spec # None
             PROVE  RestartKeeps(v)
  BY DEF SerialRestartIsFaithful
<1>1. /\ Loaded(disk) = entry /\ entry.meta[v] = slots[v].spec
      /\ v = entry.version => slots[v].adapter # None
  BY DEF AdminInv, DurableRegistry, SerialInv, Undisturbed, Agreement
<1>2. /\ slots[v] \in Slot /\ Describes(slots[v].spec, slots[v].adapter)
      /\ BuiltIn \notin Plugins /\ None \notin Plugins
  BY AdapterAssumption DEF AdapterAssumption, AdminInv, TypeOK, DescriptorsMatch, SlotMatches
<1>3. /\ slots[v].adapter \in Plugins \cup {BuiltIn, None}
      /\ slots[v].spec \in Plugins \cup {None}
  BY <1>2 DEF Slot, Maybe, Adapter
<1>4. CASE slots[v].spec # None
  <2>1. slots[v].spec \in Plugins /\ slots[v].adapter = slots[v].spec
    BY <1>2, <1>3, <1>4 DEF Describes
  <2>2. Configure(entry, {})[v] = Register(BuiltInSlot(entry, v), slots[v].spec, slots[v].spec)
    BY <1>1, <2>1 DEF Configure
  <2>3. BuiltInSlot(entry, v) \in Slot
    BY SlotsAtStart DEF BuiltInSlot
  <2>4. Configure(entry, {})[v].adapter = slots[v].spec
    BY <2>2, <2>3 DEF Register, Slot
  <2>5. QED
    BY <1>1, <2>1, <2>4 DEF RestartKeeps
<1>5. CASE slots[v].spec = None
  <2>1. slots[v].adapter = BuiltIn
    BY <1>1, <1>2, <1>3, <1>5 DEF Describes
  <2>2. v = entry.version /\ entry.meta[v] \notin Plugins
    BY <1>1, <1>2, <1>5
  <2>3. Configure(entry, {})[v] = DefaultSlot
    BY <2>2 DEF Configure, BuiltInSlot
  <2>4. QED
    BY <1>1, <2>1, <2>3 DEF RestartKeeps, DefaultSlot, EmptySlot
<1>6. QED
  BY <1>4, <1>5

\* What the methods of the manager do to an unused version.
LEMMA UnusedMethods ==
    ASSUME NEW k \in Slot, Unused(k), NEW a \in Adapter, NEW sp \in Maybe(Plugins)
    PROVE  /\ Unused(Register(k, a, sp))
           /\ Unused(Remove(Register(k, a, sp)))
           /\ Unused(RollBack(Register(k, a, sp)))
           /\ Unused(RollBack(k))
           /\ k.adapter # None => Unused(Acquire(k))
           /\ Unused(Release(k))
<1>1. a # None /\ k.in_flight \in Nat
  BY AdapterAssumption DEF AdapterAssumption, Adapter, Slot
<1> DEFINE g == Register(k, a, sp)
<1>2. g \in [adapter : {a}, spec : {sp}, previous : {g.previous},
             previous_spec : {g.previous_spec}, in_flight : {k.in_flight},
             drained : {k.drained}]
  BY DEF Register, Slot
<1>3. g.adapter # None /\ g.in_flight = k.in_flight
  BY <1>1, <1>2
<1>4. Unused(g)
  BY <1>3 DEF Unused
<1>5. Unused(Remove(g))
  BY <1>1, <1>2, <1>4 DEF Remove, Unused
<1>6. ASSUME NEW h, h \in [adapter : {h.adapter}, spec : {h.spec}, previous : {h.previous},
                           previous_spec : {h.previous_spec}, in_flight : {h.in_flight},
                           drained : {h.drained}], Unused(h)
      PROVE  Unused(RollBack(h))
  BY <1>6 DEF RollBack, CanRollBack, Unused
<1>7. Unused(RollBack(g))
  BY <1>2, <1>4, <1>6
<1>8. Unused(RollBack(k))
  BY <1>6 DEF Slot
<1>9. k.adapter # None => Unused(Acquire(k))
  BY DEF Acquire, Unused, Slot
<1>10. Unused(Release(k))
  BY <1>1 DEF Release, Unused, Slot
<1>11. QED
  BY <1>4, <1>5, <1>7, <1>8, <1>9, <1>10

\* A registration that is taken back while nobody is inside leaves the adapter
\* and the descriptor that were there (plugin_loader.py:214-231).
LEMMA TakenBack ==
    ASSUME NEW k \in Slot, SlotMatches(k), k.in_flight = 0,
           NEW a \in Adapter, NEW sp \in Maybe(Plugins)
    PROVE  /\ k.adapter # None =>
                  /\ RollBack(Register(k, a, sp)).adapter = k.adapter
                  /\ RollBack(Register(k, a, sp)).spec = k.spec
           /\ k.adapter = None =>
                  /\ Remove(Register(k, a, sp)).adapter = k.adapter
                  /\ Remove(Register(k, a, sp)).spec = k.spec
<1> DEFINE g == Register(k, a, sp)
<1>1. CASE k.adapter # None
  <2>1. g \in [adapter : {a}, spec : {sp}, previous : {k.adapter},
               previous_spec : {k.spec}, in_flight : {0}, drained : {k.drained}]
    BY <1>1 DEF Register, Slot
  <2>2. RollBack(g).adapter = k.adapter /\ RollBack(g).spec = k.spec
    BY <1>1, <2>1 DEF RollBack, CanRollBack
  <2>3. QED
    BY <1>1, <2>2
<1>2. CASE k.adapter = None
  <2>1. g \in [adapter : {a}, spec : {sp}, previous : {k.previous},
               previous_spec : {k.previous_spec}, in_flight : {0}, drained : {k.drained}]
    BY <1>2 DEF Register, Slot
  <2>2. Remove(g).adapter = None /\ Remove(g).spec = None
    BY <2>1 DEF Remove
  <2>3. k.spec = None
    BY <1>2, AdapterAssumption DEF AdapterAssumption, SlotMatches, Describes
  <2>4. QED
    BY <1>2, <2>2, <2>3
<1>3. QED
  BY <1>1, <1>2

LEMMA OneUnused ==
    ASSUME AdminInv, AllUnused, NEW v \in Versions, NEW k, Unused(k),
           slots' = [slots EXCEPT ![v] = k]
    PROVE  AllUnused'
  BY DEF AdminInv, TypeOK, AllUnused, Unused

\* A step that changes neither the entry nor any adapter, and lets handlers
\* only go on or end.
LEMMA QuietSerial ==
    ASSUME Undisturbed, UNCHANGED <<entry, disturbed>>, AdminInv,
           \A v \in Versions : /\ slots'[v].adapter = slots[v].adapter
                               /\ slots'[v].spec = slots[v].spec,
           \A l \in Loads : Loading(l)' => load'[l] = load[l],
           \A m \in Migrations : Validating(m)' => migration'[m] = migration[m]
    PROVE  Undisturbed'
<1> SUFFICES ASSUME ~disturbed PROVE (Agreement /\ FreshLocals /\ OneBusy)'
  BY DEF Undisturbed
<1>1. Agreement /\ FreshLocals /\ OneBusy
  BY DEF Undisturbed
<1>2. Agreement'
  BY <1>1 DEF Agreement, AdminInv, TypeOK, Entry
<1>3. ASSUME NEW l \in Loads, Loading(l)'
      PROVE  Loading(l) /\ FreshLoad(l)'
  <2>1. load'[l] = load[l] /\ Loading(l)
    BY <1>3 DEF Loading
  <2>2. FreshLoad(l) /\ load[l].version \in Versions
    BY <1>1, <2>1 DEF FreshLocals, Loading, AdminInv, LocalsInUse
  <2>3. QED
    BY <2>1, <2>2 DEF FreshLoad
<1>4. ASSUME NEW m \in Migrations, Validating(m)'
      PROVE  Validating(m) /\ FreshMigration(m)'
  <2>1. migration'[m] = migration[m] /\ Validating(m)
    BY <1>4 DEF Validating
  <2>2. FreshMigration(m) /\ migration[m].target \in Versions
    BY <1>1, <2>1 DEF FreshLocals, Validating, AdminInv, LocalsInUse
  <2>3. QED
    BY <2>1, <2>2 DEF FreshMigration
<1>5. FreshLocals'
  BY <1>3, <1>4 DEF FreshLocals
<1>6. OneBusy'
  BY <1>1, <1>3, <1>4 DEF OneBusy
<1>7. QED
  BY <1>2, <1>5, <1>6

\* A step after which no handler is between its reading and its write.
LEMMA SettledSerial ==
    ASSUME Agreement', \A l \in Loads : ~Loading(l)', \A m \in Migrations : ~Validating(m)'
    PROVE  Undisturbed'
  BY DEF Undisturbed, FreshLocals, OneBusy

LEMMA LoadAlone ==
    ASSUME AdminInv, Undisturbed, ~disturbed, NEW l \in Loads, LoadEnds(l)
    PROVE  (\A k \in Loads : ~Loading(k)') /\ (\A m \in Migrations : ~Validating(m)')
<1>1. OneBusy /\ Loading(l)
  BY DEF Undisturbed, LoadEnds, Loading
<1>2. load' = [load EXCEPT ![l] = IdleLoad] /\ IdleLoad.pc = "idle" /\ UNCHANGED migration
  BY DEF LoadEnds, IdleLoad
<1>3. ASSUME NEW k \in Loads
      PROVE  ~Loading(k)'
  BY <1>1, <1>2 DEF OneBusy, Loading, AdminInv, TypeOK
<1>4. ASSUME NEW m \in Migrations
      PROVE  ~Validating(m)'
  BY <1>1, <1>2 DEF OneBusy, Validating
<1>5. QED
  BY <1>3, <1>4

LEMMA MigrationAlone ==
    ASSUME AdminInv, Undisturbed, ~disturbed, NEW m \in Migrations, Validating(m),
           NEW y, y.pc # "validating", migration' = [migration EXCEPT ![m] = y],
           UNCHANGED load
    PROVE  (\A l \in Loads : ~Loading(l)') /\ (\A n \in Migrations : ~Validating(n)')
<1>1. OneBusy
  BY DEF Undisturbed
<1>2. \A n \in Migrations \ {m} : ~Validating(n)
  BY OneMigration DEF Validating
<1>3. ASSUME NEW l \in Loads
      PROVE  ~Loading(l)'
  BY <1>1 DEF OneBusy, Loading
<1>4. ASSUME NEW n \in Migrations
      PROVE  ~Validating(n)'
  BY <1>2 DEF Validating, AdminInv, TypeOK
<1>5. QED
  BY <1>3, <1>4

-----------------------------------------------------------------------------
LEMMA LoadBeginsSerial ==
    ASSUME AdminInv, SerialInv, NEW l \in Loads, NEW v \in Versions, NEW p \in Plugins,
           LoadBegins(l, v, p)
    PROVE  SerialInv'
<1>1. AllUnused'
  BY DEF LoadBegins, SerialInv, AllUnused
<1>2. Undisturbed'
  <2> SUFFICES ASSUME ~disturbed' PROVE (Agreement /\ FreshLocals /\ OneBusy)'
    BY DEF Undisturbed
  <2>1. /\ ~disturbed /\ ~Busy
        /\ UNCHANGED <<entry, slots, migration>>
    BY DEF LoadBegins, NoteOverlap
  <2>2. Agreement
    BY <2>1 DEF SerialInv, Undisturbed
  <2>3. (\A k \in Loads : ~Loading(k)) /\ (\A m \in Migrations : ~Validating(m))
    BY <2>1 DEF Busy, Loading, Validating
  <2> DEFINE x == [pc |-> "canary", version |-> v, plugin |-> p, meta |-> entry.meta,
                   had_previous |-> slots[v].adapter # None]
  <2>4. load' = [load EXCEPT ![l] = x] /\ load \in [Loads -> Load]
    BY DEF LoadBegins, AdminInv, TypeOK
  <2>5. load'[l] = x
    BY <2>4
  <2>6. \A k \in Loads : Loading(k)' => k = l
    BY <2>3, <2>4 DEF Loading
  <2>7. \A m \in Migrations : ~Validating(m)'
    BY <2>1, <2>3 DEF Validating
  <2>8. FreshLoad(l)'
    <3>1. load'[l].meta = entry.meta /\ load'[l].version = v
      BY <2>5
    <3>2. load'[l].had_previous = (slots[v].adapter # None)
      <4>1. \A a, b, c, d, e : [pc |-> a, version |-> b, plugin |-> c, meta |-> d,
                                had_previous |-> e].had_previous = e
        OBVIOUS
      <4>2. x.had_previous = (slots[v].adapter # None)
        BY <4>1, Zenon
      <4>3. QED
        BY <2>5, <4>2, Zenon
    <3>3. QED
      BY <2>1, <3>1, <3>2, Zenon DEF FreshLoad
  <2>9. QED
    BY <2>1, <2>2, <2>6, <2>7, <2>8 DEF Agreement, FreshLocals, OneBusy
<1>3. QED
  BY <1>1, <1>2 DEF SerialInv

LEMMA LoadEndsSerial ==
    ASSUME AdminInv, SerialInv, NEW l \in Loads,
           LoadRejected(l) \/ LoadCommits(l) \/ LoadNotPersisted(l)
    PROVE  SerialInv'
<1> DEFINE v == load[l].version
           p == load[l].plugin
           k == slots[v]
<1>1. LoadEnds(l) /\ Loading(l)
  BY DEF LoadRejected, LoadCommits, LoadNotPersisted, LoadEnds, Loading
<1>2. /\ v \in Versions /\ p \in Plugins /\ p \in Adapter /\ p \in Maybe(Plugins)
      /\ k \in Slot /\ SlotMatches(k) /\ Unused(k)
      /\ slots \in [Versions -> Slot] /\ entry.version \in Versions
  BY <1>1 DEF Loading, AdminInv, LocalsInUse, TypeOK, Entry, DescriptorsMatch, SerialInv,
              AllUnused, Adapter, Maybe
<1>3. CASE LoadRejected(l)
  <2>1. load' = [load EXCEPT ![l] = IdleLoad] /\ IdleLoad.pc # "canary"
        /\ UNCHANGED <<entry, slots, migration, disturbed>>
    BY <1>3 DEF LoadRejected, LoadEnds, IdleLoad
  <2>2. \A j \in Loads : Loading(j)' => load'[j] = load[j]
    BY <2>1 DEF Loading, AdminInv, TypeOK
  <2>3. Undisturbed'
    BY <2>1, <2>2, QuietSerial DEF SerialInv
  <2>4. QED
    BY <2>1, <2>3 DEF SerialInv, AllUnused
<1>4. CASE LoadCommits(l)
  <2>1. /\ slots' = [slots EXCEPT ![v] = Register(k, p, p)]
        /\ entry' = [entry EXCEPT !.meta = [load[l].meta EXCEPT ![v] = p]]
        /\ UNCHANGED disturbed
    BY <1>4 DEF LoadCommits, Persisted
  <2>2. AllUnused'
    BY <1>2, <2>1, UnusedMethods, OneUnused DEF SerialInv
  <2>3. ASSUME ~disturbed
        PROVE  Agreement'
    <3>1. load[l].meta = entry.meta /\ Agreement
      BY <1>1, <2>3 DEF SerialInv, Undisturbed, FreshLocals, FreshLoad
    <3>2. Register(k, p, p).adapter = p /\ Register(k, p, p).spec = p /\ p # None
      BY <1>2, AdapterAssumption DEF AdapterAssumption, Register, Slot
    <3>3. entry.meta \in Meta /\ entry \in Entry
      BY DEF AdminInv, TypeOK, Entry
    <3>4. entry'.meta = [entry.meta EXCEPT ![v] = p] /\ entry'.version = entry.version
      BY <2>1, <3>1, <3>3 DEF Entry
    <3>5. QED
      BY <1>2, <2>1, <3>1, <3>2, <3>3, <3>4 DEF Agreement, Meta
  <2>4. Undisturbed'
    <3>1. CASE disturbed
      BY <2>1, <3>1 DEF Undisturbed
    <3>2. CASE ~disturbed
      BY <1>1, <2>3, <3>2, LoadAlone, SettledSerial DEF SerialInv
    <3>3. QED
      BY <3>1, <3>2
  <2>5. QED
    BY <2>2, <2>4 DEF SerialInv
<1>5. CASE LoadNotPersisted(l)
  <2> DEFINE g == IF load[l].had_previous THEN RollBack(Register(k, p, p))
                  ELSE Remove(Register(k, p, p))
  <2>1. /\ slots' = [slots EXCEPT ![v] = g]
        /\ disturbed' = (disturbed \/ k.in_flight > 0)
        /\ UNCHANGED entry
    BY <1>5 DEF LoadNotPersisted, NotPersisted
  <2>2. AllUnused'
    BY <1>2, <2>1, UnusedMethods, OneUnused DEF SerialInv
  <2>3. ASSUME ~disturbed'
        PROVE  Agreement'
    <3>1. ~disturbed /\ k.in_flight = 0
      <4>1. ~(disturbed \/ k.in_flight > 0)
        BY <2>1, <2>3, Zenon
      <4>2. k.in_flight \in Nat
        BY <1>2 DEF Slot
      <4>3. QED
        BY <4>1, <4>2
    <3>2. Agreement /\ (load[l].had_previous <=> k.adapter # None)
      BY <1>1, <3>1 DEF SerialInv, Undisturbed, FreshLocals, FreshLoad
    <3>3. g.adapter = k.adapter /\ g.spec = k.spec
      BY <1>2, <3>1, <3>2, TakenBack
    <3>4. \A w \in Versions : slots'[w].adapter = slots[w].adapter /\ slots'[w].spec = slots[w].spec
      BY <1>2, <2>1, <3>3
    <3>5. QED
      BY <1>2, <2>1, <3>2, <3>4 DEF Agreement
  <2>4. Undisturbed'
    <3>1. CASE disturbed'
      BY <3>1 DEF Undisturbed
    <3>2. CASE ~disturbed'
      BY <1>1, <2>1, <2>3, <3>2, LoadAlone, SettledSerial DEF SerialInv
    <3>3. QED
      BY <3>1, <3>2
  <2>5. QED
    BY <2>2, <2>4 DEF SerialInv
<1>6. QED
  BY <1>3, <1>4, <1>5

LEMMA RollBackSerial ==
    ASSUME AdminInv, SerialInv, NEW v \in Versions, RollsBack(v)
    PROVE  SerialInv'
<1> DEFINE k == slots[v]
           g == RollBack(k)
<1>1. /\ k \in Slot /\ SlotMatches(k) /\ Unused(k)
      /\ slots \in [Versions -> Slot] /\ slots' = [slots EXCEPT ![v] = g]
      /\ entry \in Entry /\ entry.meta \in Meta /\ entry.version \in Versions
  BY DEF RollsBack, AdminInv, TypeOK, DescriptorsMatch, SerialInv, AllUnused, Entry
<1>2. AllUnused'
  <2>1. BuiltIn \in Adapter /\ None \in Maybe(Plugins)
    BY DEF Adapter, Maybe
  <2>2. QED
    BY <1>1, <2>1, UnusedMethods, OneUnused DEF SerialInv
<1>3. Undisturbed'
  <2> SUFFICES ASSUME ~disturbed' PROVE Undisturbed'
    BY DEF Undisturbed
  <2>1. /\ ~disturbed /\ ~Busy
        /\ Persisted([entry EXCEPT !.meta = DescriptorsAfterRollBack(v)])
    BY DEF RollsBack, NoteOverlap
  <2>2. Agreement
    BY <2>1 DEF SerialInv, Undisturbed
  <2>3. entry'.meta = [entry.meta EXCEPT ![v] = g.spec] /\ entry'.version = entry.version
    BY <1>1, <2>1 DEF Persisted, DescriptorsAfterRollBack, Entry
  <2>4. g.adapter # None
    BY <1>1 DEF RollsBack, RollBack, CanRollBack, Slot
  <2>5. Agreement'
    BY <1>1, <2>2, <2>3, <2>4 DEF Agreement, Meta
  <2>6. (\A l \in Loads : ~Loading(l)') /\ (\A m \in Migrations : ~Validating(m)')
    BY <2>1 DEF RollsBack, Busy, Loading, Validating
  <2>7. QED
    BY <2>5, <2>6, SettledSerial
<1>4. QED
  BY <1>2, <1>3 DEF SerialInv

LEMMA MigrationBeginsSerial ==
    ASSUME AdminInv, SerialInv, NEW m \in Migrations, NEW t \in Versions,
           MigrationBegins(m, t)
    PROVE  SerialInv'
<1> DEFINE is_new == slots[t].adapter = None
           source == IF is_new THEN slots[entry.version] ELSE slots[t]
           x      == [pc |-> "validating", target |-> t, version |-> entry.version,
                      meta |-> entry.meta, candidate |-> source.adapter,
                      spec |-> source.spec, is_new |-> is_new, woken |-> FALSE]
<1>1. AllUnused'
  BY DEF MigrationBegins, SerialInv, AllUnused
<1>2. Undisturbed'
  <2> SUFFICES ASSUME ~disturbed' PROVE (Agreement /\ FreshLocals /\ OneBusy)'
    BY DEF Undisturbed
  <2>1. ~disturbed /\ ~Busy /\ UNCHANGED <<entry, slots, load>>
    BY DEF MigrationBegins, NoteOverlap
  <2>2. Agreement
    BY <2>1 DEF SerialInv, Undisturbed
  <2>3. (\A l \in Loads : ~Loading(l)) /\ (\A n \in Migrations : ~Validating(n))
    BY <2>1 DEF Busy, Loading, Validating
  <2>4. migration' = [migration EXCEPT ![m] = x] /\ migration \in [Migrations -> Migration]
    BY DEF MigrationBegins, AdminInv, TypeOK
  <2>5. migration'[m] = x
    BY <2>4
  <2>6. \A n \in Migrations : Validating(n)' => n = m
    BY <2>3, <2>4 DEF Validating
  <2>7. \A l \in Loads : ~Loading(l)'
    BY <2>1, <2>3 DEF Loading
  <2>8. FreshMigration(m)'
    <3>1. /\ migration'[m].meta = entry.meta /\ migration'[m].target = t
          /\ migration'[m].spec = source.spec
      BY <2>5
    <3>2. migration'[m].is_new = is_new
      <4>1. \A a, b, c, d, e, f, g, h :
                [pc |-> a, target |-> b, version |-> c, meta |-> d, candidate |-> e,
                 spec |-> f, is_new |-> g, woken |-> h].is_new = g
        OBVIOUS
      <4>2. x.is_new = is_new
        BY <4>1, Zenon
      <4>3. QED
        BY <2>5, <4>2, Zenon
    <3>3. ~is_new => source.spec = slots[t].spec
      OBVIOUS
    <3>4. QED
      BY <2>1, <3>1, <3>2, <3>3, Zenon DEF FreshMigration
  <2>9. QED
    BY <2>1, <2>2, <2>6, <2>7, <2>8 DEF Agreement, FreshLocals, OneBusy
<1>3. QED
  BY <1>1, <1>2 DEF SerialInv

\* A migration that has written, or tried to, is over or waits for a drain.
LEMMA MigrationMovesOn ==
    ASSUME NEW m \in Migrations,
           (\E drain \in BOOLEAN : MigrationCommits(m, drain)) \/ MigrationNotPersisted(m)
    PROVE  \E y : y.pc # "validating" /\ migration' = [migration EXCEPT ![m] = y]
<1>1. IdleMigration.pc # "validating"
  BY DEF IdleMigration
<1>2. \A w, d : [IdleMigration EXCEPT !.pc = "draining", !.version = w, !.woken = d].pc
                   # "validating"
  BY DEF IdleMigration
<1>3. CASE MigrationNotPersisted(m)
  BY <1>1, <1>3 DEF MigrationNotPersisted, MigrationEnds
<1>4. CASE \E drain \in BOOLEAN : MigrationCommits(m, drain)
  <2>1. \/ migration' = [migration EXCEPT ![m] = IdleMigration]
        \/ \E w, d : migration' = [migration EXCEPT ![m] =
                [IdleMigration EXCEPT !.pc = "draining", !.version = w, !.woken = d]]
    BY <1>4 DEF MigrationCommits, MigrationEnds
  <2>2. QED
    BY <1>1, <1>2, <2>1
<1>5. QED
  BY <1>3, <1>4

\* A migration commits, or publishes in vain.
LEMMA MigrationWritesSerial ==
    ASSUME AdminInv, SerialInv, NEW m \in Migrations,
           (\E drain \in BOOLEAN : MigrationCommits(m, drain)) \/ MigrationNotPersisted(m)
    PROVE  SerialInv'
<1> DEFINE x == migration[m]
           t == x.target
           k == slots[t]
           g == Published(m)
<1>1. /\ Validating(m) /\ UNCHANGED <<load, disturbed>>
      /\ \E y : y.pc # "validating" /\ migration' = [migration EXCEPT ![m] = y]
  BY MigrationMovesOn DEF MigrationCommits, MigrationNotPersisted, Validating
<1>2. /\ t \in Versions /\ x.candidate \in Adapter /\ x.spec \in Maybe(Plugins)
      /\ x.candidate # None /\ k \in Slot /\ SlotMatches(k) /\ Unused(k)
      /\ slots \in [Versions -> Slot] /\ entry.meta \in Meta /\ entry.version \in Versions
  BY <1>1, AdapterAssumption
     DEF AdapterAssumption, Validating, AdminInv, LocalsInUse, TypeOK, Migration, Entry,
         DescriptorsMatch, SerialInv, AllUnused, Adapter
<1>3. ASSUME ~disturbed
      PROVE  /\ Agreement /\ x.meta = entry.meta
             /\ x.is_new <=> k.adapter = None
             /\ ~x.is_new => x.spec = k.spec
  BY <1>1, <1>3 DEF SerialInv, Undisturbed, FreshLocals, FreshMigration
<1>4. ASSUME ~disturbed => Agreement'
      PROVE  Undisturbed'
  <2>1. CASE disturbed
    BY <1>1, <2>1 DEF Undisturbed
  <2>2. CASE ~disturbed
    BY <1>1, <1>4, <2>2, MigrationAlone, SettledSerial DEF SerialInv
  <2>3. QED
    BY <2>1, <2>2
<1>5. CASE MigrationNotPersisted(m)
  <2> DEFINE h == IF x.is_new THEN Remove(g) ELSE k
  <2>1. slots' = [slots EXCEPT ![t] = h] /\ UNCHANGED entry
    BY <1>5 DEF MigrationNotPersisted, NotPersisted
  <2>2. x.is_new => g = Register(k, x.candidate, x.spec)
    BY DEF Published
  <2>3. AllUnused'
    BY <1>2, <2>1, <2>2, UnusedMethods, OneUnused DEF SerialInv
  <2>4. ASSUME ~disturbed
        PROVE  Agreement'
    <3>1. h.adapter = k.adapter /\ h.spec = k.spec
      BY <1>2, <1>3, <2>2, <2>4, TakenBack DEF Unused
    <3>2. \A w \in Versions : slots'[w].adapter = slots[w].adapter /\ slots'[w].spec = slots[w].spec
      BY <1>2, <2>1, <3>1
    <3>3. QED
      BY <1>2, <1>3, <2>1, <2>4, <3>2 DEF Agreement
  <2>5. QED
    BY <1>4, <2>3, <2>4 DEF SerialInv
<1>6. CASE \E drain \in BOOLEAN : MigrationCommits(m, drain)
  <2>1. /\ slots' = [slots EXCEPT ![t] = g]
        /\ entry' = [version |-> t, meta |-> MetaWithTarget(m)]
    BY <1>6 DEF MigrationCommits, Persisted
  <2>2. g = IF x.is_new THEN Register(k, x.candidate, x.spec) ELSE k
    BY DEF Published
  <2>3. AllUnused'
    BY <1>2, <2>1, <2>2, UnusedMethods, OneUnused DEF SerialInv
  <2>4. ASSUME ~disturbed
        PROVE  Agreement'
    <3>1. g.adapter # None /\ g.spec = x.spec
      BY <1>2, <1>3, <2>2, <2>4 DEF Register, Slot
    <3>2. x.spec = None => k.spec = None
      BY <1>2, <1>3, <2>4, AdapterAssumption DEF AdapterAssumption, SlotMatches, Describes
    <3>3. \A w \in Versions : MetaWithTarget(m)[w] = IF w = t THEN x.spec ELSE slots[w].spec
      BY <1>2, <1>3, <2>4, <3>2 DEF MetaWithTarget, Agreement, Meta
    <3>4. entry'.version = t /\ entry'.meta = MetaWithTarget(m)
      BY <2>1
    <3>5. QED
      BY <1>2, <2>1, <3>1, <3>3, <3>4 DEF Agreement
  <2>5. QED
    BY <1>4, <2>3, <2>4 DEF SerialInv
<1>7. QED
  BY <1>5, <1>6

LEMMA MigrationStopsSerial ==
    ASSUME AdminInv, SerialInv, NEW m \in Migrations,
           MigrationRejected(m) \/ Drained(m) \/ DrainTimesOut(m)
    PROVE  SerialInv'
<1>1. /\ migration' = [migration EXCEPT ![m] = IdleMigration]
      /\ IdleMigration.pc # "validating"
      /\ UNCHANGED <<entry, slots, load, disturbed>>
  BY DEF MigrationRejected, Drained, DrainTimesOut, MigrationEnds, IdleMigration
<1>2. \A n \in Migrations : Validating(n)' => migration'[n] = migration[n]
  BY <1>1 DEF Validating, AdminInv, TypeOK
<1>3. Undisturbed'
  BY <1>1, <1>2, QuietSerial DEF SerialInv
<1>4. QED
  BY <1>1, <1>3 DEF SerialInv, AllUnused

LEMMA UserSerial ==
    ASSUME AdminInv, SerialInv, NEW u \in Users, UserSteps(u)
    PROVE  SerialInv'
<1>1. UNCHANGED <<entry, load, disturbed>>
  BY DEF UserSteps, Lists, Enters, GivesUp, Exits
<1>2. CASE Lists(u) \/ GivesUp(u)
  <2>1. UNCHANGED <<slots, migration>>
    BY <1>2 DEF Lists, GivesUp
  <2>2. Undisturbed'
    BY <1>1, <2>1, QuietSerial DEF SerialInv
  <2>3. QED
    BY <2>1, <2>2 DEF SerialInv, AllUnused
<1>3. ASSUME NEW v \in Versions, NEW k, slots' = [slots EXCEPT ![v] = k], Unused(k),
             k.adapter = slots[v].adapter, k.spec = slots[v].spec,
             \A n \in Migrations : Validating(n)' => migration'[n] = migration[n]
      PROVE  SerialInv'
  <2>1. AllUnused'
    BY <1>3, OneUnused DEF SerialInv
  <2>2. \A w \in Versions : slots'[w].adapter = slots[w].adapter /\ slots'[w].spec = slots[w].spec
    BY <1>3 DEF AdminInv, TypeOK
  <2>3. Undisturbed'
    BY <1>1, <1>3, <2>2, QuietSerial DEF SerialInv
  <2>4. QED
    BY <2>1, <2>3 DEF SerialInv
<1>4. BuiltIn \in Adapter /\ None \in Maybe(Plugins)
  BY DEF Adapter, Maybe
<1>5. ASSUME NEW v \in Versions, Enters(u, v)
      PROVE  SerialInv'
  <2> DEFINE k == Acquire(slots[v])
  <2>1. /\ slots[v] \in Slot /\ Unused(slots[v]) /\ slots[v].adapter # None
        /\ slots' = [slots EXCEPT ![v] = k] /\ UNCHANGED migration
    BY <1>5 DEF Enters, AdminInv, TypeOK, SerialInv, AllUnused
  <2>2. Unused(k)
    BY <1>4, <2>1, UnusedMethods
  <2>3. k.adapter = slots[v].adapter /\ k.spec = slots[v].spec
    BY <2>1 DEF Acquire, Slot
  <2>4. QED
    BY <1>3, <2>1, <2>2, <2>3
<1>6. CASE Exits(u)
  <2> DEFINE v == user[u].version
             k == Release(slots[v])
  <2>1. /\ v \in Versions /\ slots[v] \in Slot /\ Unused(slots[v])
        /\ slots' = [slots EXCEPT ![v] = k]
    BY <1>6 DEF Exits, AdminInv, TypeOK, LocalsInUse, SerialInv, AllUnused
  <2>2. Unused(k)
    BY <1>4, <2>1, UnusedMethods
  <2>3. k.adapter = slots[v].adapter /\ k.spec = slots[v].spec
    BY <2>1 DEF Release, Slot
  <2>4. ASSUME NEW n \in Migrations, Validating(n)'
        PROVE  migration'[n] = migration[n]
    <3>1. \/ migration'[n] = migration[n]
          \/ /\ migration[n].pc = "draining"
             /\ migration'[n] = [migration[n] EXCEPT !.woken = TRUE]
      BY <1>6 DEF Exits, Wakes
    <3>2. migration[n] \in Migration
      BY DEF AdminInv, TypeOK
    <3>3. QED
      BY <2>4, <3>1, <3>2 DEF Validating, Migration
  <2>5. QED
    BY <1>3, <2>1, <2>2, <2>3, <2>4
<1>7. QED
  BY <1>2, <1>5, <1>6 DEF UserSteps

\* What is configured from an entry agrees with it, unless a plugin is lost.
LEMMA ConfigureAgrees ==
    ASSUME NEW e \in Entry, NEW lost
    PROVE  LET s == Configure(e, lost)
           IN  /\ \A v \in Versions : Unused(s[v])
               /\ (\A v \in Versions : e.meta[v] \notin lost) =>
                      /\ \A v \in Versions : e.meta[v] = s[v].spec
                      /\ s[e.version].adapter # None
<1> DEFINE s == Configure(e, lost)
<1>1. \A v \in Versions : Unused(s[v])
  BY ConfigureUnused DEF Unused
<1>2. ASSUME \A v \in Versions : e.meta[v] \notin lost, NEW v \in Versions
      PROVE  e.meta[v] = s[v].spec /\ (v = e.version => s[v].adapter # None)
  <2> DEFINE b == BuiltInSlot(e, v)
  <2>1. /\ b \in Slot /\ b.spec = None /\ (v = e.version => b.adapter # None)
    BY SlotsAtStart, AdapterAssumption
       DEF AdapterAssumption, BuiltInSlot, DefaultSlot, EmptySlot
  <2>2. e.meta[v] \in Plugins \cup {None} /\ None \notin Plugins
    BY AdapterAssumption DEF AdapterAssumption, Entry, Meta, Maybe
  <2>3. CASE e.meta[v] \in Plugins
    <3>1. s[v] = Register(b, e.meta[v], e.meta[v])
      BY <1>2, <2>3 DEF Configure
    <3>2. s[v].spec = e.meta[v] /\ s[v].adapter = e.meta[v]
      BY <2>1, <3>1 DEF Register, Slot
    <3>3. QED
      BY <2>2, <2>3, <3>2
  <2>4. CASE e.meta[v] \notin Plugins
    <3>1. s[v] = b
      BY <2>4 DEF Configure
    <3>2. QED
      BY <2>1, <2>2, <2>4, <3>1
  <2>5. QED
    BY <2>3, <2>4
<1>3. e.version \in Versions
  BY DEF Entry
<1>4. QED
  BY <1>1, <1>2, <1>3

LEMMA InitSerial == Init => SerialInv
<1> SUFFICES ASSUME Init PROVE SerialInv
  OBVIOUS
<1>1. AllUnused /\ Agreement
  BY EntryValues, ConfigureAgrees DEF Init, AllUnused, Agreement
<1>2. (\A l \in Loads : ~Loading(l)) /\ (\A m \in Migrations : ~Validating(m))
  BY DEF Init, Loading, Validating, IdleLoad, IdleMigration
<1>3. QED
  BY <1>1, <1>2 DEF SerialInv, Undisturbed, FreshLocals, OneBusy

LEMMA RestartSerial ==
    ASSUME AdminInv, NEW saved \in BOOLEAN, NEW lost, Restart(saved, lost)
    PROVE  SerialInv'
<1> DEFINE e == Loaded(IF saved THEN entry ELSE disk)
<1>1. e \in Entry
  BY EntryValues DEF AdminInv, TypeOK, Maybe
<1>2. /\ entry' = e /\ slots' = Configure(e, lost)
      /\ disturbed' = (\E v \in Versions : e.meta[v] \in lost)
  BY DEF Restart
<1>3. AllUnused'
  BY <1>1, <1>2, ConfigureAgrees DEF AllUnused
<1>4. ASSUME ~disturbed'
      PROVE  Agreement'
  <2>1. \A v \in Versions : e.meta[v] \notin lost
    BY <1>2, <1>4, Zenon
  <2>2. QED
    BY <1>1, <1>2, <2>1, ConfigureAgrees DEF Agreement
<1>5. (\A l \in Loads : ~Loading(l)') /\ (\A m \in Migrations : ~Validating(m)')
  BY DEF Restart, Loading, Validating, IdleLoad, IdleMigration
<1>6. Undisturbed'
  <2>1. CASE disturbed'
    BY <2>1 DEF Undisturbed
  <2>2. CASE ~disturbed'
    BY <1>4, <1>5, <2>2, SettledSerial
  <2>3. QED
    BY <2>1, <2>2
<1>7. QED
  BY <1>3, <1>6 DEF SerialInv

LEMMA NextSerial ==
    ASSUME AdminInv, SerialInv, [Next]_vars
    PROVE  SerialInv'
<1>1. CASE UNCHANGED vars
  BY <1>1 DEF vars, SerialInv, AllUnused, Undisturbed, Agreement, FreshLocals, FreshLoad,
              FreshMigration, OneBusy, Loading, Validating
<1>2. ASSUME NEW l \in Loads, LoadSteps(l)
      PROVE  SerialInv'
  BY <1>2, LoadBeginsSerial, LoadEndsSerial DEF LoadSteps
<1>3. ASSUME NEW m \in Migrations, MigrationSteps(m)
      PROVE  SerialInv'
  BY <1>3, MigrationBeginsSerial, MigrationWritesSerial, MigrationStopsSerial
     DEF MigrationSteps
<1>4. CASE Next
  BY <1>2, <1>3, <1>4, UserSerial, RollBackSerial, RestartSerial DEF Next
<1>5. QED
  BY <1>1, <1>4

\* After handlers that ran one at a time, a restart brings back the adapter of
\* the active version and every plugin in service, whatever failed to be
\* written and was taken back (plugin_loader.py:67-127).
THEOREM RestartIsFaithful == Spec => []SerialRestartIsFaithful
<1>1. Init => SerialInv
  BY InitSerial
<1>2. AdminInv /\ SerialInv /\ [Next]_vars => SerialInv'
  BY NextSerial
<1>3. AdminInv /\ SerialInv => SerialRestartIsFaithful
  BY AgreementIsFaithful
<1>4. QED
  BY <1>1, <1>2, <1>3, AdminInvariant, PTL DEF Spec

-----------------------------------------------------------------------------
(* SerialRoutesServed: a version that migrates away keeps its adapter, the  *)
(* target of a migration that may remove its adapter again is one that      *)
(* nobody was routed to, and a load alone takes back what it added.         *)

Served(v) == slots[v].adapter # None
Listed(v) == \E u \in Users : user[u].pc = "listed" /\ user[u].version = v

FitTarget(m) ==
    /\ migration[m].target # migration[m].version
    /\ migration[m].is_new => ~Listed(migration[m].target)
    /\ ~migration[m].is_new => Served(migration[m].target)

ServedInv ==
    /\ Served(entry.version)
    /\ \A v \in Versions : Listed(v) => Served(v)
    /\ \A m \in Migrations : Validating(m) => FitTarget(m)

SerialServed == ~disturbed => ServedInv

LEMMA ServedIsRouted ==
    ASSUME AdminInv, SerialServed
    PROVE  SerialRoutesServed
  BY DEF AdminInv, LocalsInUse, SerialServed, ServedInv, Served, Listed,
         SerialRoutesServed, RoutedVersions

\* A step that takes no adapter away and lists nobody.
LEMMA KeptServed ==
    ASSUME AdminInv, ServedInv, entry'.version = entry.version,
           \A v \in Versions : Served(v) => Served(v)',
           \A v \in Versions : Listed(v)' => Listed(v),
           \A m \in Migrations : Validating(m)' => migration'[m] = migration[m]
    PROVE  ServedInv'
<1>1. entry.version \in Versions
  BY DEF AdminInv, TypeOK, Entry
<1>2. ASSUME NEW m \in Migrations, Validating(m)'
      PROVE  FitTarget(m)'
  <2>1. migration'[m] = migration[m] /\ Validating(m) /\ FitTarget(m)
    BY <1>2 DEF Validating, ServedInv
  <2>2. migration[m].target \in Versions
    BY <2>1 DEF Validating, AdminInv, LocalsInUse
  <2>3. Listed(migration[m].target)' => Listed(migration[m].target)
    <3>1. ASSUME NEW w \in Versions, w = migration[m].target
          PROVE  Listed(w)' => Listed(w)
      OBVIOUS
    <3>2. QED
      BY <2>1, <2>2, <3>1 DEF Listed
  <2>4. Served(migration[m].target) => Served(migration[m].target)'
    BY <2>1, <2>2 DEF Served
  <2>5. QED
    BY <2>1, <2>3, <2>4 DEF FitTarget, Listed, Served
<1>3. Served(entry.version)'
  BY <1>1 DEF ServedInv, Served
<1>4. QED
  BY <1>2, <1>3 DEF ServedInv

\* The slot of one version changes, and is not left without an adapter.
LEMMA OneServed ==
    ASSUME AdminInv, NEW v \in Versions, NEW k, k.adapter # None \/ slots[v].adapter = None,
           slots' = [slots EXCEPT ![v] = k]
    PROVE  \A w \in Versions : Served(w) => Served(w)'
  BY DEF AdminInv, TypeOK, Served

LEMMA RollBackServed ==
    ASSUME AdminInv, ServedInv, NEW v \in Versions, RollsBack(v)
    PROVE  ServedInv'
<1>1. /\ slots' = [slots EXCEPT ![v] = RollBack(slots[v])] /\ slots[v] \in Slot
      /\ RollBack(slots[v]).adapter # None /\ UNCHANGED <<user, migration>>
  BY DEF RollsBack, RollBack, CanRollBack, AdminInv, TypeOK, Slot
<1>2. entry'.version = entry.version
  BY DEF RollsBack, Persisted, NotPersisted, AdminInv, TypeOK, Entry
<1>3. QED
  BY <1>1, <1>2, OneServed, KeptServed DEF Listed

LEMMA MigrationServed ==
    ASSUME AdminInv, ServedInv, NEW m \in Migrations, MigrationSteps(m)
    PROVE  ServedInv'
<1> DEFINE x == migration[m]
           t == x.target
<1>1. CASE MigrationRejected(m) \/ Drained(m) \/ DrainTimesOut(m)
  <2>1. /\ migration' = [migration EXCEPT ![m] = IdleMigration]
        /\ IdleMigration.pc # "validating" /\ UNCHANGED <<entry, slots, user>>
    BY <1>1 DEF MigrationRejected, Drained, DrainTimesOut, MigrationEnds, IdleMigration
  <2>2. \A n \in Migrations : Validating(n)' => migration'[n] = migration[n]
    BY <2>1 DEF Validating, AdminInv, TypeOK
  <2>3. QED
    BY <2>1, <2>2, KeptServed DEF Served, Listed
<1>2. ASSUME NEW w \in Versions, MigrationBegins(m, w)
      PROVE  ServedInv'
  <2> DEFINE y == migration'[m]
  <2>1. UNCHANGED <<entry, slots, user>> /\ w # entry.version
    BY <1>2 DEF MigrationBegins
  <2>2. /\ y.target = w /\ y.version = entry.version
        /\ y.is_new = (slots[w].adapter = None)
    <3>1. \A a, b, c, d, e, f, g, h :
              [pc |-> a, target |-> b, version |-> c, meta |-> d, candidate |-> e,
               spec |-> f, is_new |-> g, woken |-> h].is_new = g
      OBVIOUS
    <3>2. PICK a, d, e, f, h : y =
              [pc |-> a, target |-> w, version |-> entry.version, meta |-> d, candidate |-> e,
               spec |-> f, is_new |-> slots[w].adapter = None, woken |-> h]
      BY <1>2 DEF MigrationBegins, AdminInv, TypeOK
    <3>3. y.target = w /\ y.version = entry.version
      BY <3>2
    <3>4. y.is_new = (slots[w].adapter = None)
      <4>1. [pc |-> a, target |-> w, version |-> entry.version, meta |-> d, candidate |-> e,
             spec |-> f, is_new |-> slots[w].adapter = None, woken |-> h].is_new
                = (slots[w].adapter = None)
        BY <3>1, Zenon
      <4>2. QED
        BY <3>2, <4>1, Zenon
    <3>5. QED
      BY <3>3, <3>4
  <2>3. ~(slots[w].adapter = None) <=> Served(w)
    BY DEF Served
  <2>4. FitTarget(m)'
    <3>1. Listed(w)' = Listed(w) /\ (Listed(w) => Served(w)) /\ Served(w)' = Served(w)
      BY <2>1 DEF Listed, ServedInv, Served
    <3>2. ASSUME NEW z, z = w
          PROVE  Listed(z)' = Listed(w)' /\ Served(z)' = Served(w)'
      BY <3>2
    <3>3. y.is_new => ~Listed(w)'
      BY <2>2, <2>3, <3>1, Zenon
    <3>4. ~y.is_new => Served(w)'
      BY <2>2, <2>3, <3>1, Zenon
    <3>5. y.target # y.version
      BY <2>1, <2>2
    <3>6. QED
      BY <2>2, <3>3, <3>4, <3>5 DEF FitTarget, Listed, Served
  <2>5. \A n \in Migrations : Validating(n)' => n = m
    <3>1. \A n \in Migrations : migration[n].pc = "idle"
      BY <1>2, NobodyAssumption
         DEF NobodyAssumption, MigrationBegins, TakeLock, AdminInv, LocalsInUse
    <3>2. \A n \in Migrations \ {m} : migration'[n] = migration[n]
      BY <1>2 DEF MigrationBegins, AdminInv, TypeOK
    <3>3. QED
      BY <3>1, <3>2 DEF Validating
  <2>6. QED
    BY <2>1, <2>4, <2>5 DEF ServedInv, Served, Listed
<1>3. CASE MigrationNotPersisted(m) \/ \E drain \in BOOLEAN : MigrationCommits(m, drain)
  <2>1. Validating(m) /\ FitTarget(m) /\ x.version = entry.version /\ UNCHANGED user
    BY <1>3 DEF MigrationNotPersisted, MigrationCommits, Validating, ServedInv, AdminInv,
                MigrationReplacesWhatItRead
  <2>2. /\ t \in Versions /\ x.candidate # None /\ slots \in [Versions -> Slot]
        /\ entry.version \in Versions /\ t # entry.version
    BY <2>1, AdapterAssumption
       DEF AdapterAssumption, Validating, AdminInv, LocalsInUse, TypeOK, Entry, Adapter,
           FitTarget
  <2>3. \A n \in Migrations : ~Validating(n)'
    <3>1. \A n \in Migrations \ {m} : ~Validating(n) /\ migration'[n] = migration[n]
      BY <1>3, <2>1, OneMigration
         DEF Validating, MigrationNotPersisted, MigrationCommits, MigrationEnds, AdminInv,
             TypeOK
    <3>2. ~Validating(m)'
      BY <1>3, MigrationMovesOn DEF Validating, AdminInv, TypeOK
    <3>3. QED
      BY <3>1, <3>2 DEF Validating
  <2>4. CASE MigrationNotPersisted(m)
    <3>1. /\ slots' = [slots EXCEPT ![t] = IF x.is_new THEN Remove(Published(m)) ELSE slots[t]]
          /\ UNCHANGED entry
      BY <2>4 DEF MigrationNotPersisted, NotPersisted
    <3>2. \A w \in Versions \ {t} : slots'[w] = slots[w]
      BY <2>2, <3>1
    <3>3. Listed(t) => slots'[t] = slots[t]
      BY <2>1, <2>2, <3>1 DEF FitTarget
    <3>4. \A w \in Versions : Listed(w)' <=> Listed(w)
      BY <2>1 DEF Listed
    <3>5. \A w \in Versions : Listed(w)' => Served(w)'
      BY <3>2, <3>3, <3>4 DEF ServedInv, Served
    <3>6. Served(entry.version)'
      BY <2>2, <3>1, <3>2 DEF ServedInv, Served
    <3>7. QED
      BY <2>3, <3>5, <3>6 DEF ServedInv
  <2>5. CASE \E drain \in BOOLEAN : MigrationCommits(m, drain)
    <3>1. slots' = [slots EXCEPT ![t] = Published(m)] /\ entry'.version = t
      BY <2>5 DEF MigrationCommits, Persisted
    <3>2. Published(m).adapter # None
      BY <2>1, <2>2 DEF Published, Register, Slot, FitTarget, Served
    <3>3. \A w \in Versions : Served(w) => Served(w)'
      BY <2>2, <3>1, <3>2, OneServed
    <3>4. \A w \in Versions : Listed(w)' <=> Listed(w)
      BY <2>1 DEF Listed
    <3>5. Served(entry.version)'
      BY <2>2, <3>1, <3>2 DEF Served
    <3>6. QED
      BY <2>3, <3>3, <3>4, <3>5 DEF ServedInv
  <2>6. QED
    BY <1>3, <2>4, <2>5
<1>4. QED
  BY <1>1, <1>2, <1>3 DEF MigrationSteps

\* A user's step takes no adapter away, and lists the active version at most.
LEMMA UserServed ==
    ASSUME AdminInv, ServedInv, NEW u \in Users, UserSteps(u)
    PROVE  ServedInv'
<1>1. CASE Lists(u)
  <2>1. /\ UNCHANGED <<entry, slots, migration>>
        /\ user' = [user EXCEPT ![u] = [pc |-> "listed", version |-> entry.version]]
    BY <1>1 DEF Lists
  <2>2. \A v \in Versions : Listed(v)' => Listed(v) \/ v = entry.version
    BY <2>1 DEF Listed, AdminInv, TypeOK
  <2>3. ASSUME NEW m \in Migrations, Validating(m)'
        PROVE  FitTarget(m)'
    <3>1. Validating(m) /\ FitTarget(m) /\ migration[m].target \in Versions
      BY <2>1, <2>3 DEF Validating, ServedInv, AdminInv, LocalsInUse
    <3>2. migration[m].target # entry.version
      BY <3>1 DEF Validating, FitTarget, AdminInv, MigrationReplacesWhatItRead
    <3>3. ASSUME NEW w \in Versions, w = migration[m].target
          PROVE  (Listed(w)' => Listed(w)) /\ (Served(w) => Served(w)')
      BY <2>1, <2>2, <3>2, <3>3 DEF Served
    <3>4. QED
      BY <2>1, <3>1, <3>3 DEF FitTarget, Listed, Served
  <2>4. QED
    BY <2>1, <2>2, <2>3 DEF ServedInv, Served
<1>2. ASSUME \A v \in Versions : Served(v) => Served(v)', UNCHANGED entry,
             \E w \in User : w.pc # "listed" /\ user' = [user EXCEPT ![u] = w],
             \A m \in Migrations : Validating(m)' => migration'[m] = migration[m]
      PROVE  ServedInv'
  <2>1. \A v \in Versions : Listed(v)' => Listed(v)
    BY <1>2 DEF Listed, AdminInv, TypeOK
  <2>2. QED
    BY <1>2, <2>1, KeptServed
<1>3. IdleUser \in User /\ IdleUser.pc # "listed"
  BY IdleValues DEF IdleUser
<1>4. CASE GivesUp(u)
  BY <1>2, <1>3, <1>4 DEF GivesUp, Served, Validating
<1>5. ASSUME NEW v \in Versions, Enters(u, v)
      PROVE  ServedInv'
  <2> DEFINE w == [pc |-> "inside", version |-> v]
  <2>1. w \in User /\ w.pc # "listed" /\ user' = [user EXCEPT ![u] = w]
    BY <1>5 DEF Enters, User, Maybe
  <2>2. /\ slots[v] \in Slot /\ UNCHANGED <<entry, migration>>
        /\ slots' = [slots EXCEPT ![v] = Acquire(slots[v])]
    BY <1>5 DEF Enters, AdminInv, TypeOK
  <2>3. Acquire(slots[v]).adapter = slots[v].adapter
    BY <2>2 DEF Acquire, Slot
  <2>4. \A x \in Versions : Served(x) => Served(x)'
    BY <2>2, <2>3, OneServed
  <2>5. QED
    BY <1>2, <2>1, <2>2, <2>4 DEF Validating
<1>6. CASE Exits(u)
  <2> DEFINE v == user[u].version
  <2>1. /\ v \in Versions /\ slots[v] \in Slot /\ UNCHANGED entry
        /\ slots' = [slots EXCEPT ![v] = Release(slots[v])]
        /\ user' = [user EXCEPT ![u] = IdleUser]
    BY <1>6 DEF Exits, AdminInv, TypeOK, LocalsInUse
  <2>2. Release(slots[v]).adapter = slots[v].adapter
    BY <2>1 DEF Release, Slot
  <2>3. \A x \in Versions : Served(x) => Served(x)'
    BY <2>1, <2>2, OneServed
  <2>4. ASSUME NEW m \in Migrations, Validating(m)'
        PROVE  migration'[m] = migration[m]
    <3>1. \/ migration'[m] = migration[m]
          \/ /\ migration[m].pc = "draining"
             /\ migration'[m] = [migration[m] EXCEPT !.woken = TRUE]
      BY <1>6 DEF Exits, Wakes
    <3>2. migration[m] \in Migration
      BY DEF AdminInv, TypeOK
    <3>3. QED
      BY <2>4, <3>1, <3>2 DEF Validating, Migration
  <2>5. QED
    BY <1>2, <1>3, <2>1, <2>3, <2>4
<1>7. QED
  BY <1>1, <1>4, <1>5, <1>6 DEF UserSteps

\* The active version gets an adapter from every start, whichever plugins are
\* lost.
LEMMA ConfigureServes ==
    ASSUME NEW e \in Entry, NEW lost
    PROVE  Configure(e, lost)[e.version].adapter # None
<1> DEFINE v == e.version
           b == BuiltInSlot(e, v)
<1>1. v \in Versions /\ b \in Slot /\ b.adapter # None
  BY SlotsAtStart, AdapterAssumption
     DEF AdapterAssumption, BuiltInSlot, DefaultSlot, EmptySlot, Entry
<1>2. CASE e.meta[v] \in Plugins \ lost
  <2>1. Configure(e, lost)[v] = Register(b, e.meta[v], e.meta[v])
    BY <1>1, <1>2 DEF Configure
  <2>2. e.meta[v] # None
    BY <1>2, AdapterAssumption DEF AdapterAssumption
  <2>3. QED
    BY <1>1, <2>1, <2>2 DEF Register, Slot
<1>3. CASE e.meta[v] \notin Plugins \ lost
  BY <1>1, <1>3 DEF Configure
<1>4. QED
  BY <1>2, <1>3

LEMMA StartedServed ==
    ASSUME NEW e \in Entry, NEW lost, entry = e, slots = Configure(e, lost),
           user = [u \in Users |-> IdleUser],
           migration = [m \in Migrations |-> IdleMigration]
    PROVE  ServedInv
<1>1. Served(entry.version)
  BY ConfigureServes DEF Served
<1>2. \A v \in Versions : ~Listed(v)
  BY DEF Listed, IdleUser
<1>3. \A m \in Migrations : ~Validating(m)
  BY DEF Validating, IdleMigration
<1>4. QED
  BY <1>1, <1>2, <1>3 DEF ServedInv

LEMMA RestartServed ==
    ASSUME AdminInv, NEW saved \in BOOLEAN, NEW lost, Restart(saved, lost)
    PROVE  ServedInv'
<1> DEFINE e == Loaded(IF saved THEN entry ELSE disk)
<1>1. e \in Entry /\ entry' = e /\ slots' = Configure(e, lost)
  BY EntryValues DEF AdminInv, TypeOK, Maybe, Restart
<1>2. Served(entry.version)'
  BY <1>1, ConfigureServes DEF Served
<1>3. \A v \in Versions : ~Listed(v)'
  BY DEF Restart, Listed, IdleUser
<1>4. \A m \in Migrations : ~Validating(m)'
  BY DEF Restart, Validating, IdleMigration
<1>5. QED
  BY <1>2, <1>3, <1>4 DEF ServedInv

\* A load takes an adapter away only if it cannot be saved and found none when
\* it began; alone, it finds none when it ends either.
LEMMA LoadServed ==
    ASSUME AdminInv, SerialInv, ServedInv, ~disturbed, ~disturbed',
           NEW l \in Loads, LoadSteps(l)
    PROVE  ServedInv'
<1> DEFINE v == load[l].version
           p == load[l].plugin
           k == Register(slots[v], p, p)
<1>1. UNCHANGED <<user, migration>> /\ entry'.version = entry.version
  BY DEF LoadSteps, LoadBegins, LoadRejected, LoadCommits, LoadNotPersisted, LoadEnds,
         Persisted, NotPersisted, AdminInv, TypeOK, Entry
<1>2. ASSUME \A w \in Versions : Served(w) => Served(w)'
      PROVE  ServedInv'
  BY <1>1, <1>2, KeptServed DEF Listed, Validating
<1>3. ASSUME LoadEnds(l)
      PROVE  /\ v \in Versions /\ slots[v] \in Slot /\ SlotMatches(slots[v])
             /\ p \in Adapter /\ p \in Maybe(Plugins) /\ k.adapter # None
  <2>1. v \in Versions /\ p \in Plugins
    BY <1>3 DEF LoadEnds, AdminInv, LocalsInUse
  <2>2. p \in Adapter /\ p \in Maybe(Plugins) /\ p # None
    BY <2>1, AdapterAssumption DEF AdapterAssumption, Adapter, Maybe
  <2>3. slots[v] \in Slot /\ SlotMatches(slots[v])
    BY <2>1 DEF AdminInv, TypeOK, DescriptorsMatch
  <2>4. k.adapter = p
    BY <2>3 DEF Register, Slot
  <2>5. QED
    BY <2>1, <2>2, <2>3, <2>4
<1>4. CASE (\E w \in Versions, q \in Plugins : LoadBegins(l, w, q)) \/ LoadRejected(l)
  BY <1>2, <1>4 DEF LoadBegins, LoadRejected, Served
<1>5. CASE LoadCommits(l)
  <2>1. LoadEnds(l) /\ slots' = [slots EXCEPT ![v] = k]
    BY <1>5 DEF LoadCommits
  <2>2. QED
    BY <1>2, <1>3, <2>1, OneServed
<1>6. CASE LoadNotPersisted(l)
  <2> DEFINE g == IF load[l].had_previous THEN RollBack(k) ELSE Remove(k)
  <2>1. LoadEnds(l) /\ slots' = [slots EXCEPT ![v] = g] /\ ~(slots[v].in_flight > 0)
    BY <1>6 DEF LoadNotPersisted
  <2>2. slots[v].in_flight = 0
    BY <1>3, <2>1 DEF Slot
  <2>3. load[l].had_previous <=> slots[v].adapter # None
    BY <2>1 DEF SerialInv, Undisturbed, FreshLocals, FreshLoad, Loading, LoadEnds
  <2>4. g.adapter = slots[v].adapter
    BY <1>3, <2>1, <2>2, <2>3, TakenBack
  <2>5. QED
    BY <1>2, <1>3, <2>1, <2>4, OneServed
<1>7. QED
  BY <1>4, <1>5, <1>6 DEF LoadSteps

\* Once handlers have met they have, until the gateway starts anew.
LEMMA DisturbedStays ==
    ASSUME [Next]_vars, ~disturbed'
    PROVE  \/ ~disturbed
           \/ \E saved \in BOOLEAN, lost \in SUBSET Unloadable : Restart(saved, lost)
  BY DEF Next, vars, LoadSteps, LoadBegins, LoadRejected, LoadCommits, LoadNotPersisted,
         MigrationSteps, MigrationBegins, MigrationRejected, MigrationCommits,
         MigrationNotPersisted, Drained, DrainTimesOut, UserSteps, Lists, Enters, GivesUp,
         Exits, RollsBack, NoteOverlap

LEMMA NextServed ==
    ASSUME AdminInv, SerialInv, SerialServed, [Next]_vars
    PROVE  SerialServed'
<1> SUFFICES ASSUME ~disturbed' PROVE ServedInv'
  BY DEF SerialServed
<1>1. CASE \E saved \in BOOLEAN, lost \in SUBSET Unloadable : Restart(saved, lost)
  BY <1>1, RestartServed
<1>2. CASE ~disturbed
  <2>1. ServedInv
    BY <1>2 DEF SerialServed
  <2>2. CASE UNCHANGED vars
    BY <2>1, <2>2, KeptServed DEF vars, Served, Listed
  <2>3. CASE Next
    BY <1>1, <1>2, <2>1, <2>3, LoadServed, MigrationServed, UserServed, RollBackServed
       DEF Next
  <2>4. QED
    BY <2>2, <2>3
<1>3. QED
  BY <1>1, <1>2, DisturbedStays

\* As long as handlers run one at a time, there is always an adapter for the
\* active version and for every version a request was routed to before a
\* migration, whatever could not be written and was taken back
\* (migration_api.py:171-180, 251-255; plugin_loader.py:147).
THEOREM RoutedAreServed == Spec => []SerialRoutesServed
<1>1. Init => SerialInv /\ SerialServed
  BY EntryValues, StartedServed, InitSerial DEF Init, SerialServed
<1>2. AdminInv /\ SerialInv /\ [Next]_vars => SerialInv'
  BY NextSerial
<1>3. AdminInv /\ SerialInv /\ SerialServed /\ [Next]_vars => SerialServed'
  BY NextServed
<1>4. AdminInv /\ SerialServed => SerialRoutesServed
  BY ServedIsRouted
<1>5. QED
  BY <1>1, <1>2, <1>3, <1>4, AdminInvariant, PTL DEF Spec

-----------------------------------------------------------------------------
(* The version switch.  What it needs beside AdminInv and DrainInv is that  *)
(* the lock is held for a migration under way, and that only a wait for a   *)
(* drain has somebody to wait for and can be woken.                         *)

Waiting(m) ==
    IF migration[m].pc = "draining" THEN migration[m].target = None
    ELSE migration[m].woken = FALSE /\ waits[m] = {}

HolderInv ==
    /\ \A m \in Migrations : lock = m => migration[m].pc # "idle"
    /\ \A m \in Migrations : Waiting(m)

LEMMA HolderAtStart ==
    /\ Init => HolderInv
    /\ \A saved \in BOOLEAN : \A lost : Restart(saved, lost) => HolderInv'
<1>1. None \notin Migrations /\ IdleMigration.pc = "idle" /\ IdleMigration.woken = FALSE
  BY NobodyAssumption DEF NobodyAssumption, IdleMigration
<1>2. Init => HolderInv
  BY <1>1 DEF Init, HolderInv, Waiting
<1>3. ASSUME NEW saved, NEW lost, Restart(saved, lost)
      PROVE  HolderInv'
  BY <1>1, <1>3 DEF Restart, HolderInv, Waiting
<1>4. QED
  BY <1>2, <1>3

LEMMA SameHolder ==
    ASSUME HolderInv, UNCHANGED <<lock, migration, waits>>
    PROVE  HolderInv'
  BY DEF HolderInv, Waiting

\* What a migration's steps do to the locals of the migrations.
LEMMA MigrationMoves ==
    ASSUME AdminInv, NEW m \in Migrations, MigrationSteps(m)
    PROVE  \/ /\ \E t \in Versions : MigrationBegins(m, t)
              /\ lock = None /\ lock' = m /\ UNCHANGED waits
              /\ migration[m].pc = "idle"
              /\ migration'[m].pc = "validating" /\ migration'[m].woken = FALSE
           \/ /\ MigrationEnds(m) /\ lock = m /\ lock' = None
              /\ migration'[m] = IdleMigration /\ waits'[m] = {}
           \/ /\ MigrationCommits(m, TRUE) /\ lock = m /\ lock' = m
              /\ migration[m].pc = "validating"
              /\ migration'[m].pc = "draining" /\ migration'[m].target = None
              /\ migration'[m].version = migration[m].version
              /\ migration'[m].woken = slots[migration[m].version].drained
              /\ waits'[m] = Inside(migration[m].version)
              /\ slots[migration[m].version].in_flight > 0
<1> DEFINE x == migration[m]
<1>1. migration[m].pc # "idle" => lock = m
  BY DEF AdminInv, LocalsInUse
<1>2. ASSUME NEW t \in Versions, MigrationBegins(m, t)
      PROVE  /\ lock = None /\ lock' = m /\ UNCHANGED waits
             /\ migration[m].pc = "idle"
             /\ migration'[m].pc = "validating" /\ migration'[m].woken = FALSE
  BY <1>2 DEF MigrationBegins, TakeLock, AdminInv, TypeOK
<1>3. ASSUME MigrationEnds(m)
      PROVE  lock' = None /\ migration'[m] = IdleMigration /\ waits'[m] = {}
  BY <1>3 DEF MigrationEnds, AdminInv, TypeOK
<1>4. ASSUME NEW drain \in BOOLEAN, MigrationCommits(m, drain), ~MigrationEnds(m)
      PROVE  /\ MigrationCommits(m, TRUE) /\ lock' = lock /\ x.pc = "validating"
             /\ migration'[m].pc = "draining" /\ migration'[m].target = None
             /\ migration'[m].version = x.version
             /\ migration'[m].woken = slots[x.version].drained
             /\ waits'[m] = Inside(x.version)
             /\ slots[x.version].in_flight > 0
  <2>1. drain = TRUE /\ slots[x.version].in_flight > 0
    BY <1>4 DEF MigrationCommits
  <2>2. /\ x.pc = "validating" /\ lock' = lock
        /\ migration' = [migration EXCEPT ![m] =
              [IdleMigration EXCEPT !.pc = "draining", !.version = x.version,
                                    !.woken = slots[x.version].drained]]
        /\ waits' = [waits EXCEPT ![m] = Inside(x.version)]
    BY <1>4 DEF MigrationCommits
  <2>3. QED
    BY <1>4, <2>1, <2>2 DEF AdminInv, TypeOK, IdleMigration
<1>5. QED
  BY <1>1, <1>2, <1>3, <1>4
     DEF MigrationSteps, MigrationRejected, MigrationCommits, MigrationNotPersisted,
         Drained, DrainTimesOut

\* And to those of the others: nothing.
LEMMA MigrationSpares ==
    ASSUME AdminInv, NEW m \in Migrations, MigrationSteps(m), NEW n \in Migrations \ {m}
    PROVE  migration'[n] = migration[n] /\ waits'[n] = waits[n]
  BY DEF MigrationSteps, MigrationBegins, MigrationRejected, MigrationCommits,
         MigrationNotPersisted, Drained, DrainTimesOut, MigrationEnds, AdminInv, TypeOK

LEMMA MigrationHolder ==
    ASSUME AdminInv, HolderInv, NEW m \in Migrations, MigrationSteps(m)
    PROVE  HolderInv'
<1>1. \A n \in Migrations \ {m} : Waiting(n)'
  BY MigrationSpares DEF HolderInv, Waiting
<1>2. Waiting(m)'
  <2>1. Waiting(m)
    BY DEF HolderInv
  <2>2. IdleMigration.pc = "idle" /\ IdleMigration.woken = FALSE
    BY DEF IdleMigration
  <2>3. QED
    BY <2>1, <2>2, MigrationMoves DEF Waiting
<1>3. \A n \in Migrations : lock' = n => migration'[n].pc # "idle"
  BY MigrationMoves, NobodyAssumption DEF NobodyAssumption
<1>4. QED
  BY <1>1, <1>2, <1>3 DEF HolderInv

\* A request that leaves may wake a migration, and changes nothing else of it.
LEMMA ExitsWakes ==
    ASSUME AdminInv, NEW u \in Users, Exits(u), NEW m \in Migrations
    PROVE  /\ migration'[m].pc = migration[m].pc
           /\ migration'[m].version = migration[m].version
           /\ migration'[m].target = migration[m].target
           /\ \/ migration'[m].woken = migration[m].woken
              \/ migration[m].pc = "draining" /\ migration'[m].woken = TRUE
           /\ waits'[m] = waits[m] \ {u}
<1> DEFINE x == [migration[m] EXCEPT !.woken = TRUE]
<1>1. /\ x.pc = migration[m].pc /\ x.version = migration[m].version
      /\ x.target = migration[m].target /\ x.woken = TRUE
  BY DEF AdminInv, TypeOK, Migration
<1>2. \/ migration'[m] = migration[m]
      \/ migration[m].pc = "draining" /\ migration'[m] = x
  BY DEF Exits, Wakes
<1>3. waits'[m] = waits[m] \ {u}
  BY DEF Exits
<1>4. QED
  BY <1>1, <1>2, <1>3

LEMMA NextHolder ==
    ASSUME AdminInv, HolderInv, [Next]_vars
    PROVE  HolderInv'
<1>1. ASSUME NEW l \in Loads, LoadSteps(l)
      PROVE  HolderInv'
  BY <1>1, SameHolder
     DEF LoadSteps, LoadBegins, LoadRejected, LoadCommits, LoadNotPersisted, LoadEnds
<1>2. ASSUME NEW u \in Users, UserSteps(u)
      PROVE  HolderInv'
  <2>1. CASE Exits(u)
    <3>1. UNCHANGED lock
      BY <2>1 DEF Exits
    <3>2. ASSUME NEW m \in Migrations
          PROVE  Waiting(m)' /\ migration'[m].pc = migration[m].pc
      <4>1. Waiting(m)
        BY DEF HolderInv
      <4>2. QED
        BY <2>1, <4>1, ExitsWakes DEF Waiting
    <3>3. QED
      BY <3>1, <3>2 DEF HolderInv
  <2>2. CASE ~Exits(u)
    BY <1>2, <2>2, SameHolder DEF UserSteps, Lists, Enters, GivesUp
  <2>3. QED
    BY <2>1, <2>2
<1>3. ASSUME NEW v \in Versions, RollsBack(v)
      PROVE  HolderInv'
  BY <1>3, SameHolder DEF RollsBack
<1>4. CASE UNCHANGED vars
  BY <1>4, SameHolder DEF vars
<1>5. QED
  BY <1>1, <1>2, <1>3, <1>4, MigrationHolder, HolderAtStart DEF Next

\* What VersionSwitch sees of the migrations and of the requests.
Waited == IF lock = None THEN {} ELSE waits[lock]
Place == [u \in Users |-> IF user[u].pc = "inside" THEN user[u].version ELSE None]

View ==
    /\ lock = None => /\ Current = IdleMigration /\ Stage = "none" /\ Waited = {}
                      /\ Current.version = None /\ Current.target = None
    /\ \A m \in Migrations : lock = m =>
          /\ Current = migration[m] /\ Waited = waits[m]
          /\ migration[m].pc = "validating" => Stage = "accepted"
          /\ migration[m].pc = "draining" /\ migration[m].woken = TRUE => Stage = "drained"
          /\ migration[m].pc = "draining" /\ migration[m].woken = FALSE => Stage = "switched"

LEMMA ViewHolds == View
<1>1. None \notin Migrations
  BY NobodyAssumption DEF NobodyAssumption
<1>2. /\ IdleMigration.pc = "idle" /\ IdleMigration.version = None
      /\ IdleMigration.target = None
  BY DEF IdleMigration
<1>3. CASE lock = None
  <2>1. Current = IdleMigration
    BY <1>3 DEF Current
  <2>2. Stage = "none"
    BY <1>2, <2>1 DEF Stage
  <2>3. QED
    BY <1>1, <1>2, <1>3, <2>1, <2>2 DEF View, Waited
<1>4. ASSUME NEW m \in Migrations, lock = m
      PROVE  View
  <2>1. Current = migration[m] /\ Waited = waits[m] /\ lock # None
    BY <1>1, <1>4 DEF Current, Waited
  <2>2. migration[m].pc = "validating" => Stage = "accepted"
    BY <2>1 DEF Stage
  <2>3. migration[m].pc = "draining" /\ migration[m].woken = TRUE => Stage = "drained"
    BY <2>1 DEF Stage
  <2>4. migration[m].pc = "draining" /\ migration[m].woken = FALSE => Stage = "switched"
    BY <2>1 DEF Stage
  <2>5. QED
    BY <1>4, <2>1, <2>2, <2>3, <2>4 DEF View
<1>5. CASE lock # None /\ lock \notin Migrations
  BY <1>5 DEF View
<1>6. QED
  BY <1>3, <1>4, <1>5

LEMMA ViewNext == View'
  BY ViewHolds, PTL

\* A step that VersionSwitch does not see.
LEMMA Unseen ==
    ASSUME AdminInv, HolderInv, entry'.version = entry.version, lock' = lock,
           migration' = migration, waits' = waits, Place' = Place
    PROVE  UNCHANGED Switching!vars
<1>1. Current' = Current /\ Stage' = Stage /\ Waited' = Waited
  BY DEF Current, Stage, Waited
<1>2. QED
  BY <1>1 DEF Switching!vars, Switching!migrationVars, Place, Waited

LEMMA InitSwitches == Init => Switching!Init
<1> SUFFICES ASSUME Init PROVE Switching!Init
  OBVIOUS
<1>1. entry.version \in Versions /\ lock = None
  BY EntryValues DEF Init, Entry
<1>2. Place = [u \in Users |-> None]
  BY DEF Init, Place, IdleUser
<1>3. QED
  BY <1>1, <1>2, ViewHolds DEF View, Switching!Init, Switching!Nobody, Waited, Place

LEMMA BeginsIsAccept ==
    ASSUME AdminInv, HolderInv, NEW m \in Migrations, NEW t \in Versions,
           MigrationBegins(m, t)
    PROVE  Switching!Accept(m, t)
<1>1. /\ lock = None /\ lock' = m /\ UNCHANGED <<entry, user, waits>>
      /\ t # entry.version /\ migration[m].pc = "idle"
  BY DEF MigrationBegins, TakeLock
<1>2. /\ migration'[m].pc = "validating" /\ migration'[m].version = entry.version
      /\ migration'[m].target = t
  BY DEF MigrationBegins, AdminInv, TypeOK
<1>3. waits[m] = {}
  BY <1>1 DEF HolderInv, Waiting
<1>4. Waited = {} /\ Waited' = {}
  BY <1>1, <1>3, ViewHolds, ViewNext DEF View
<1>5. Stage' = "accepted" /\ Current'.version = entry.version /\ Current'.target = t
  BY <1>1, <1>2, ViewNext DEF View
<1>6. Place' = Place
  BY <1>1 DEF Place
<1>7. QED
  BY <1>1, <1>4, <1>5, <1>6 DEF Switching!Accept, Waited, Place

\* A migration that ends gives everything back that VersionSwitch sees of it.
LEMMA EndsIsFree ==
    ASSUME lock' = None
    PROVE  Switching!Free
  BY ViewNext DEF View, Switching!Free, Waited

LEMMA StopsIsReply ==
    ASSUME AdminInv, HolderInv, NEW m \in Migrations,
           MigrationRejected(m) \/ MigrationNotPersisted(m) \/ Drained(m) \/ DrainTimesOut(m)
    PROVE  Switching!Reply
<1>1. /\ migration[m].pc \in {"validating", "draining"} /\ lock' = None
      /\ UNCHANGED <<entry, user>>
  BY DEF MigrationRejected, MigrationNotPersisted, NotPersisted, Drained, DrainTimesOut,
         MigrationEnds
<1>2. lock = m
  BY <1>1 DEF AdminInv, LocalsInUse
<1>3. migration[m].woken \in BOOLEAN
  BY DEF AdminInv, TypeOK, Migration
<1>4. Stage # "none"
  <2>1. Stage \in {"accepted", "drained", "switched"}
    BY <1>1, <1>2, <1>3, ViewHolds DEF View
  <2>2. QED
    BY <2>1
<1>5. Place' = Place
  BY <1>1 DEF Place
<1>6. QED
  BY <1>1, <1>4, <1>5, EndsIsFree DEF Switching!Reply, Place

\* The switch happens at the write, from the version that the migration read;
\* the event is not set then, as somebody is inside if the migration waits.
LEMMA CommitIsSwitch ==
    ASSUME AdminInv, DrainInv, HolderInv, NEW m \in Migrations, NEW drain \in BOOLEAN,
           MigrationCommits(m, drain)
    PROVE  Switching!Switch
<1> DEFINE x == migration[m]
<1>1. x.pc = "validating" /\ entry'.version = x.target /\ UNCHANGED user
  BY DEF MigrationCommits, Persisted
<1>2. /\ lock = m /\ x.version = entry.version /\ x.version \in Versions
  BY <1>1 DEF AdminInv, LocalsInUse, MigrationReplacesWhatItRead
<1>3. Stage = "accepted" /\ Current = x
  BY <1>1, <1>2, ViewHolds DEF View
<1>4. Place' = Place
  BY <1>1 DEF Place
<1>5. MigrationSteps(m)
  BY DEF MigrationSteps
<1>6. CASE lock' = None
  BY <1>1, <1>2, <1>3, <1>4, <1>6, EndsIsFree DEF Switching!Switch, Place
<1>7. CASE lock' # None
  <2>1. /\ lock' = m /\ migration'[m].pc = "draining" /\ migration'[m].target = None
        /\ migration'[m].version = x.version
        /\ migration'[m].woken = slots[x.version].drained
        /\ waits'[m] = Inside(x.version)
        /\ slots[x.version].in_flight > 0
    BY <1>1, <1>5, <1>7, MigrationMoves
  <2>2. migration'[m].woken = FALSE
    BY <1>2, <2>1 DEF DrainInv, AdminInv, TypeOK, Slot
  <2>3. /\ Stage' = "switched" /\ Current'.version = Current.version
        /\ Current'.target = None /\ Waited' = Inside(x.version)
    BY <1>3, <2>1, <2>2, ViewNext DEF View
  <2>4. Inside(x.version) = {u \in Users : Place[u] = Current.version}
    BY <1>2, <1>3, NobodyAssumption DEF NobodyAssumption, Inside, Place
  <2>5. QED
    BY <1>1, <1>2, <1>3, <1>4, <2>1, <2>3, <2>4 DEF Switching!Switch, Waited, Place
<1>8. QED
  BY <1>6, <1>7

LEMMA EntersIsEnter ==
    ASSUME AdminInv, HolderInv, NEW u \in Users, NEW v \in Versions, Enters(u, v)
    PROVE  Switching!Enter(u, v)
<1>1. /\ UNCHANGED <<entry, lock, migration, waits>> /\ user[u].pc # "inside"
      /\ user' = [user EXCEPT ![u] = [pc |-> "inside", version |-> v]]
  BY DEF Enters
<1>2. Place[u] = None /\ Place' = [Place EXCEPT ![u] = v]
  BY <1>1 DEF Place, AdminInv, TypeOK
<1>3. Current' = Current /\ Stage' = Stage /\ Waited' = Waited
  BY <1>1 DEF Current, Stage, Waited
<1>4. QED
  BY <1>1, <1>2, <1>3 DEF Switching!Enter, Switching!migrationVars, Waited, Place

\* The last one of those that a migration waits for may wake it, and only the
\* last one does.
LEMMA ExitsIsExit ==
    ASSUME AdminInv, DrainInv, DrainInv', HolderInv, NEW u \in Users, Exits(u)
    PROVE  Switching!Exit(u)
<1>1. /\ UNCHANGED <<entry, lock>> /\ user[u].pc = "inside"
      /\ user' = [user EXCEPT ![u] = IdleUser]
  BY DEF Exits
<1>2. user[u].version \in Versions /\ None \notin Versions
  BY <1>1, NobodyAssumption DEF NobodyAssumption, AdminInv, LocalsInUse
<1>3. Place[u] # None /\ Place' = [Place EXCEPT ![u] = None]
  BY <1>1, <1>2 DEF Place, AdminInv, TypeOK, IdleUser
<1>4. CASE lock = None
  <2>1. /\ Current' = Current /\ Stage' = Stage /\ Waited = {} /\ Waited' = {}
    BY <1>1, <1>4, ViewHolds, ViewNext DEF View
  <2>2. QED
    BY <1>1, <1>3, <2>1 DEF Switching!Exit, Waited, Place
<1>5. ASSUME NEW m \in Migrations, lock = m
      PROVE  Switching!Exit(u)
  <2>1. /\ migration'[m].pc = migration[m].pc
        /\ migration'[m].version = migration[m].version
        /\ migration'[m].target = migration[m].target
        /\ \/ migration'[m].woken = migration[m].woken
           \/ migration[m].pc = "draining" /\ migration'[m].woken = TRUE
        /\ waits'[m] = waits[m] \ {u}
    BY ExitsWakes
  <2>2. /\ Current = migration[m] /\ Current' = migration'[m]
        /\ Waited = waits[m] /\ Waited' = waits'[m]
    BY <1>1, <1>5, ViewHolds, ViewNext DEF View
  <2>3. migration[m].pc \in {"validating", "draining"} /\ migration[m].woken \in BOOLEAN
    BY <1>5 DEF HolderInv, AdminInv, TypeOK, Migration
  <2>4. CASE migration'[m].woken = migration[m].woken
    <3>1. Stage' = Stage
      BY <1>1, <1>5, <2>1, <2>3, <2>4, ViewHolds, ViewNext DEF View
    <3>2. QED
      BY <1>1, <1>3, <2>1, <2>2, <3>1 DEF Switching!Exit, Waited, Place
  <2>5. CASE migration'[m].woken # migration[m].woken
    <3>1. /\ migration[m].pc = "draining" /\ migration[m].woken = FALSE
          /\ migration'[m].pc = "draining" /\ migration'[m].woken = TRUE
      BY <2>1, <2>3, <2>5
    <3>2. Stage = "switched" /\ Stage' = "drained"
      BY <1>1, <1>5, <3>1, ViewHolds, ViewNext DEF View
    <3>3. waits'[m] = {}
      BY <3>1 DEF DrainInv, DrainIsReal
    <3>4. QED
      BY <1>1, <1>3, <2>1, <2>2, <3>2, <3>3 DEF Switching!Exit, Waited, Place
  <2>6. QED
    BY <2>4, <2>5
<1>6. lock \in Maybe(Migrations)
  BY DEF AdminInv, TypeOK
<1>7. QED
  BY <1>4, <1>5, <1>6 DEF Maybe

\* A restart keeps the active version: every change is on disk.
LEMMA RestartIsRestart ==
    ASSUME AdminInv, NEW saved \in BOOLEAN, NEW lost, Restart(saved, lost)
    PROVE  Switching!Restart
<1>1. entry' = entry
  BY EntryValues DEF AdminInv, TypeOK, DurableRegistry, Restart
<1>2. lock' = None /\ Place' = [u \in Users |-> None]
  BY DEF Restart, Place, IdleUser
<1>3. QED
  BY <1>1, <1>2, EndsIsFree DEF Switching!Restart, Switching!Nobody, Place

LEMMA HandlersAreUnseen ==
    ASSUME AdminInv, HolderInv
    PROVE  /\ \A l \in Loads : LoadSteps(l) => UNCHANGED Switching!vars
           /\ \A v \in Versions : RollsBack(v) => UNCHANGED Switching!vars
           /\ \A u \in Users : Lists(u) \/ GivesUp(u) => UNCHANGED Switching!vars
           /\ UNCHANGED vars => UNCHANGED Switching!vars
<1>1. UNCHANGED user => Place' = Place
  BY DEF Place
<1>2. ASSUME NEW l \in Loads, LoadSteps(l)
      PROVE  UNCHANGED Switching!vars
  <2>1. UNCHANGED <<lock, migration, waits, user>>
    BY <1>2 DEF LoadSteps, LoadBegins, LoadRejected, LoadCommits, LoadNotPersisted, LoadEnds
  <2>2. entry'.version = entry.version
    BY <1>2
       DEF LoadSteps, LoadBegins, LoadRejected, LoadCommits, LoadNotPersisted, Persisted,
           NotPersisted, AdminInv, TypeOK, Entry
  <2>3. QED
    BY <1>1, <2>1, <2>2, Unseen
<1>3. ASSUME NEW v \in Versions, RollsBack(v)
      PROVE  UNCHANGED Switching!vars
  <2>1. entry'.version = entry.version
    BY <1>3 DEF RollsBack, Persisted, NotPersisted, AdminInv, TypeOK, Entry
  <2>2. QED
    BY <1>1, <1>3, <2>1, Unseen DEF RollsBack
<1>4. ASSUME NEW u \in Users, Lists(u) \/ GivesUp(u)
      PROVE  UNCHANGED Switching!vars
  <2>1. \E w : w.pc # "inside" /\ user[u].pc # "inside" /\ user' = [user EXCEPT ![u] = w]
    BY <1>4 DEF Lists, GivesUp, IdleUser
  <2>2. Place' = Place
    BY <2>1 DEF Place, AdminInv, TypeOK
  <2>3. QED
    BY <1>4, <2>2, Unseen DEF Lists, GivesUp
<1>5. UNCHANGED vars => UNCHANGED Switching!vars
  BY <1>1, Unseen DEF vars
<1>6. QED
  BY <1>2, <1>3, <1>4, <1>5

LEMMA NextSwitches ==
    ASSUME AdminInv, DrainInv, DrainInv', HolderInv, [Next]_vars
    PROVE  [Switching!Next]_(Switching!vars)
<1>1. ASSUME NEW m \in Migrations, MigrationSteps(m)
      PROVE  Switching!Next
  BY <1>1, BeginsIsAccept, CommitIsSwitch, StopsIsReply DEF MigrationSteps, Switching!Next
<1>2. ASSUME NEW u \in Users, UserSteps(u)
      PROVE  Switching!Next \/ UNCHANGED Switching!vars
  BY <1>2, HandlersAreUnseen, EntersIsEnter, ExitsIsExit DEF UserSteps, Switching!Next
<1>3. ASSUME NEW saved \in BOOLEAN, NEW lost \in SUBSET Unloadable, Restart(saved, lost)
      PROVE  Switching!Next
  BY <1>3, RestartIsRestart DEF Switching!Next
<1>4. QED
  BY <1>1, <1>2, <1>3, HandlersAreUnseen DEF Next

\* Migrations switch the active version one after the other, each from the
\* version it read to the one it was asked for, and are told "drained" when
\* everyone who was inside has left, amid loads, rollbacks, failing writes and
\* restarts (migration_api.py:58-205, plugin_loader.py:154-182).
THEOREM VersionRefinement == Spec => ImplementsVersionSwitch
<1>1. Init => HolderInv /\ Switching!Init
  BY HolderAtStart, InitSwitches
<1>2. AdminInv /\ HolderInv /\ [Next]_vars => HolderInv'
  BY NextHolder
<1>3. AdminInv /\ DrainInv /\ DrainInv' /\ HolderInv /\ [Next]_vars
          => [Switching!Next]_(Switching!vars)
  BY NextSwitches
<1>4. QED
  BY <1>1, <1>2, <1>3, AdminInvariant, DrainInvariant, PTL
     DEF Spec, ImplementsVersionSwitch, Switching!Spec
=============================================================================
