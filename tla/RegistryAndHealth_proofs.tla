---------------------- MODULE RegistryAndHealth_proofs ----------------------
(***************************************************************************)
(* Two users of the registry's entries.  First the registry itself: its    *)
(* file is never torn, and it implements AtomicStore, for any services,    *)
(* entries and defaults, with a crash or a loss of power between any two   *)
(* steps.  Then refresh_health, which writes the statuses: none is old     *)
(* news, for any backends, callers and timeout.                            *)
(***************************************************************************)
EXTENDS RegistryStore, HealthMonitor, TLAPS

USE DefaultsAssumption, MarksAssumption DEF DefaultsAssumption, MarksAssumption

\* Two registries that differ in one entry at most.
OneApart(m, n) == \A s, t \in Services : m[s] # n[s] /\ m[t] # n[t] => s = t

\* Only synced, complete contents are ever at the path; what the memory goes
\* back to is one entry away.
StoreInv ==
    /\ TypeOK
    /\ pc = "sync" => tmp.content = memory
    /\ pc = "replace" => tmp = File(memory, TRUE)
    /\ path.synced /\ path.content # Unreadable
    /\ settled.synced /\ settled.content # Unreadable
    /\ OneApart(memory, before)

-----------------------------------------------------------------------------
\* What an operation makes of a registry is a registry (registry.py:173-246).
LEMMA UpdatesAreRegistries ==
    ASSUME NEW m \in Registries
    PROVE  Updates(m) \subseteq Registries
<1>1. ASSUME NEW s \in Services, NEW entry \in Entries
      PROVE  [m EXCEPT ![s] = entry] \in Registries
  <2>1. [m EXCEPT ![s] = entry] \in [Services -> Entries \cup {NoEntry}]
    BY DEF Registries
  <2>2. [m EXCEPT ![s] = entry][s] = entry
    BY DEF Registries
  <2>3. QED
    BY <2>1, <2>2 DEF Registries
<1>2. ASSUME NEW s \in Registered(m)
      PROVE  s \in Services /\ m[s] \in Entries
  BY <1>2 DEF Registered, Registries
<1>3. UpdateStatus(m) \subseteq Registries
  <2> SUFFICES ASSUME NEW s \in Registered(m), NEW st \in Statuses
               PROVE  [m EXCEPT ![s].status = st] \in Registries
    BY DEF UpdateStatus
  <2>1. [m[s] EXCEPT !.status = st] \in Entries
    BY <1>2 DEF Entries
  <2>2. QED
    BY <1>1, <1>2, <2>1
<1>4. UpdateVersion(m) \subseteq Registries
  <2>1. ASSUME NEW s \in Registered(m), NEW v \in Versions
        PROVE  [m EXCEPT ![s].version = v] \in Registries
    <3>1. [m[s] EXCEPT !.version = v] \in Entries
      BY <1>2 DEF Entries
    <3>2. QED
      BY <1>1, <1>2, <3>1
  <2>2. ASSUME NEW s \in Registered(m), NEW v \in Versions, NEW meta \in Metas
        PROVE  [m EXCEPT ![s] = [status |-> m[s].status, version |-> v, meta |-> meta]]
                   \in Registries
    <3>1. [status |-> m[s].status, version |-> v, meta |-> meta] \in Entries
      BY <1>2 DEF Entries
    <3>2. QED
      BY <1>1, <1>2, <3>1
  <2>3. QED
    BY <2>1, <2>2 DEF UpdateVersion
<1>5. UpdateMetadata(m) \subseteq Registries
  <2> SUFFICES ASSUME NEW s \in Registered(m), NEW meta \in Metas
               PROVE  [m EXCEPT ![s].meta = meta] \in Registries
    BY DEF UpdateMetadata
  <2>1. [m[s] EXCEPT !.meta = meta] \in Entries
    BY <1>2 DEF Entries
  <2>2. QED
    BY <1>1, <1>2, <2>1
<1>6. RegisterService(m) \subseteq Registries
  BY <1>1 DEF RegisterService
<1>7. QED
  BY <1>3, <1>4, <1>5, <1>6 DEF Updates

\* An operation changes one entry (registry.py:173-246).
LEMMA UpdatesChangeOne ==
    ASSUME NEW m \in Registries, NEW new \in Updates(m)
    PROVE  OneApart(new, m)
<1>1. ASSUME NEW s \in Services, NEW entry, new = [m EXCEPT ![s] = entry]
      PROVE  OneApart(new, m)
  <2>1. \A t \in Services : t # s => new[t] = m[t]
    BY <1>1 DEF Registries
  <2>2. QED
    BY <2>1 DEF OneApart
<1>2. Registered(m) \subseteq Services
  BY DEF Registered
<1>3. \E s \in Services : \E entry : new = [m EXCEPT ![s] = entry]
  <2>1. CASE new \in UpdateStatus(m)
    BY <1>2, <2>1 DEF UpdateStatus
  <2>2. CASE new \in UpdateVersion(m)
    BY <1>2, <2>2 DEF UpdateVersion
  <2>3. CASE new \in UpdateMetadata(m)
    BY <1>2, <2>3 DEF UpdateMetadata
  <2>4. CASE new \in RegisterService(m)
    BY <2>4 DEF RegisterService
  <2>5. QED
    BY <2>1, <2>2, <2>3, <2>4 DEF Updates
<1>4. QED
  BY <1>1, <1>3

\* What load_state answers is a registry.
LEMMA LoadedType ==
    /\ \A content : Loaded(content) \in Registries
    /\ \A content \in Registries : Loaded(content) = content
    /\ Loaded(Absent) = Defaults
  BY DEF Loaded

-----------------------------------------------------------------------------
(* The invariant.                                                           *)

LEMMA InitInv == Init => StoreInv
<1> SUFFICES ASSUME Init PROVE StoreInv
  OBVIOUS
<1>1. PICK c \in Registries \cup {Absent} : path = File(c, TRUE)
  BY DEF Init
<1>2. QED
  BY <1>1 DEF Init, StoreInv, OneApart, TypeOK, File, Files, Persisting

LEMMA StepInv == StoreInv /\ [Next]_vars => StoreInv'
<1> SUFFICES ASSUME StoreInv, [Next]_vars PROVE StoreInv'
  OBVIOUS
<1> USE DEF Persisting, Files, File, OneApart
<1>1. CASE UNCHANGED vars
  BY <1>1 DEF StoreInv, TypeOK, vars
<1>2. CASE Start
  <2>1. memory' \in Registries /\ before' = memory' /\ memory' = Loaded(path.content)
    BY <1>2, LoadedType DEF Start
  <2>2. QED
    BY <1>2, <2>1 DEF Start, StoreInv, TypeOK
<1>14. CASE StartBlind
  BY <1>14 DEF StartBlind, StoreInv, TypeOK
<1>3. CASE Save
  BY <1>3 DEF Save, StoreInv, TypeOK
<1>4. ASSUME NEW new \in Updates(memory), Update(new)
      PROVE  StoreInv'
  <2>1. new \in Registries
    BY UpdatesAreRegistries DEF StoreInv, TypeOK
  <2>2. OneApart(new, memory)
    BY UpdatesChangeOne DEF StoreInv, TypeOK
  <2>3. QED
    BY <1>4, <2>1, <2>2 DEF Update, StoreInv, TypeOK
<1>5. CASE Open
  BY <1>5 DEF Open, StoreInv, TypeOK
<1>6. CASE Write
  BY <1>6 DEF Write, StoreInv, TypeOK
<1>7. CASE Sync
  <2>1. tmp' = File(memory, TRUE)
    BY <1>7 DEF Sync, StoreInv, TypeOK
  <2>2. QED
    BY <1>7, <2>1 DEF Sync, StoreInv, TypeOK
<1>8. CASE Replace
  BY <1>8, LoadedType DEF Replace, StoreInv, TypeOK
<1>9. CASE Fails
  BY <1>9 DEF Fails, StoreInv, TypeOK
<1>10. CASE Crash
  BY <1>10, DefaultsAssumption DEF Crash, Ends, StoreInv, TypeOK
<1>11. CASE Settle
  BY <1>11 DEF Settle, StoreInv, TypeOK
<1>12. CASE PowerLoss
  <2>1. path' = settled /\ settled' = settled
    BY <1>12 DEF PowerLoss, AfterPowerLoss, StoreInv
  <2>2. QED
    BY <1>12, <2>1, DefaultsAssumption DEF PowerLoss, Ends, StoreInv, TypeOK
<1>13. QED
  BY <1>1, <1>2, <1>3, <1>4, <1>5, <1>6, <1>7, <1>8, <1>9, <1>10, <1>11, <1>12,
     <1>14 DEF Next

\* The invariant of the file holds throughout.
THEOREM Invariance == Spec => []StoreInv
  BY InitInv, StepInv, PTL DEF Spec

\* The variables keep their types.
THEOREM TypeCorrect == Spec => []TypeOK
<1>1. StoreInv => TypeOK
  BY DEF StoreInv
<1>2. QED
  BY <1>1, Invariance, PTL

\* The file can be read whenever it is there (registry.py:152-158).
THEOREM Readable == Spec => []NeverUnreadable
<1>1. StoreInv => NeverUnreadable
  BY DEF StoreInv, NeverUnreadable, AfterPowerLoss
<1>2. QED
  BY <1>1, Invariance, PTL

-----------------------------------------------------------------------------
(* The abstract store.                                                      *)

LEMMA InitMaps == Init => Store!Init
<1> SUFFICES ASSUME Init PROVE Store!Init
  OBVIOUS
<1>1. settled = path /\ path.synced
  BY DEF Init, File
<1>2. Answers = Down
  <2>1. pc = "down"
    BY DEF Init
  <2>2. QED
    BY <2>1 DEF Answers, Persisting
<1>3. QED
  BY <1>1, <1>2, LoadedType DEF Store!Init, AfterPowerLoss

\* Every step is a step of the abstract store or leaves it as it is.
LEMMA StepMaps ==
    ASSUME StoreInv, [Next]_vars
    PROVE  Store!Next \/ UNCHANGED Store!vars
<1> StoreInv'
  BY StepInv
<1> USE DEF Persisting
<1>1. CASE UNCHANGED vars
  BY <1>1 DEF vars, Store!vars, Answers
<1>2. CASE Start
  <2>1. Answers = Down /\ Answers' = Loaded(path.content)
    BY <1>2 DEF Start, Answers
  <2>2. Store!Restart
    BY <1>2, <2>1 DEF Start, Store!Restart
  <2>3. QED
    BY <2>2 DEF Store!Next
<1>11. CASE StartBlind
  <2>1. Answers = Down /\ Answers' = Defaults
    BY <1>11 DEF StartBlind, Answers
  <2>2. Store!RestartBlind
    BY <1>11, <2>1 DEF StartBlind, Store!RestartBlind
  <2>3. QED
    BY <2>2 DEF Store!Next
<1>3. CASE Save \/ \E new \in Updates(memory) : Update(new)
  BY <1>3 DEF Save, Update, Answers, Store!vars
<1>4. CASE Open \/ Write \/ Sync
  BY <1>4 DEF Open, Write, Sync, Answers, Store!vars
<1>5. CASE Replace
  <2>1. Loaded(path'.content) = memory /\ Answers' = memory /\ memory \in Registries
    BY <1>5, LoadedType DEF Replace, Answers, StoreInv, TypeOK, File
  <2>2. Answers = before /\ before # Down
    BY <1>5 DEF Replace, Answers, StoreInv, TypeOK
  <2>3. Store!ChangesOne(memory)
    <3>1. DOMAIN memory = Services
      BY <2>1 DEF Registries
    <3>2. QED
      BY <2>2, <3>1 DEF Store!ChangesOne, StoreInv, OneApart
  <2>4. Store!Commit(memory)
    BY <1>5, <2>1, <2>2, <2>3 DEF Replace, Store!Commit
  <2>5. QED
    BY <2>1, <2>4 DEF Store!Next
<1>6. CASE Fails
  BY <1>6 DEF Fails, Answers, Store!vars
<1>7. CASE Crash
  <2>1. Store!Crash
    BY <1>7 DEF Crash, Ends, Answers, Store!Crash
  <2>2. QED
    BY <2>1 DEF Store!Next
<1>8. CASE Settle
  <2>1. Answers' = Answers /\ AfterPowerLoss(settled)' = path
    BY <1>8 DEF Settle, Answers, AfterPowerLoss, StoreInv
  <2>2. Store!Settle
    BY <1>8, <2>1 DEF Settle, Store!Settle
  <2>3. QED
    BY <2>2 DEF Store!Next
<1>9. CASE PowerLoss
  <2>1. /\ path' = AfterPowerLoss(settled)
        /\ AfterPowerLoss(settled)' = AfterPowerLoss(settled)
        /\ Answers' = Down
    BY <1>9 DEF PowerLoss, Ends, AfterPowerLoss, Answers, StoreInv
  <2>2. Store!PowerLoss
    BY <2>1 DEF Store!PowerLoss
  <2>3. QED
    BY <2>2 DEF Store!Next
<1>10. QED
  BY <1>1, <1>2, <1>3, <1>4, <1>5, <1>6, <1>7, <1>8, <1>9, <1>11 DEF Next

\* Memory and file change together or not at all, by one entry; a crash loses
\* nothing that was acknowledged, a loss of power takes back whole updates
\* only; and what was stored is replaced as a whole by nothing but the first
\* update after a start that could not read it (registry.py:121-138, 144-246).
THEOREM Refinement == Spec => ImplementsAtomicStore
<1>1. StoreInv /\ [Next]_vars => [Store!Next]_(Store!vars)
  BY StepMaps
<1>2. QED
  BY <1>1, InitMaps, Invariance, PTL DEF Spec, ImplementsAtomicStore, Store!Spec
-----------------------------------------------------------------------------
(* The health monitor.                                                      *)

\* The values that its steps assign are of the variables' types.
LEMMA MonitorValues ==
    /\ Nothing \in [Backends -> HealthStates \cup {"nothing"}]
    /\ \A b \in Backends : Nothing[b] = "nothing"
    /\ \A b \in Backends : StatusOf(b) \in HealthStates
    /\ 0 \in 0..ProbeTimeout /\ 0 \in 0..Old /\ Old \in 0..Old
    /\ Old = ProbeTimeout + 1 /\ ProbeTimeout \in Nat
  BY TimeoutAssumption DEF TimeoutAssumption, Nothing, StatusOf, HealthStates, Old

\* A status that is written was there before, or is what this refresh found.
LEMMA WrittenFrom ==
    ASSUME MonitorTypeOK, NEW r \in Refreshers, Probed(r), NEW failed \in SUBSET Backends
    PROVE  /\ Written(r, failed) \in [Backends -> HealthStates]
           /\ \A b \in Backends : Written(r, failed)[b] \in {status[b], found[r][b]}
  BY DEF MonitorTypeOK, Written, Probed

\* An age stays one, and grows by no more than one.
LEMMA AgedFits ==
    ASSUME NEW age \in [Backends -> 0..Old], NEW fresh \in SUBSET Backends
    PROVE  /\ Aged(age, fresh) \in [Backends -> 0..Old]
           /\ \A b \in Backends : Aged(age, fresh)[b] <= age[b] + 1
           /\ \A b \in fresh : Aged(age, fresh)[b] = 0
  BY MonitorValues DEF Aged

LEMMA InitMonitor == MonitorInit => MonitorInv
<1> SUFFICES ASSUME MonitorInit PROVE MonitorInv
  OBVIOUS
<1>1. MonitorTypeOK
  BY MonitorValues DEF MonitorInit, MonitorTypeOK
<1>2. RefreshersFit /\ FindingsAreRecent /\ AgesFit
  BY MonitorValues DEF MonitorInit, RefreshersFit, FindingsAreRecent, AgesFit
<1>3. QED
  BY <1>1, <1>2 DEF MonitorInv

\* A probe that ends has found what the backend is at that moment.
LEMMA ProbeMonitor ==
    ASSUME MonitorInv, NEW r \in Refreshers, NEW b \in Backends, Probe(r, b)
    PROVE  MonitorInv'
<1> USE DEF MonitorInv, MonitorTypeOK, Probe, processVars, worldVars
<1>1. MonitorTypeOK'
  BY MonitorValues
<1>2. RefreshersFit'
  BY DEF RefreshersFit
<1>3. FindingsAreRecent'
  <2> SUFFICES ASSUME NEW q \in Refreshers, NEW d \in Backends
               PROVE  /\ found'[q][d] = "available" => sinceUp[d] <= spent[q]
                      /\ found'[q][d] = "unavailable" => sinceDown[d] <= spent[q]
    BY DEF FindingsAreRecent
  <2>1. CASE q = r /\ d = b
    BY <2>1 DEF AgesFit, StatusOf
  <2>2. CASE ~(q = r /\ d = b)
    BY <2>2 DEF FindingsAreRecent
  <2>3. QED
    BY <2>1, <2>2
<1>4. AgesFit'
  BY DEF AgesFit
<1>5. QED
  BY <1>1, <1>2, <1>3, <1>4

\* The clock ages the findings with the backends they are about.
LEMMA TickMonitor ==
    ASSUME MonitorInv, Tick
    PROVE  MonitorInv'
<1> USE DEF MonitorInv, MonitorTypeOK, processVars
<1>0. /\ sinceUp' = Aged(sinceUp, up) /\ sinceDown' = Aged(sinceDown, Backends \ up)
      /\ UNCHANGED <<phase, status, unwritten, refresh, found, up, disk>>
      /\ up \in SUBSET Backends /\ Backends \ up \in SUBSET Backends
  BY DEF Tick
<1>1. \A r \in Refreshers : spent'[r] = IF refresh[r] = "probing" THEN spent[r] + 1 ELSE spent[r]
  BY DEF Tick
<1>2. \A r \in Refreshers : refresh[r] = "probing" => spent[r] < ProbeTimeout
  BY MonitorValues DEF Tick, Due
<1>3. spent' \in [Refreshers -> 0..ProbeTimeout]
  BY <1>2, MonitorValues DEF Tick
<1>4. MonitorTypeOK'
  BY <1>0, <1>3, AgedFits
<1>5. RefreshersFit'
  BY <1>0, <1>1 DEF RefreshersFit
<1>6. FindingsAreRecent'
  <2> SUFFICES ASSUME NEW r \in Refreshers, NEW b \in Backends
               PROVE  /\ found[r][b] = "available" => sinceUp'[b] <= spent'[r]
                      /\ found[r][b] = "unavailable" => sinceDown'[b] <= spent'[r]
    BY <1>0 DEF FindingsAreRecent
  <2>1. CASE refresh[r] = "idle"
    BY <2>1, MonitorValues DEF RefreshersFit
  <2>2. CASE refresh[r] = "probing"
    <3>1. sinceUp'[b] <= sinceUp[b] + 1 /\ sinceDown'[b] <= sinceDown[b] + 1
      BY <1>0, AgedFits
    <3>2. sinceUp'[b] \in Nat /\ sinceDown'[b] \in Nat
      BY <1>4, MonitorValues
    <3>3. spent'[r] = spent[r] + 1
      BY <1>1, <2>2
    <3>4. QED
      BY <3>1, <3>2, <3>3, MonitorValues DEF FindingsAreRecent
  <2>3. QED
    BY <2>1, <2>2
<1>7. AgesFit'
  BY <1>0, AgedFits DEF AgesFit
<1>8. QED
  BY <1>4, <1>5, <1>6, <1>7

LEMMA WriteMonitor ==
    ASSUME MonitorInv, NEW r \in Refreshers, WriteStatuses(r)
    PROVE  MonitorInv'
<1> USE DEF MonitorInv, MonitorTypeOK, WriteStatuses, worldVars
<1>1. MonitorTypeOK'
  BY WrittenFrom, MonitorValues
<1>2. RefreshersFit'
  <2>1. phase = IF r = "lifespan" THEN "starting" ELSE "serving"
    BY DEF Probed, RefreshersFit
  <2>2. QED
    BY <2>1 DEF RefreshersFit
<1>3. FindingsAreRecent' /\ AgesFit'
  BY MonitorValues DEF FindingsAreRecent, AgesFit
<1>4. QED
  BY <1>1, <1>2, <1>3

LEMMA NextMonitor == MonitorInv /\ [MonitorNext]_monitorVars => MonitorInv'
<1> SUFFICES ASSUME MonitorInv, [MonitorNext]_monitorVars PROVE MonitorInv'
  OBVIOUS
<1> USE DEF MonitorInv, MonitorTypeOK, RefreshersFit, FindingsAreRecent, AgesFit,
            processVars, probeVars, worldVars
<1>1. CASE UNCHANGED monitorVars
  BY <1>1 DEF monitorVars
<1>2. CASE StartGateway
  BY <1>2 DEF StartGateway
<1>3. CASE Stop
  BY <1>3, MonitorValues DEF Stop
<1>4. CASE DiskTurns
  BY <1>4 DEF DiskTurns
<1>5. CASE Tick
  BY <1>5, TickMonitor
<1>6. ASSUME NEW b \in Backends, Flip(b)
      PROVE  MonitorInv'
  BY <1>6, MonitorValues DEF Flip
<1>7. ASSUME NEW r \in Refreshers, Begin(r)
      PROVE  MonitorInv'
  BY <1>7 DEF Begin, MayRefresh
<1>8. ASSUME NEW r \in Refreshers, WriteStatuses(r)
      PROVE  MonitorInv'
  BY <1>8, WriteMonitor
<1>9. ASSUME NEW r \in Refreshers, NEW b \in Backends, Probe(r, b)
      PROVE  MonitorInv'
  BY <1>9, ProbeMonitor
<1>10. QED
  BY <1>1, <1>2, <1>3, <1>4, <1>5, <1>6, <1>7, <1>8, <1>9 DEF MonitorNext

\* Refreshes stay within their phase, and what they have found is as old as
\* they are at most (router.py:68-94, main.py:50-64).
THEOREM MonitorInvariance == MonitorSpec => []MonitorInv
  BY InitMonitor, NextMonitor, PTL DEF MonitorSpec

\* The steps that are not the end of a refresh write no status.
LEMMA OnlyWritten ==
    ASSUME [MonitorNext]_monitorVars, \A r \in Refreshers : ~WriteStatuses(r)
    PROVE  status' = status /\ (phase' = phase \/ phase' # "serving")
  BY DEF MonitorNext, monitorVars, StartGateway, Stop, DiskTurns, Tick, Flip, Begin,
     Probe, processVars

\* No status is set to what the backend was longer than a timeout ago, for any
\* number of backends and of overlapping refreshes (router.py:72-94).
THEOREM WritesAreRecent == MonitorSpec => WrittenWhileRecent
<1>1. MonitorInv /\ [MonitorNext]_monitorVars =>
        [\A b \in Backends : status'[b] # status[b] =>
            IF status'[b] = "available" THEN sinceUp[b] <= ProbeTimeout
                                      ELSE sinceDown[b] <= ProbeTimeout]_monitorVars
  <2> SUFFICES ASSUME MonitorInv, [MonitorNext]_monitorVars,
                      NEW b \in Backends, status'[b] # status[b]
               PROVE  IF status'[b] = "available" THEN sinceUp[b] <= ProbeTimeout
                                                ELSE sinceDown[b] <= ProbeTimeout
    OBVIOUS
  <2>1. PICK r \in Refreshers : WriteStatuses(r)
    BY OnlyWritten
  <2>2. PICK failed \in SUBSET Backends : status' = Written(r, failed)
    BY <2>1 DEF WriteStatuses
  <2>3. status'[b] = found[r][b]
    BY <2>1, <2>2, WrittenFrom DEF WriteStatuses, MonitorInv
  <2>4. found[r][b] \in HealthStates /\ spent[r] <= ProbeTimeout /\ spent[r] \in Nat
        /\ sinceUp[b] \in Nat /\ sinceDown[b] \in Nat
    BY <2>1, MonitorValues DEF WriteStatuses, Probed, MonitorInv, MonitorTypeOK
  <2>5. QED
    BY <2>3, <2>4, MonitorValues DEF MonitorInv, FindingsAreRecent, HealthStates
<1>2. QED
  BY <1>1, MonitorInvariance, PTL DEF MonitorSpec, WrittenWhileRecent

\* Nothing is served on a former process's statuses while the registry can be
\* written (main.py:50-52).
THEOREM ServingIsInformed == MonitorSpec => ServesOnOwnFindings
<1>1. MonitorInv /\ [MonitorNext]_monitorVars =>
        [phase # "serving" /\ phase' = "serving" /\ disk => unwritten' = {}]_monitorVars
  <2> SUFFICES ASSUME MonitorInv, [MonitorNext]_monitorVars,
                      phase # "serving", phase' = "serving", disk
               PROVE  unwritten' = {}
    OBVIOUS
  <2>1. PICK r \in Refreshers : WriteStatuses(r)
    BY OnlyWritten
  <2>2. QED
    BY <2>1 DEF WriteStatuses, MonitorInv, MonitorTypeOK
<1>2. QED
  BY <1>1, MonitorInvariance, PTL DEF MonitorSpec, ServesOnOwnFindings
=============================================================================
