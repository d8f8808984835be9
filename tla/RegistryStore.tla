--------------------------- MODULE RegistryStore ----------------------------
(***************************************************************************)
(* ServiceRegistry and its file: every update changes the memory, writes   *)
(* all of it to a temporary file, syncs that and renames it over the old   *)
(* one.  Each of these steps may raise, and then the memory is put back;   *)
(* the process may be killed or the power may fail between any two.        *)
(*                                                                         *)
(* No coroutine sees the steps apart: _persist_unlocked awaits nothing and *)
(* is called under the registry's lock.  A reader of an idle registry sees *)
(* its memory.  At a start the file may fail to be read although it is     *)
(* good: the gateway then answers with the defaults, and the first update  *)
(* puts these over all that was registered.                                *)
(*                                                                         *)
(* The file system: what is written is visible at once to every process    *)
(* and survives the loss of power once it is synced; a rename is visible   *)
(* at once and settles on the disk some time later.                        *)
(***************************************************************************)
CONSTANTS
    Services, Statuses, Versions, Metas,  \* Metas: the rest of an entry
    Defaults,                             \* what _init_defaults registers
    NoEntry, Absent, Unreadable, Down

Entries == [status : Statuses, version : Versions, meta : Metas]

\* load_state takes an empty registry for a mistake.
Registries ==
    {m \in [Services -> Entries \cup {NoEntry}] : \E s \in Services : m[s] # NoEntry}

ASSUME DefaultsAssumption == Defaults \in Registries
ASSUME MarksAssumption ==
    /\ NoEntry \notin Entries
    /\ Absent \notin Registries /\ Unreadable \notin Registries
    /\ Down \notin Registries
    /\ Absent # Unreadable

VARIABLES
    pc,       \* "down", "idle", or the step of _persist_unlocked that is next
    memory,   \* self._services
    before,   \* what the update puts back if it fails
    tmp,      \* the temporary file
    path,     \* the file at persistence_file
    settled   \* the file that is there after the power failed

vars == <<pc, memory, before, tmp, path, settled>>

Persisting == {"open", "write", "sync", "replace"}

File(content, synced) == [content |-> content, synced |-> synced]
Files == [content : Registries \cup {Absent, Unreadable}, synced : BOOLEAN]

TypeOK ==
    /\ pc \in {"down", "idle"} \cup Persisting
    /\ memory \in Registries
    /\ before \in Registries
    /\ tmp \in Files
    /\ path \in Files
    /\ settled \in Files

\* The gateway starts on no file, or on one that it has written.
Init ==
    /\ pc = "down"
    /\ memory = Defaults
    /\ before = Defaults
    /\ tmp = File(Absent, TRUE)
    /\ path \in {File(c, TRUE) : c \in Registries \cup {Absent}}
    /\ settled = path

-----------------------------------------------------------------------------
(* The operations.                                                          *)

\* Mutant: what is read is taken as it is.
LoadedUnchecked(content) == content

\* What load_state makes of the file.
Loaded(content) == IF content \in Registries THEN content ELSE Defaults

Registered(m) == {s \in Services : m[s] # NoEntry}

\* update_status writes nothing if the status is what it was.
UpdateStatus(m) ==
    {[m EXCEPT ![s].status = status] : s \in Registered(m), status \in Statuses} \ {m}

UpdateVersion(m) ==
    {[m EXCEPT ![s].version = v] : s \in Registered(m), v \in Versions}
        \cup {[m EXCEPT ![s] = [status |-> m[s].status, version |-> v, meta |-> meta]] :
                s \in Registered(m), v \in Versions, meta \in Metas}

UpdateMetadata(m) ==
    {[m EXCEPT ![s].meta = meta] : s \in Registered(m), meta \in Metas}

RegisterService(m) ==
    {[m EXCEPT ![s] = entry] : s \in Services, entry \in Entries}

Updates(m) ==
    UpdateStatus(m) \cup UpdateVersion(m) \cup UpdateMetadata(m) \cup RegisterService(m)

Start ==
    /\ pc = "down"
    /\ memory' = Loaded(path.content)
    /\ before' = memory'
    /\ pc' = IF path.content = Absent THEN "open" ELSE "idle"
    /\ UNCHANGED <<tmp, path, settled>>

\* read_text raises: the defaults stay in memory, over a file that is kept.
StartBlind ==
    /\ pc = "down"
    /\ path.content # Absent
    /\ memory' = Defaults
    /\ before' = memory'
    /\ pc' = "idle"
    /\ UNCHANGED <<tmp, path, settled>>

Update(new) ==
    /\ pc = "idle"
    /\ memory' = new
    /\ before' = memory
    /\ pc' = "open"
    /\ UNCHANGED <<tmp, path, settled>>

\* save_state, at shutdown: what fails has nothing to put back.
Save ==
    /\ pc = "idle"
    /\ before' = memory
    /\ pc' = "open"
    /\ UNCHANGED <<memory, tmp, path, settled>>

-----------------------------------------------------------------------------
(* _persist_unlocked.                                                       *)

\* Opening truncates what an interrupted write may have left.
Open ==
    /\ pc = "open"
    /\ pc' = "write"
    /\ tmp' = File(Unreadable, FALSE)
    /\ UNCHANGED <<memory, before, path, settled>>

Write ==
    /\ pc = "write"
    /\ pc' = "sync"
    /\ tmp' = File(memory, FALSE)
    /\ UNCHANGED <<memory, before, path, settled>>

\* Mutant: flush alone, without fsync.
FlushOnly ==
    /\ pc = "sync"
    /\ pc' = "replace"
    /\ UNCHANGED <<memory, before, tmp, path, settled>>

Sync ==
    /\ pc = "sync"
    /\ pc' = "replace"
    /\ tmp' = [tmp EXCEPT !.synced = TRUE]
    /\ UNCHANGED <<memory, before, path, settled>>

Replace ==
    /\ pc = "replace"
    /\ pc' = "idle"
    /\ path' = tmp
    /\ tmp' = File(Absent, TRUE)
    /\ before' = memory
    /\ UNCHANGED <<memory, settled>>

\* Mutant: the memory keeps what could not be stored.
FailsKeeping ==
    /\ pc \in Persisting
    /\ pc' = "idle"
    /\ UNCHANGED <<memory, before, tmp, path, settled>>

\* A step raises; the update puts the memory back and returns False.
Fails ==
    /\ pc \in Persisting
    /\ pc' = "idle"
    /\ memory' = before
    /\ UNCHANGED <<before, tmp, path, settled>>

-----------------------------------------------------------------------------
(* The system around it.                                                    *)

\* The next process begins with the defaults.
Ends ==
    /\ pc' = "down"
    /\ memory' = Defaults
    /\ before' = Defaults

\* Also the end of a gateway that is shut down.
Crash ==
    /\ pc # "down"
    /\ Ends
    /\ UNCHANGED <<tmp, path, settled>>

Settle ==
    /\ settled # path
    /\ settled' = path
    /\ UNCHANGED <<pc, memory, before, tmp, path>>

AfterPowerLoss(f) == IF f.synced THEN f ELSE File(Unreadable, TRUE)

PowerLoss ==
    /\ Ends
    /\ path' = AfterPowerLoss(settled)
    /\ settled' = path'
    /\ tmp' = File(Absent, TRUE)

Next ==
    \/ Start \/ StartBlind \/ Save
    \/ (\E new \in Updates(memory) : Update(new))
    \/ Open \/ Write \/ Sync \/ Replace \/ Fails
    \/ Crash \/ Settle \/ PowerLoss

Spec == Init /\ [][Next]_vars

-----------------------------------------------------------------------------
\* The file can be read whenever it is there, whatever was interrupted and
\* whichever step failed; else load_state would answer with the defaults, and
\* the next update would put them over all that was registered
\* (registry.py:121-138, 152-158).
NeverUnreadable ==
    path.content # Unreadable /\ AfterPowerLoss(settled).content # Unreadable

\* An update in progress has not happened yet.
Answers ==
    CASE pc = "down"       -> Down
      [] pc \in Persisting -> before
      [] OTHER             -> memory

Store == INSTANCE AtomicStore WITH
    Contents <- Registries,
    memory <- Answers,
    stored <- Loaded(path.content),
    durable <- Loaded(AfterPowerLoss(settled).content)

\* Memory and file change together or not at all, by one entry: an update that
\* was acknowledged survives a crash of the process, one that was not is gone
\* from both, and the loss of power takes back whole updates only.  What was
\* stored is replaced by anything else only by the first update after a start
\* that could not read it
\* (registry.py:121-138, 144-162, 176-185, 196-207, 210-219, 230-246).
ImplementsAtomicStore == Store!Spec
=============================================================================
