---------------------------- MODULE AtomicStore -----------------------------
(***************************************************************************)
(* What ServiceRegistry promises about its file (src/core/registry.py):    *)
(* an update changes one entry, of memory and file together or of neither; *)
(* a restart finds what was last stored, and a loss of power what was      *)
(* stored at some earlier time.  A restart that cannot read the file       *)
(* answers with the defaults, and the first update after it replaces all   *)
(* that was stored: what was acknowledged before is then lost.             *)
(***************************************************************************)
CONSTANTS Contents, Defaults, Down

VARIABLES
    memory,  \* what the running gateway answers with, or Down
    stored,  \* what a restart loads
    durable  \* what it loads if the power fails first

vars == <<memory, stored, durable>>

Init ==
    /\ memory = Down
    /\ stored \in Contents
    /\ durable = stored

ChangesOne(new) ==
    \A s, t \in DOMAIN new : new[s] # memory[s] /\ new[t] # memory[t] => s = t

Commit(new) ==
    /\ memory # Down
    /\ ChangesOne(new)
    /\ memory' = new
    /\ stored' = new
    /\ UNCHANGED durable

Settle ==
    /\ durable' = stored
    /\ UNCHANGED <<memory, stored>>

Crash ==
    /\ memory' = Down
    /\ UNCHANGED <<stored, durable>>

PowerLoss ==
    /\ memory' = Down
    /\ stored' = durable
    /\ UNCHANGED durable

Restart ==
    /\ memory = Down
    /\ memory' = stored
    /\ UNCHANGED <<stored, durable>>

RestartBlind ==
    /\ memory = Down
    /\ memory' = Defaults
    /\ UNCHANGED <<stored, durable>>

Next ==
    \/ \E new \in Contents : Commit(new)
    \/ Settle \/ Crash \/ PowerLoss \/ Restart \/ RestartBlind

Spec == Init /\ [][Next]_vars
=============================================================================
