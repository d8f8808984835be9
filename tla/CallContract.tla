---------------------------- MODULE CallContract ----------------------------
(***************************************************************************)
(* What BaseAdapter.execute promises its caller about the one request it   *)
(* is given (src/adapters/base.py:8-22, 59-85), whatever the protocol.  A  *)
(* result is only returned for a request that the backend ran.  An error   *)
(* with safe_to_fallback is only raised for one that it has not run and    *)
(* never will: "True only when the adapter knows the request was not       *)
(* dispatched, or when the backend explicitly rejected it before           *)
(* execution" (base.py:20-21).  Any other error promises nothing: the      *)
(* backend may run the request at any later time.                          *)
(*                                                                         *)
(* Router rests on this promise and keeps the like to its own clients;     *)
(* StreamCall and PluginCall keep it, UdpExchange unless the backend       *)
(* rejects one copy of a request and runs another.                         *)
(***************************************************************************)
CONSTANT Calls

VARIABLES
    held,    \* calls whose request the backend has, or may yet receive
    ran,     \* calls whose request it has run
    outcome  \* how each call ended: a result, or an error by its flag

vars == <<held, ran, outcome>>

Outcome == {"pending", "result", "safe_error", "error"}

Init ==
    /\ held = {}
    /\ ran = {}
    /\ outcome = [c \in Calls |-> "pending"]

Dispatch(c) ==
    /\ outcome[c] = "pending"
    /\ held' = held \cup {c}
    /\ UNCHANGED <<ran, outcome>>

Run(c) ==
    /\ c \in held
    /\ ran' = ran \cup {c}
    /\ UNCHANGED <<held, outcome>>

Return(c) ==
    /\ outcome[c] = "pending"
    /\ c \in ran
    /\ outcome' = [outcome EXCEPT ![c] = "result"]
    /\ UNCHANGED <<held, ran>>

\* From here on the backend holds nothing that it could run.
FailSafely(c) ==
    /\ outcome[c] = "pending"
    /\ c \notin ran
    /\ held' = held \ {c}
    /\ outcome' = [outcome EXCEPT ![c] = "safe_error"]
    /\ UNCHANGED ran

Fail(c) ==
    /\ outcome[c] = "pending"
    /\ outcome' = [outcome EXCEPT ![c] = "error"]
    /\ UNCHANGED <<held, ran>>

Next == \E c \in Calls : Dispatch(c) \/ Run(c) \/ Return(c) \/ FailSafely(c) \/ Fail(c)

Spec == Init /\ [][Next]_vars
=============================================================================
