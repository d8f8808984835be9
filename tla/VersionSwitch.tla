--------------------------- MODULE VersionSwitch ----------------------------
(***************************************************************************)
(* What handle_protocol_migration promises of a service, whatever loads,   *)
(* rollbacks, failing writes and restarts happen amid it.                  *)
(*                                                                         *)
(* The active version is switched by one migration at a time, from the     *)
(* version that this one was accepted against to the one it was asked for. *)
(* Nothing else changes it, and no restart does.  A migration that waits   *)
(* is told "drained" only when every request that was inside the old       *)
(* version at the switch has left.                                         *)
(***************************************************************************)
CONSTANTS Versions, Migrations, Users, None

VARIABLES
    active,  \* the version that requests are routed to
    holder,  \* the migration under way, or None
    stage,   \* of it: "none", "accepted", "switched" or "drained"
    from,    \* the version it replaces
    to,      \* the version it switches to, until it has
    inside,  \* the version that each request is inside, or None
    waits    \* requests that the migration under way waits for

migrationVars == <<holder, stage, from, to>>
vars == <<active, migrationVars, inside, waits>>

Nobody == inside = [u \in Users |-> None]

Free ==
    /\ holder' = None /\ stage' = "none"
    /\ from' = None /\ to' = None
    /\ waits' = {}

Init ==
    /\ active \in Versions
    /\ holder = None /\ stage = "none"
    /\ from = None /\ to = None
    /\ waits = {}
    /\ Nobody

Accept(m, v) ==
    /\ holder = None
    /\ v # active
    /\ holder' = m /\ stage' = "accepted"
    /\ from' = active /\ to' = v
    /\ UNCHANGED <<active, inside, waits>>

\* The reply comes at once, or after a drain.
Switch ==
    /\ stage = "accepted"
    /\ active = from
    /\ active' = to
    /\ \/ Free
       \/ /\ stage' = "switched"
          /\ to' = None
          /\ waits' = {u \in Users : inside[u] = from}
          /\ UNCHANGED <<holder, from>>
    /\ UNCHANGED inside

\* Rejected, not written, drained, or out of patience.
Reply ==
    /\ stage # "none"
    /\ Free
    /\ UNCHANGED <<active, inside>>

Enter(u, v) ==
    /\ inside[u] = None
    /\ inside' = [inside EXCEPT ![u] = v]
    /\ UNCHANGED <<active, migrationVars, waits>>

Exit(u) ==
    /\ inside[u] # None
    /\ inside' = [inside EXCEPT ![u] = None]
    /\ waits' = waits \ {u}
    /\ \/ UNCHANGED stage
       \/ stage = "switched" /\ waits' = {} /\ stage' = "drained"
    /\ UNCHANGED <<active, holder, from, to>>

Restart ==
    /\ Free
    /\ Nobody'
    /\ UNCHANGED active

Next ==
    \/ \E m \in Migrations, v \in Versions : Accept(m, v)
    \/ Switch \/ Reply \/ Restart
    \/ \E u \in Users : Exit(u) \/ \E v \in Versions : Enter(u, v)

Spec == Init /\ [][Next]_vars
=============================================================================
