--------------------------- MODULE HealthMonitor ----------------------------
(***************************************************************************)
(* CapabilityRouter.refresh_health under its three callers: the lifespan   *)
(* before the gateway serves, the monitor task for as long as it does, and *)
(* every GET /status.  Their refreshes overlap.                            *)
(*                                                                         *)
(* A refresh probes all backends at the same time, and writes what it      *)
(* found when the last probe is over: then, without awaiting anything that *)
(* could suspend it, every status in one step.  A status whose file cannot *)
(* be written is put back to what it was.  The registry's entries outlive  *)
(* the process.                                                            *)
(***************************************************************************)
EXTENDS Naturals

CONSTANTS
    Backends,
    Callers,      \* requests to GET /status that may run at the same time
    ProbeTimeout  \* HEALTHCHECK_TIMEOUT_S, in ticks

ASSUME TimeoutAssumption == ProbeTimeout \in Nat \ {0}

Refreshers == Callers \cup {"lifespan", "monitor"}

HealthStates == {"available", "unavailable"}

\* The oldest age that is told apart.
Old == ProbeTimeout + 1

VARIABLES
    phase,      \* of the process: "down", "starting" or "serving"
    status,     \* of each backend, in the registry
    refresh,    \* "idle" or "probing", for each refresher
    spent,      \* ticks since its probes began
    found,      \* what each of its probes has found
    up,         \* backends that would answer a probe in time
    disk,       \* the registry can be written
    sinceUp,    \* history: ticks since each backend was up, and
    sinceDown,  \* since it was down, up to Old
    unwritten   \* history: backends whose status this process has not set

processVars == <<phase, status, unwritten>>
probeVars == <<refresh, spent, found>>
worldVars == <<up, disk, sinceUp, sinceDown>>
monitorVars == <<processVars, probeVars, worldVars>>

MonitorTypeOK ==
    /\ phase \in {"down", "starting", "serving"}
    /\ status \in [Backends -> HealthStates]
    /\ unwritten \subseteq Backends
    /\ refresh \in [Refreshers -> {"idle", "probing"}]
    /\ spent \in [Refreshers -> 0..ProbeTimeout]
    /\ found \in [Refreshers -> [Backends -> HealthStates \cup {"nothing"}]]
    /\ up \subseteq Backends
    /\ disk \in BOOLEAN
    /\ sinceUp \in [Backends -> 0..Old]
    /\ sinceDown \in [Backends -> 0..Old]

Nothing == [b \in Backends |-> "nothing"]

MonitorInit ==
    /\ phase = "down"
    /\ status \in [Backends -> HealthStates]
    /\ unwritten = Backends
    /\ refresh = [r \in Refreshers |-> "idle"]
    /\ spent = [r \in Refreshers |-> 0]
    /\ found = [r \in Refreshers |-> Nothing]
    /\ up \in SUBSET Backends
    /\ disk = TRUE
    /\ sinceUp = [b \in Backends |-> IF b \in up THEN 0 ELSE Old]
    /\ sinceDown = [b \in Backends |-> IF b \in up THEN Old ELSE 0]

-----------------------------------------------------------------------------
(* The callers.                                                             *)

\* Mutant: the gateway serves on what the file said, and leaves the rest to
\* its monitor.
StartServing ==
    /\ phase = "down"
    /\ phase' = "serving"
    /\ unwritten' = Backends
    /\ UNCHANGED <<status, probeVars, worldVars>>

StartGateway ==
    /\ phase = "down"
    /\ phase' = "starting"
    /\ unwritten' = Backends
    /\ UNCHANGED <<status, probeVars, worldVars>>

MayRefresh(r) ==
    IF r = "lifespan" THEN phase = "starting" ELSE phase = "serving"

Begin(r) ==
    /\ MayRefresh(r)
    /\ refresh[r] = "idle"
    /\ refresh' = [refresh EXCEPT ![r] = "probing"]
    /\ UNCHANGED <<spent, found, processVars, worldVars>>

StatusOf(b) == IF b \in up THEN "available" ELSE "unavailable"

\* Whatever the probe ran into, an exception or its timeout, says not healthy.
Probe(r, b) ==
    /\ refresh[r] = "probing"
    /\ found[r][b] = "nothing"
    /\ found' = [found EXCEPT ![r][b] = StatusOf(b)]
    /\ UNCHANGED <<refresh, spent, processVars, worldVars>>

Probed(r) == refresh[r] = "probing" /\ \A b \in Backends : found[r][b] # "nothing"

\* Mutant: who is unavailable is not asked again.
WrittenSticky(r, failed) ==
    [b \in Backends |-> IF b \in failed \/ status[b] = "unavailable"
                        THEN status[b] ELSE found[r][b]]

\* update_status, for each result.  Nothing is written for a status that is
\* what it was; writing the others may fail while the disk does.
Written(r, failed) ==
    [b \in Backends |-> IF b \in failed THEN status[b] ELSE found[r][b]]

\* The end of a refresh.  The lifespan's lets the gateway serve.
WriteStatuses(r) ==
    /\ Probed(r)
    /\ \E failed \in SUBSET {b \in Backends : status[b] # found[r][b]} :
          /\ disk => failed = {}
          /\ status' = Written(r, failed)
          /\ unwritten' = unwritten \ (Backends \ failed)
    /\ phase' = IF r = "lifespan" THEN "serving" ELSE phase
    /\ refresh' = [refresh EXCEPT ![r] = "idle"]
    /\ spent' = [spent EXCEPT ![r] = 0]
    /\ found' = [found EXCEPT ![r] = Nothing]
    /\ UNCHANGED worldVars

\* A shutdown cancels the refreshes, a crash ends them; the entries stay.
Stop ==
    /\ phase # "down"
    /\ phase' = "down"
    /\ refresh' = [r \in Refreshers |-> "idle"]
    /\ spent' = [r \in Refreshers |-> 0]
    /\ found' = [r \in Refreshers |-> Nothing]
    /\ UNCHANGED <<status, unwritten, worldVars>>

-----------------------------------------------------------------------------
(* The world.                                                               *)

Flip(b) ==
    /\ up' = IF b \in up THEN up \ {b} ELSE up \cup {b}
    /\ sinceUp' = [sinceUp EXCEPT ![b] = 0]
    /\ sinceDown' = [sinceDown EXCEPT ![b] = 0]
    /\ UNCHANGED <<disk, processVars, probeVars>>

DiskTurns ==
    /\ disk' = ~disk
    /\ UNCHANGED <<up, sinceUp, sinceDown, processVars, probeVars>>

\* A timer of a probe that is due, or a refresh that has all its results.
Due(r) == Probed(r) \/ (refresh[r] = "probing" /\ spent[r] = ProbeTimeout)

Aged(age, fresh) ==
    [b \in Backends |-> IF b \in fresh THEN 0
                        ELSE IF age[b] < Old THEN age[b] + 1 ELSE Old]

\* Mutant: a probe has no timeout.
TickUntimed ==
    /\ \A r \in Refreshers : ~Probed(r)
    /\ spent' = [r \in Refreshers |->
                   IF refresh[r] = "probing" THEN spent[r] + 1 ELSE spent[r]]
    /\ sinceUp' = Aged(sinceUp, up)
    /\ sinceDown' = Aged(sinceDown, Backends \ up)
    /\ UNCHANGED <<processVars, refresh, found, up, disk>>

Tick ==
    /\ \A r \in Refreshers : ~Due(r)
    /\ spent' = [r \in Refreshers |->
                   IF refresh[r] = "probing" THEN spent[r] + 1 ELSE spent[r]]
    /\ sinceUp' = Aged(sinceUp, up)
    /\ sinceDown' = Aged(sinceDown, Backends \ up)
    /\ UNCHANGED <<processVars, refresh, found, up, disk>>

MonitorNext ==
    \/ StartGateway \/ Stop \/ DiskTurns \/ Tick
    \/ \E b \in Backends : Flip(b)
    \/ \E r \in Refreshers :
          Begin(r) \/ WriteStatuses(r) \/ \E b \in Backends : Probe(r, b)

MonitorSpec == MonitorInit /\ [][MonitorNext]_monitorVars

\* The event loop runs its tasks and timers, and the gateway is started again.
FairMonitorSpec ==
    /\ MonitorSpec
    /\ WF_monitorVars(StartGateway)
    /\ WF_monitorVars(Tick)
    /\ \A r \in {"lifespan", "monitor"} : WF_monitorVars(Begin(r))
    /\ \A r \in Refreshers : WF_monitorVars(WriteStatuses(r))
    /\ \A r \in Refreshers, b \in Backends : WF_monitorVars(Probe(r, b))

-----------------------------------------------------------------------------
\* However slow the slowest probe is and however refreshes overlap, a status
\* is set to what the backend was at most one timeout before
\* (router.py:72-94): the routing of a request is never on older news than
\* that and the time since the last refresh.
WrittenWhileRecent ==
    [][\A b \in Backends : status'[b] # status[b] =>
          IF status'[b] = "available" THEN sinceUp[b] <= ProbeTimeout
                                    ELSE sinceDown[b] <= ProbeTimeout]_monitorVars

\* No request is served on the statuses a former process left in the file,
\* unless they could not be written (main.py:50-52, 62-64).
ServesOnOwnFindings ==
    [][phase # "serving" /\ phase' = "serving" /\ disk => unwritten' = {}]_monitorVars

\* A backend that stays up, or down, is known to be so in the end, if only the
\* file can be written and the gateway runs (main.py:54-60, router.py:68-94).
Settled(b) == status[b] = StatusOf(b)
EventuallyKnown ==
    \A b \in Backends :
        /\ <>[](disk /\ phase = "serving" /\ b \in up) => <>[]Settled(b)
        /\ <>[](disk /\ phase = "serving" /\ b \notin up) => <>[]Settled(b)

-----------------------------------------------------------------------------
(* The inductive invariant: who may be refreshing in which phase, and how   *)
(* old what a probe has found can be.                                       *)

\* Before the gateway serves only the lifespan refreshes, and only then.
RefreshersFit ==
    \A r \in Refreshers :
        /\ refresh[r] = "probing" => phase = IF r = "lifespan" THEN "starting"
                                                              ELSE "serving"
        /\ refresh[r] = "idle" => spent[r] = 0 /\ found[r] = Nothing

FindingsAreRecent ==
    \A r \in Refreshers, b \in Backends :
        /\ found[r][b] = "available" => sinceUp[b] <= spent[r]
        /\ found[r][b] = "unavailable" => sinceDown[b] <= spent[r]

AgesFit ==
    \A b \in Backends : IF b \in up THEN sinceUp[b] = 0 ELSE sinceDown[b] = 0

MonitorInv == MonitorTypeOK /\ RefreshersFit /\ FindingsAreRecent /\ AgesFit
=============================================================================
