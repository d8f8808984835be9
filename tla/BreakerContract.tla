-------------------------- MODULE BreakerContract --------------------------
(***************************************************************************)
(* What a circuit breaker promises the callers that share it, told by the  *)
(* history of their calls and without the breaker's own state: while fewer *)
(* than FailureThreshold failures have been reported since the last        *)
(* success, every call is admitted; after that a call is admitted only     *)
(* when RecoveryTime ticks have passed without a failure, and then one     *)
(* alone until an outcome is reported.                                     *)
(*                                                                         *)
(* The promise is deliberately about what was REPORTED.  An outcome counts *)
(* whichever admission it answers, and an admission that is never reported *)
(* (see Abandon) keeps its place as the one probe.                         *)
(***************************************************************************)
EXTENDS Naturals

CONSTANTS Callers, Forgetters, FailureThreshold, RecoveryTime

VARIABLES
    calling,  \* callers admitted and not yet finished
    streak,   \* failures reported since the last success, up to the threshold
    quiet,    \* ticks since the last failure, up to the recovery time
    probes    \* admissions since the last report, up to 2

vars == <<calling, streak, quiet, probes>>

Bounded(bound, n) == IF n < bound THEN n + 1 ELSE bound

Init ==
    /\ calling = {}
    /\ streak = 0
    /\ quiet = 0
    /\ probes = 0

MayAdmit ==
    \/ streak < FailureThreshold
    \/ quiet >= RecoveryTime /\ probes = 0

Admit(c) ==
    /\ c \notin calling
    /\ MayAdmit
    /\ calling' = calling \cup {c}
    /\ probes' = Bounded(2, probes)
    /\ UNCHANGED <<streak, quiet>>

ReportSuccess(c) ==
    /\ c \in calling
    /\ calling' = calling \ {c}
    /\ streak' = 0
    /\ probes' = 0
    /\ UNCHANGED quiet

ReportFailure(c) ==
    /\ c \in calling
    /\ calling' = calling \ {c}
    /\ streak' = Bounded(FailureThreshold, streak)
    /\ quiet' = 0
    /\ probes' = 0

Abandon(c) ==
    /\ c \in calling \cap Forgetters
    /\ calling' = calling \ {c}
    /\ UNCHANGED <<streak, quiet, probes>>

Tick ==
    /\ quiet' = Bounded(RecoveryTime, quiet)
    /\ UNCHANGED <<calling, streak, probes>>

Next ==
    \/ \E c \in Callers : Admit(c) \/ ReportSuccess(c)
                            \/ ReportFailure(c) \/ Abandon(c)
    \/ Tick

Spec == Init /\ [][Next]_vars
=============================================================================
