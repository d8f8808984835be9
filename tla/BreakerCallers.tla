--------------------------- MODULE BreakerCallers ---------------------------
(***************************************************************************)
(* One breaker shared by concurrent requests.  A caller asks for admission *)
(* (router.py:149-150), is away for as long as the backend takes, and then *)
(* reports an outcome in one of the except clauses of execute_request, or  *)
(* leaves without reporting one.  Between its admission and its report any *)
(* number of other callers act and any time passes, so an outcome often    *)
(* reaches a breaker in a state later than the one that admitted the call. *)
(*                                                                         *)
(* streak, quiet and probes are history variables: no action reads them.   *)
(***************************************************************************)
EXTENDS CircuitBreaker

CONSTANTS Callers,    \* the requests in progress
          Forgetters  \* those that may return without reporting an outcome

ASSUME ForgettersAssumption == Forgetters \subseteq Callers

VARIABLES
    breaker,  \* the CircuitBreaker instance of one backend
    calling,  \* callers admitted and not yet finished
    streak,   \* failures reported since the last success, up to the threshold
    quiet,    \* ticks since the last failure, up to the recovery time
    probes    \* admissions since the last report, up to 2

history == <<streak, quiet, probes>>
vars == <<breaker, calling, streak, quiet, probes>>

TypeOK ==
    /\ breaker \in Breaker
    /\ calling \subseteq Callers
    /\ streak \in 0..FailureThreshold
    /\ quiet \in 0..RecoveryTime
    /\ probes \in 0..2

Init ==
    /\ breaker = NewBreaker
    /\ calling = {}
    /\ streak = 0
    /\ quiet = 0
    /\ probes = 0

-----------------------------------------------------------------------------
Admit(c) ==
    /\ c \notin calling
    /\ Admits(breaker)
    /\ breaker' = Admitted(breaker)
    /\ calling' = calling \cup {c}
    /\ probes' = UpTo(2, probes)
    /\ UNCHANGED <<streak, quiet>>

ReportSuccess(c) ==
    /\ c \in calling
    /\ breaker' = RecordSuccess(breaker)
    /\ calling' = calling \ {c}
    /\ streak' = 0
    /\ probes' = 0
    /\ UNCHANGED quiet

ReportFailure(c) ==
    /\ c \in calling
    /\ breaker' = RecordFailure(breaker)
    /\ calling' = calling \ {c}
    /\ streak' = UpTo(FailureThreshold, streak)
    /\ quiet' = 0
    /\ probes' = 0

\* router.py:157-163 and 194-198, and 207-216 for an error that is neither
\* retryable nor a protocol violation: the loop goes on, or the request ends,
\* with no call of record_success or record_failure.  A call that never comes
\* back (a cancelled one, waiting for its writer to close, service_b.py:173-179)
\* counts as one that has left.
Abandon(c) ==
    /\ c \in calling \cap Forgetters
    /\ calling' = calling \ {c}
    /\ UNCHANGED <<breaker, history>>

Tick ==
    /\ breaker' = Elapse(breaker)
    /\ quiet' = UpTo(RecoveryTime, quiet)
    /\ UNCHANGED <<calling, streak, probes>>

Report(c) == ReportSuccess(c) \/ ReportFailure(c)

Next ==
    \/ \E c \in Callers : Admit(c) \/ Report(c) \/ Abandon(c)
    \/ Tick

Spec == Init /\ [][Next]_vars

\* Time passes, and who has not left without a report comes to report.
Fairness == WF_vars(Tick) /\ \A c \in Callers : WF_vars(Report(c))

FairSpec == Spec /\ Fairness

-----------------------------------------------------------------------------
\* The fields of the breaker agree: it is closed exactly while the count is
\* below the threshold, whichever late outcome arrives, and half-open exactly
\* while it holds a probe - so the second test of allow_request
\* (circuit_breaker.py:45-47) can never admit a call.
BreakerConsistent == Consistent(breaker)

\* Once the failures of FailureThreshold calls have been reported with no
\* success among them, at most one call is admitted between two reports, even
\* when outcomes of calls admitted long before keep arriving
\* (circuit_breaker.py:31-69).
SingleProbe == streak >= FailureThreshold => probes <= 1

Contract == INSTANCE BreakerContract

\* The state machine of circuit_breaker.py is one of the contract's: it admits
\* no call that the history of reports forbids.
ImplementsContract == Contract!Spec

\* And it refuses no call that the history allows: state, failure_count, probe
\* flag and clock together decide exactly as the history of reports does.
DecidesByHistory == Admits(breaker) <=> Contract!MayAdmit

\* A breaker that refuses for ever is one whose last admitted call has left
\* without a report: whatever else happens, it is willing to admit again and
\* again (circuit_breaker.py:34-47; router.py:157-163, 194-198).
LeftUnreported == calling = {} /\ probes > 0
NeverStuck == []<>(Admits(breaker) \/ LeftUnreported)

-----------------------------------------------------------------------------
(* The inductive invariant: the breaker's state as a function of history.   *)

ClosedCounts ==
    /\ breaker.state = "CLOSED" <=> streak < FailureThreshold
    /\ breaker.failure_count = streak

OpenCools == breaker.state = "OPEN" => breaker.age = quiet /\ probes = 0

HalfOpenProbes == breaker.state = "HALF_OPEN" => breaker.probe /\ probes = 1

HalfOpenQuiet == breaker.probe => breaker.state = "HALF_OPEN"

HistoryInv ==
    /\ TypeOK
    /\ ClosedCounts
    /\ OpenCools
    /\ HalfOpenProbes
    /\ HalfOpenQuiet
=============================================================================
