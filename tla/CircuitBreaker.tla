--------------------------- MODULE CircuitBreaker ---------------------------
(***************************************************************************)
(* The per-backend circuit breaker of src/core/circuit_breaker.py, as a    *)
(* record and the functions its methods compute on it.                     *)
(*                                                                         *)
(* Every method takes the breaker's own asyncio lock and never suspends    *)
(* while it holds it, so each method is one atomic step; the modules that  *)
(* use a breaker therefore apply these functions inside their own actions. *)
(*                                                                         *)
(* Time is counted in ticks.  The code stores the instant of the last      *)
(* state change and compares "now - last_state_change" with the recovery   *)
(* time, once: "age" is that difference, which need not be counted beyond  *)
(* RecoveryTime.  failure_count grows without bound in the code while late *)
(* failures reach an open breaker, and is only ever compared with the      *)
(* threshold: it is counted up to FailureThreshold.                        *)
(***************************************************************************)
EXTENDS Naturals

CONSTANTS FailureThreshold,  \* consecutive failures that open the breaker
          RecoveryTime       \* ticks an open breaker refuses every call

ASSUME FailureThresholdAssumption == FailureThreshold \in Nat \ {0}
ASSUME RecoveryTimeAssumption == RecoveryTime \in Nat \ {0}

CircuitState == {"CLOSED", "OPEN", "HALF_OPEN"}

Breaker == [state         : CircuitState,
            failure_count : 0..FailureThreshold,
            age           : 0..RecoveryTime,
            probe         : BOOLEAN]  \* _half_open_probe_in_flight

NewBreaker ==
    [state |-> "CLOSED", failure_count |-> 0, age |-> 0, probe |-> FALSE]

\* n + 1, counted no further than bound.
UpTo(bound, n) == IF n < bound THEN n + 1 ELSE bound

Elapse(b) == [b EXCEPT !.age = UpTo(RecoveryTime, @)]

-----------------------------------------------------------------------------
(* allow_request: whether it returns True, and what it leaves behind then.  *)
(* A refused call changes nothing.                                          *)

\* Mutant: one tick too early.
CooledEarly(b) == b.age + 1 >= RecoveryTime

Cooled(b) == b.age >= RecoveryTime

\* Mutant: a half-open breaker does not look at its probe flag.
AdmitsBesideProbe(b) ==
    \/ b.state \in {"CLOSED", "HALF_OPEN"}
    \/ b.state = "OPEN" /\ Cooled(b)

Admits(b) ==
    \/ b.state = "CLOSED"
    \/ b.state = "OPEN" /\ Cooled(b)
    \/ b.state = "HALF_OPEN" /\ ~b.probe

Admitted(b) ==
    IF b.state = "CLOSED" THEN b
    ELSE [b EXCEPT !.state = "HALF_OPEN",
                   !.probe = TRUE,
                   !.age   = IF b.state = "OPEN" THEN 0 ELSE @]

-----------------------------------------------------------------------------
(* record_success and record_failure are unconditional: the breaker does    *)
(* not know which admission an outcome belongs to.                          *)

\* Mutant: the count of failures survives a success.
RecordSuccessKeepsCount(b) ==
    [b EXCEPT !.state = "CLOSED", !.probe = FALSE, !.age = 0]

RecordSuccess(b) ==
    [b EXCEPT !.state = "CLOSED", !.failure_count = 0,
              !.probe = FALSE, !.age = 0]

CountFailure(b) ==
    IF b.state = "HALF_OPEN" THEN FailureThreshold
    ELSE UpTo(FailureThreshold, b.failure_count)

\* Mutant: a failure that reaches an open breaker does not restart its clock.
TripOnce(b) ==
    IF b.state = "OPEN" THEN b
    ELSE [b EXCEPT !.state = "OPEN", !.probe = FALSE, !.age = 0]

Trip(b) == [b EXCEPT !.state = "OPEN", !.probe = FALSE, !.age = 0]

\* Mutant: the outcome of a failed probe is not recorded.
RecordFailureOfClosed(b) == IF b.state = "HALF_OPEN" THEN b ELSE Trip(b)

RecordFailure(b) ==
    LET counted == [b EXCEPT !.failure_count = CountFailure(b)]
    IN  IF counted.failure_count >= FailureThreshold
        THEN Trip(counted) ELSE counted

-----------------------------------------------------------------------------
(* The relation between the fields that every use of a breaker preserves.   *)

Consistent(b) ==
    /\ b.state = "CLOSED" <=> b.failure_count < FailureThreshold
    /\ b.state = "HALF_OPEN" <=> b.probe
=============================================================================
