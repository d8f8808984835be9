------------------------ MODULE BreakerCallers_proofs ------------------------
(***************************************************************************)
(* The safety of the breaker for every threshold, recovery time and set of *)
(* callers.  HistoryInv, which gives the breaker's state as a function of  *)
(* the history of reports, is inductive; the rest follows from it.         *)
(***************************************************************************)
EXTENDS BreakerCallers, TLAPS

USE FailureThresholdAssumption, RecoveryTimeAssumption
    DEF FailureThresholdAssumption, RecoveryTimeAssumption

-----------------------------------------------------------------------------
(* The inductive invariant.                                                 *)

LEMMA InitHistory == Init => HistoryInv
<1>1. Init => TypeOK
  BY DEF Init, TypeOK, NewBreaker, Breaker, CircuitState
<1>2. Init => ClosedCounts /\ OpenCools /\ HalfOpenProbes /\ HalfOpenQuiet
  BY DEF Init, NewBreaker, ClosedCounts, OpenCools, HalfOpenProbes, HalfOpenQuiet
<1>3. QED
  BY <1>1, <1>2 DEF HistoryInv

\* No step disturbs a type.
LEMMA NextTypes == TypeOK /\ [Next]_vars => TypeOK'
<1> SUFFICES ASSUME TypeOK, [Next]_vars
             PROVE  TypeOK'
  OBVIOUS
<1> USE DEF TypeOK, Breaker, CircuitState
<1>1. ASSUME NEW c \in Callers, Admit(c)
      PROVE  TypeOK'
  <2>1. CASE breaker.state = "CLOSED"
    BY <1>1, <2>1 DEF Admit, Admitted, UpTo
  <2>2. CASE breaker.state # "CLOSED"
    <3>1. /\ "HALF_OPEN" \in CircuitState /\ TRUE \in BOOLEAN
          /\ (IF breaker.state = "OPEN" THEN 0 ELSE breaker.age) \in 0..RecoveryTime
      OBVIOUS
    <3>2. Admitted(breaker) \in Breaker
      BY <2>2, <3>1 DEF Admitted
    <3>3. QED
      BY <1>1, <3>2 DEF Admit, UpTo
  <2>3. QED
    BY <2>1, <2>2
<1>2. ASSUME NEW c \in Callers, ReportSuccess(c)
      PROVE  TypeOK'
  <2>1. "CLOSED" \in CircuitState /\ 0 \in 0..FailureThreshold /\ 0 \in 0..RecoveryTime
    OBVIOUS
  <2>2. RecordSuccess(breaker) \in Breaker
    BY <2>1 DEF RecordSuccess
  <2>3. QED
    BY <1>2, <2>1, <2>2 DEF ReportSuccess
<1>3. ASSUME NEW c \in Callers, ReportFailure(c)
      PROVE  TypeOK'
  <2> DEFINE n == CountFailure(breaker)
  <2>1. /\ "OPEN" \in CircuitState /\ 0 \in 0..RecoveryTime
        /\ n \in 0..FailureThreshold
    BY DEF CountFailure, UpTo
  <2>2. RecordFailure(breaker) \in Breaker
    BY <2>1 DEF RecordFailure, Trip
  <2>3. QED
    BY <1>3, <2>1, <2>2 DEF ReportFailure, UpTo
<1>4. ASSUME NEW c \in Callers, Abandon(c)
      PROVE  TypeOK'
  BY <1>4 DEF Abandon, history
<1>5. CASE Tick
  BY <1>5 DEF Tick, Elapse, UpTo
<1>6. CASE UNCHANGED vars
  BY <1>6 DEF vars
<1>7. QED
  BY <1>1, <1>2, <1>3, <1>4, <1>5, <1>6 DEF Next, Report

\* Every step leaves the breaker the function of history that it was.
LEMMA NextHistory == HistoryInv /\ [Next]_vars => HistoryInv'
<1> SUFFICES ASSUME HistoryInv, [Next]_vars
             PROVE  HistoryInv'
  OBVIOUS
<1>0. TypeOK'
  BY NextTypes DEF HistoryInv
<1> DEFINE Shape == ClosedCounts /\ OpenCools /\ HalfOpenProbes /\ HalfOpenQuiet
<1> USE DEF HistoryInv, TypeOK, Breaker, CircuitState,
            ClosedCounts, OpenCools, HalfOpenProbes, HalfOpenQuiet
<1>1. ASSUME NEW c \in Callers, Admit(c)
      PROVE  Shape'
  <2>1. CASE breaker.state = "CLOSED"
    BY <1>1, <2>1 DEF Admit, Admitted
  <2>2. CASE breaker.state = "OPEN"
    BY <1>1, <2>2 DEF Admit, Admitted, UpTo
  <2>3. CASE breaker.state = "HALF_OPEN"
    BY <1>1, <2>3 DEF Admit, Admits, Cooled
  <2>4. QED
    BY <2>1, <2>2, <2>3
<1>2. ASSUME NEW c \in Callers, ReportSuccess(c)
      PROVE  Shape'
  BY <1>2 DEF ReportSuccess, RecordSuccess
<1>3. ASSUME NEW c \in Callers, ReportFailure(c)
      PROVE  Shape'
  BY <1>3 DEF ReportFailure, RecordFailure, CountFailure, Trip, UpTo
<1>4. ASSUME NEW c \in Callers, Abandon(c)
      PROVE  Shape'
  BY <1>4 DEF Abandon, history
<1>5. CASE Tick
  BY <1>5 DEF Tick, Elapse, UpTo
<1>6. CASE UNCHANGED vars
  BY <1>6 DEF vars
<1>7. Shape'
  BY <1>1, <1>2, <1>3, <1>4, <1>5, <1>6 DEF Next, Report
<1>8. QED
  BY <1>0, <1>7

\* The state of a breaker is, at every moment and for every threshold, recovery
\* time and set of callers, the function of the reports that HistoryInv states
\* (circuit_breaker.py:31-69).
THEOREM HistoryInvariant == Spec => []HistoryInv
<1>1. QED
  BY InitHistory, NextHistory, PTL DEF Spec

-----------------------------------------------------------------------------
(* What follows from it.                                                    *)

\* The values of BreakerCallers keep their types.
THEOREM TypeCorrect == Spec => []TypeOK
<1>1. HistoryInv => TypeOK
  BY DEF HistoryInv
<1>2. QED
  BY <1>1, HistoryInvariant, PTL

\* The breaker's fields agree with each other.
THEOREM ConsistentAlways == Spec => []BreakerConsistent
<1>1. HistoryInv => BreakerConsistent
  BY DEF HistoryInv, TypeOK, Breaker, ClosedCounts, HalfOpenProbes, HalfOpenQuiet,
         BreakerConsistent, Consistent
<1>2. QED
  BY <1>1, HistoryInvariant, PTL

\* Past the threshold, at most one call is admitted between two reports.
THEOREM SingleProbeAlways == Spec => []SingleProbe
<1>1. HistoryInv => SingleProbe
  BY DEF HistoryInv, TypeOK, Breaker, CircuitState, ClosedCounts, OpenCools,
         HalfOpenProbes, SingleProbe
<1>2. QED
  BY <1>1, HistoryInvariant, PTL

\* The breaker admits exactly the calls that the history of reports allows.
LEMMA DecisionIsHistory == HistoryInv => DecidesByHistory
  BY DEF HistoryInv, TypeOK, Breaker, CircuitState, ClosedCounts, OpenCools,
         HalfOpenProbes, DecidesByHistory, Admits, Cooled, Contract!MayAdmit

THEOREM DecidesAlways == Spec => []DecidesByHistory
  BY DecisionIsHistory, HistoryInvariant, PTL

\* The breaker implements its contract: each step of the callers and the clock
\* is the step of the contract with the same name.
THEOREM ImplementsTheContract == Spec => ImplementsContract
<1>1. Init => Contract!Init
  BY DEF Init, Contract!Init
<1>2. HistoryInv /\ [Next]_vars => [Contract!Next]_(Contract!vars)
  <2> SUFFICES ASSUME HistoryInv, [Next]_vars
               PROVE  Contract!Next \/ UNCHANGED Contract!vars
    OBVIOUS
  <2>1. ASSUME NEW c \in Callers, Admit(c)
        PROVE  Contract!Admit(c)
    BY <2>1, DecisionIsHistory DEF DecidesByHistory, Admit, Contract!Admit, UpTo,
         Contract!Bounded
  <2>2. ASSUME NEW c \in Callers, ReportSuccess(c)
        PROVE  Contract!ReportSuccess(c)
    BY <2>2 DEF ReportSuccess, Contract!ReportSuccess
  <2>3. ASSUME NEW c \in Callers, ReportFailure(c)
        PROVE  Contract!ReportFailure(c)
    BY <2>3 DEF ReportFailure, Contract!ReportFailure, UpTo, Contract!Bounded
  <2>4. ASSUME NEW c \in Callers, Abandon(c)
        PROVE  Contract!Abandon(c)
    BY <2>4 DEF Abandon, Contract!Abandon, history
  <2>5. ASSUME Tick PROVE Contract!Tick
    BY <2>5 DEF Tick, Contract!Tick, UpTo, Contract!Bounded
  <2>6. CASE UNCHANGED vars
    BY <2>6 DEF vars, Contract!vars
  <2>7. QED
    BY <2>1, <2>2, <2>3, <2>4, <2>5, <2>6 DEF Next, Report, Contract!Next
<1>3. QED
  BY <1>1, <1>2, HistoryInvariant, PTL DEF Spec, ImplementsContract, Contract!Spec
=============================================================================
