---------------------------- MODULE Router_proofs ----------------------------
(***************************************************************************)
(* The safety of fallback for every set of services, requests, operations  *)
(* and versions, every registry and every priority.  RouteInv is           *)
(* inductive: a request is held by no backend but the one it tried last,   *)
(* and by none while it is being routed.                                   *)
(***************************************************************************)
EXTENDS Router, FiniteSetTheorems, WellFoundedInduction, TLAPS

USE FailureThresholdAssumption, RecoveryTimeAssumption
    DEF FailureThresholdAssumption, RecoveryTimeAssumption

-----------------------------------------------------------------------------
(* What the methods of the breaker do to its fields.                        *)

\* A new breaker is a breaker.
LEMMA NewBreakerType == NewBreaker \in Breaker
  BY DEF NewBreaker, Breaker, CircuitState

\* The values that the methods assign are of the fields' types.
LEMMA FieldValues ==
    /\ CircuitState = {"CLOSED", "OPEN", "HALF_OPEN"}
    /\ "CLOSED" \in CircuitState
    /\ "OPEN" \in CircuitState
    /\ "HALF_OPEN" \in CircuitState
    /\ 0 \in 0..FailureThreshold
    /\ 0 \in 0..RecoveryTime
    /\ TRUE \in BOOLEAN
    /\ FALSE \in BOOLEAN
  BY DEF CircuitState

\* Every method returns a breaker.
LEMMA MethodTypes ==
    ASSUME NEW b \in Breaker
    PROVE  /\ Elapse(b) \in Breaker
           /\ Admitted(b) \in Breaker
           /\ RecordSuccess(b) \in Breaker
           /\ RecordFailure(b) \in Breaker
<1>1. Elapse(b) \in Breaker
  BY DEF Elapse, Breaker, UpTo
<1>2. Admitted(b) \in Breaker
  <2>1. CASE b.state = "CLOSED"
    BY <2>1 DEF Admitted
  <2>2. CASE b.state # "CLOSED"
    <3>1. (IF b.state = "OPEN" THEN 0 ELSE b.age) \in 0..RecoveryTime
      BY FieldValues DEF Breaker
    <3>2. QED
      BY <2>2, <3>1, FieldValues DEF Admitted, Breaker
  <2>3. QED
    BY <2>1, <2>2
<1>3. RecordSuccess(b) \in Breaker
  BY FieldValues DEF RecordSuccess, Breaker
<1>4. RecordFailure(b) \in Breaker
  <2>1. CountFailure(b) \in 0..FailureThreshold
    BY DEF CountFailure, Breaker, UpTo
  <2>2. [b EXCEPT !.failure_count = CountFailure(b)] \in Breaker
    BY <2>1 DEF Breaker
  <2>3. ASSUME NEW d \in Breaker PROVE Trip(d) \in Breaker
    BY FieldValues DEF Trip, Breaker
  <2>4. QED
    BY <2>2, <2>3 DEF RecordFailure
<1>5. QED
  BY <1>1, <1>2, <1>3, <1>4

-----------------------------------------------------------------------------
\* Every method, admission included only where it is granted, preserves the
\* relation between state, count and probe flag (circuit_breaker.py:31-69).
LEMMA MethodsConsistent ==
    ASSUME NEW b \in Breaker, Consistent(b)
    PROVE  /\ Consistent(Elapse(b))
           /\ Admits(b) => Consistent(Admitted(b))
           /\ Consistent(RecordSuccess(b))
           /\ Consistent(RecordFailure(b))
<1> USE DEF Breaker, CircuitState, Consistent
<1>1. Consistent(Elapse(b))
  BY DEF Elapse
<1>2. Admits(b) => Consistent(Admitted(b))
  BY DEF Admits, Admitted
<1>3. Consistent(RecordSuccess(b))
  BY DEF RecordSuccess
<1>4. Consistent(RecordFailure(b))
  BY DEF RecordFailure, CountFailure, Trip, UpTo
<1>5. QED
  BY <1>1, <1>2, <1>3, <1>4

-----------------------------------------------------------------------------
(* The steps of a request, by what they do to its own variables.            *)

\* The call ends the request, by a result or by a break; the backend keeps what
\* it was sent.
Ends(r) ==
    \E how \in {"succeeded", "stopped"}, code \in Codes, retryable \in BOOLEAN :
        /\ how = "succeeded" => tried[r] \in executed[r]
        /\ Finished(r, how, code, retryable)
        /\ UNCHANGED sent

\* The call ends with an error that takes the request to the next candidate.
FallsBack(r) ==
    \E code \in Codes, retryable \in BOOLEAN :
        /\ RejectedUnrun(r)
        /\ Note(r, code, retryable)
        /\ UNCHANGED untried

Leaves(r) ==
    /\ Release(r)
    /\ breaker' \in [Services -> Breaker]
    /\ UNCHANGED <<status, tried, executed>>
    /\ Ends(r) \/ FallsBack(r)

\* A request that no backend holds is refused.
Refused(r) ==
    /\ pc[r] \in {"new", "routing"}
    /\ \E code \in Codes, retryable \in BOOLEAN :
          Finished(r, "refused", code, retryable)
    /\ UNCHANGED <<status, breaker, in_flight, tried, backendVars>>

\* A candidate is passed over.
Skips(r, s) ==
    /\ pc[r] = "routing"
    /\ s \in Services
    /\ untried' = [untried EXCEPT ![r] = @ \ {s}]
    /\ tried' = [tried EXCEPT ![r] = s]
    /\ breaker' \in [Services -> Breaker]
    /\ \E code \in Codes, retryable \in BOOLEAN : Note(r, code, retryable)
    /\ UNCHANGED <<status, in_flight, backendVars>>

\* The outcomes that the breaker of the tried service may record keep its type.
LEMMA RecordsTyped ==
    ASSUME TypeOK, NEW r \in Requests
    PROVE  /\ RecordsSuccess(r) => breaker' \in [Services -> Breaker]
           /\ RecordsFailure(r) => breaker' \in [Services -> Breaker]
  BY MethodTypes DEF TypeOK, RecordsSuccess, RecordsFailure

\* Every way out of a call is an Ends or a FallsBack; the timer only cancels.
LEMMA ReturnsLeave ==
    ASSUME RouteInv, NEW r \in Requests, Returns(r)
    PROVE  Leaves(r) \/ TimerFires(r)
<1>0. TypeOK
  BY DEF RouteInv
<1> USE DEF Leaves, Codes
<1>1. CASE Succeed(r)
  BY <1>0, <1>1, RecordsTyped DEF Succeed, Ends, backendVars
<1>2. CASE NonObjectResult(r)
  BY <1>0, <1>2, RecordsTyped DEF NonObjectResult, Ends, backendVars
<1>3. CASE UnsupportedOperation(r)
  BY <1>0, <1>3 DEF UnsupportedOperation, FallsBack, TypeOK
<1>4. ASSUME NEW safe \in BOOLEAN, BackendTimeout(r, safe)
      PROVE  Leaves(r)
  BY <1>0, <1>4, RecordsTyped DEF BackendTimeout, ContinueOrBreak, Ends, FallsBack
<1>5. ASSUME NEW e \in AdapterFailures, AdapterFails(r, e)
      PROVE  Leaves(r)
  <2>1. breaker' \in [Services -> Breaker]
    BY <1>0, <1>5, RecordsTyped DEF AdapterFails, TypeOK
  <2>2. CASE e.safe_to_fallback
    BY <1>5, <2>1, <2>2 DEF AdapterFails, ContinueOrBreak, FallsBack, AdapterFailures
  <2>3. CASE ~e.safe_to_fallback
    BY <1>5, <2>1, <2>3 DEF AdapterFails, ContinueOrBreak, Ends, AdapterFailures
  <2>4. QED
    BY <2>2, <2>3
<1>6. CASE AdapterCrashes(r)
  BY <1>0, <1>6, RecordsTyped DEF AdapterCrashes, Ends, backendVars
<1>7. CASE CallTimesOut(r)
  BY <1>0, <1>7, RecordsTyped DEF CallTimesOut, Ends, backendVars
<1>8. QED
  BY <1>1, <1>2, <1>3, <1>4, <1>5, <1>6, <1>7 DEF Returns

\* Every step of the candidate loop is a call, a pass over a candidate or the
\* end of the request.
LEMMA RoutesShape ==
    ASSUME RouteInv, NEW r \in Requests, Routes(r)
    PROVE  \/ Refused(r)
           \/ \E s \in Services : Skips(r, s) \/ Call(r, s)
<1> USE DEF RouteInv, TypeOK, Inwards, Ended
<1>1. CASE OutOfBudget(r)
  BY <1>1 DEF OutOfBudget, Refused, Codes
<1>2. CASE GiveUp(r)
  <2>1. /\ answer[r].code \in Codes
        /\ answer[r].retryable \in BOOLEAN
    BY <1>2 DEF GiveUp, Answer
  <2>2. QED
    BY <1>2, <2>1 DEF GiveUp, Refused
<1>3. ASSUME NEW s \in Services, CircuitRefuses(r, s)
      PROVE  Skips(r, s)
  BY <1>3 DEF CircuitRefuses, Reach, Skips, Codes
<1>4. ASSUME NEW s \in Services, NoAdapter(r, s)
      PROVE  Skips(r, s)
  <2>1. breaker' \in [Services -> Breaker]
    BY <1>4, MethodTypes DEF NoAdapter
  <2>2. QED
    BY <1>4, <2>1 DEF NoAdapter, Reach, Skips, Codes
<1>5. QED
  BY <1>1, <1>2, <1>3, <1>4 DEF Routes

\* A request is refused on arrival, or enters the loop.
LEMMA EntersShape ==
    ASSUME NEW r \in Requests, Enters(r)
    PROVE  \/ Refused(r)
           \/ \E a \in Asks, budget \in 1..MaxBudget : Arrive(r, a, budget)
  BY DEF Enters, RefuseUnknownOperation, RefuseUnavailable, Refused, Codes

-----------------------------------------------------------------------------
(* Who is inside a service, and how many.                                   *)

LEMMA InsideFinite ==
    ASSUME NEW s \in Services
    PROVE  IsFiniteSet(Inside(s)) /\ Cardinality(Inside(s)) \in Nat
  BY FiniteAssumption, FS_Subset, FS_CardinalityType DEF Inside, FiniteAssumption

LEMMA CallCounts ==
    ASSUME RouteInv, NEW r \in Requests, NEW s \in Services, Call(r, s)
    PROVE  InFlightCounts' /\ in_flight' \in [Services -> Nat]
<1> USE DEF RouteInv, TypeOK, Inwards, Ended
<1>1. /\ pc[r] = "routing"
      /\ pc' = [pc EXCEPT ![r] = "calling"]
      /\ tried' = [tried EXCEPT ![r] = s]
      /\ in_flight' = [in_flight EXCEPT ![s] = @ + 1]
  BY DEF Call, Reach
<1>2. r \notin Inside(s) /\ Inside(s)' = Inside(s) \cup {r}
  BY <1>1 DEF Inside
<1>3. \A t \in Services \ {s} : Inside(t)' = Inside(t)
  BY <1>1 DEF Inside
<1>4. Cardinality(Inside(s)') = Cardinality(Inside(s)) + 1
  BY <1>2, InsideFinite, FS_AddElement
<1>5. QED
  BY <1>1, <1>3, <1>4 DEF InFlightCounts

LEMMA ReleaseCounts ==
    ASSUME RouteInv, NEW r \in Requests, Leaves(r)
    PROVE  InFlightCounts' /\ in_flight' \in [Services -> Nat]
<1> USE DEF RouteInv, TypeOK, Inwards, Ended
<1>1. PICK s \in Services : s = tried[r]
  BY DEF Leaves, Release, HeldWhileCalling
<1>2. /\ pc[r] \in Inwards
      /\ in_flight' = [in_flight EXCEPT ![s] = @ - 1]
      /\ tried' = tried
  BY <1>1 DEF Leaves, Release
<1>3. \E x \in {"routing", "succeeded", "stopped"} : pc' = [pc EXCEPT ![r] = x]
  BY DEF Leaves, Ends, FallsBack, Finished, Note
<1>4. r \in Inside(s) /\ Inside(s)' = Inside(s) \ {r}
  BY <1>1, <1>2, <1>3 DEF Inside, Inwards
<1>5. \A t \in Services \ {s} : Inside(t)' = Inside(t)
  BY <1>1, <1>2, <1>3 DEF Inside, Inwards
<1>6. Cardinality(Inside(s) \ {r}) = Cardinality(Inside(s)) - 1
  BY <1>4, InsideFinite, FS_RemoveElement
<1>7. Cardinality(Inside(s)') = Cardinality(Inside(s)) - 1
  BY <1>4, <1>6
<1>8. in_flight[s] \in Nat \ {0}
  BY <1>4, InsideFinite, FS_EmptySet DEF InFlightCounts
<1>9. QED
  BY <1>2, <1>5, <1>7, <1>8 DEF InFlightCounts

\* Nobody enters or leaves: the counts stay.
LEMMA SameInsideCounts ==
    ASSUME InFlightCounts, UNCHANGED in_flight,
           \A s \in Services : Inside(s)' = Inside(s)
    PROVE  InFlightCounts'
  BY DEF InFlightCounts

-----------------------------------------------------------------------------
(* Every step preserves the invariant.                                      *)

LEMMA InitRoutes == Init => RouteInv
<1> SUFFICES ASSUME Init PROVE RouteInv
  OBVIOUS
<1>1. TypeOK
  BY NewBreakerType, MaxBudgetAssumption DEF Init, TypeOK, Reply, Answer, Codes,
     MaxBudgetAssumption
<1>2. /\ OnlyTheLastHolds /\ HeldWhileCalling /\ SuccessNamesTheRunner /\ RefusedNeverRuns
  BY DEF Init, Reply, OnlyTheLastHolds, HeldWhileCalling,
     SuccessNamesTheRunner, RefusedNeverRuns, Inwards
<1>3. \A s \in Services : Inside(s) = {}
  BY DEF Init, Inside, Inwards
<1>4. InFlightCounts
  BY <1>3, FS_EmptySet DEF Init, InFlightCounts
<1>5. QED
  BY <1>1, <1>2, <1>4 DEF RouteInv

LEMMA ArriveRoutes ==
    ASSUME RouteInv, NEW r \in Requests, NEW a \in Asks,
           NEW budget \in 1..MaxBudget, Arrive(r, a, budget)
    PROVE  RouteInv'
<1> USE DEF RouteInv, TypeOK, Inwards, Ended, Arrive, backendVars, Reply
<1>1. TypeOK'
  <2>1. Candidates(a.operation) \in SUBSET Services
    BY RegistryAssumption, AsksAssumption
       DEF Candidates, RegistryAssumption, AsksAssumption, Ask
  <2>2. Reply("BACKEND_UNAVAILABLE", TRUE) \in Answer
    BY DEF Answer, Codes
  <2>3. QED
    BY <2>1, <2>2, MaxBudgetAssumption DEF MaxBudgetAssumption
<1>2. OnlyTheLastHolds' /\ HeldWhileCalling'
  BY DEF OnlyTheLastHolds, HeldWhileCalling
<1>3. SuccessNamesTheRunner' /\ RefusedNeverRuns'
  BY DEF SuccessNamesTheRunner, RefusedNeverRuns,
     OnlyTheLastHolds, HeldWhileCalling
<1>4. \A s \in Services : Inside(s)' = Inside(s)
  BY DEF Inside
<1>5. InFlightCounts'
  BY <1>4, SameInsideCounts
<1>6. QED
  BY <1>1, <1>2, <1>3, <1>5

LEMMA RefusedRoutes ==
    ASSUME RouteInv, NEW r \in Requests, Refused(r)
    PROVE  RouteInv'
<1> USE DEF RouteInv, TypeOK, Inwards, Ended, Refused, Finished, backendVars, Reply
<1>1. TypeOK'
  BY MaxBudgetAssumption DEF Answer, MaxBudgetAssumption
<1>2. OnlyTheLastHolds' /\ HeldWhileCalling'
  BY DEF OnlyTheLastHolds, HeldWhileCalling
<1>3. SuccessNamesTheRunner' /\ RefusedNeverRuns'
  BY DEF SuccessNamesTheRunner, RefusedNeverRuns,
     OnlyTheLastHolds, HeldWhileCalling
<1>4. \A s \in Services : Inside(s)' = Inside(s)
  BY DEF Inside
<1>5. InFlightCounts'
  BY <1>4, SameInsideCounts
<1>6. QED
  BY <1>1, <1>2, <1>3, <1>5

LEMMA SkipsRoutes ==
    ASSUME RouteInv, NEW r \in Requests, NEW s \in Services, Skips(r, s)
    PROVE  RouteInv'
<1> USE DEF RouteInv, TypeOK, Inwards, Ended, Skips, Note, backendVars, Reply
<1>1. TypeOK'
  BY DEF Answer
<1>2. OnlyTheLastHolds' /\ HeldWhileCalling'
  BY DEF OnlyTheLastHolds, HeldWhileCalling
<1>3. SuccessNamesTheRunner' /\ RefusedNeverRuns'
  BY DEF SuccessNamesTheRunner, RefusedNeverRuns,
     OnlyTheLastHolds, HeldWhileCalling
<1>4. \A t \in Services : Inside(t)' = Inside(t)
  BY DEF Inside
<1>5. InFlightCounts'
  BY <1>4, SameInsideCounts
<1>6. QED
  BY <1>1, <1>2, <1>3, <1>5

LEMMA CallRoutes ==
    ASSUME RouteInv, NEW r \in Requests, NEW s \in Services, Call(r, s)
    PROVE  RouteInv'
<1> USE DEF RouteInv, TypeOK, Inwards, Ended, Call, Reach
<1>1. TypeOK'
  BY MethodTypes, CallCounts
<1>2. OnlyTheLastHolds' /\ HeldWhileCalling'
  BY DEF OnlyTheLastHolds, HeldWhileCalling
<1>3. SuccessNamesTheRunner' /\ RefusedNeverRuns'
  BY DEF SuccessNamesTheRunner, RefusedNeverRuns,
     OnlyTheLastHolds, HeldWhileCalling
<1>4. InFlightCounts'
  BY CallCounts
<1>5. QED
  BY <1>1, <1>2, <1>3, <1>4

LEMMA LeavesRoutes ==
    ASSUME RouteInv, NEW r \in Requests, Leaves(r)
    PROVE  RouteInv'
<1>a. InFlightCounts' /\ in_flight' \in [Services -> Nat]
  BY ReleaseCounts
<1> USE DEF RouteInv, TypeOK, Inwards, Ended, Leaves, Reply
<1>0. /\ pc[r] \in Inwards /\ tried[r] \in Services /\ sent[r] = {tried[r]}
      /\ executed[r] \subseteq {tried[r]}
  BY DEF Release, HeldWhileCalling, OnlyTheLastHolds
<1>1. TypeOK'
  <2>1. CASE Ends(r)
    BY <1>a, <2>1, MaxBudgetAssumption
       DEF Ends, Finished, Answer, Ended, MaxBudgetAssumption
  <2>2. CASE FallsBack(r)
    BY <1>a, <2>2 DEF FallsBack, RejectedUnrun, Note, Answer
  <2>3. QED
    BY <2>1, <2>2
<1>2. /\ OnlyTheLastHolds' /\ HeldWhileCalling'
      /\ SuccessNamesTheRunner' /\ RefusedNeverRuns'
  <2> USE DEF OnlyTheLastHolds, HeldWhileCalling,
              SuccessNamesTheRunner, RefusedNeverRuns
  <2>1. CASE Ends(r)
    BY <1>0, <2>1 DEF Ends, Finished
  <2>2. CASE FallsBack(r)
    BY <1>0, <2>2 DEF FallsBack, RejectedUnrun, Note
  <2>3. QED
    BY <2>1, <2>2
<1>3. QED
  BY <1>a, <1>1, <1>2

\* A call that is cancelled is still inside its adapter, and still held.
LEMMA TimerRoutes ==
    ASSUME RouteInv, NEW r \in Requests, TimerFires(r)
    PROVE  RouteInv'
<1> USE DEF RouteInv, TypeOK, TimerFires, backendVars
<1>1. TypeOK'
  BY DEF Inwards
<1>2. /\ OnlyTheLastHolds' /\ HeldWhileCalling'
      /\ SuccessNamesTheRunner' /\ RefusedNeverRuns'
  BY DEF OnlyTheLastHolds, HeldWhileCalling, SuccessNamesTheRunner, RefusedNeverRuns,
     Inwards
<1>3. \A s \in Services : Inside(s)' = Inside(s)
  BY DEF Inside, Inwards
<1>4. InFlightCounts'
  BY <1>3, SameInsideCounts
<1>5. QED
  BY <1>1, <1>2, <1>4

LEMMA WorldRoutes ==
    ASSUME RouteInv, World
    PROVE  RouteInv'
<1> USE DEF RouteInv, TypeOK, Inwards, Ended
<1> DEFINE EachAlone == /\ OnlyTheLastHolds /\ HeldWhileCalling /\ SuccessNamesTheRunner /\ RefusedNeverRuns
<1>1. ASSUME NEW r \in Requests, NEW s \in Services, BackendRuns(r, s)
      PROVE  TypeOK' /\ EachAlone'
  <2>1. TypeOK'
    BY <1>1 DEF BackendRuns, requestVars
  <2>2. EachAlone'
    BY <1>1 DEF BackendRuns, requestVars, OnlyTheLastHolds, HeldWhileCalling,
       SuccessNamesTheRunner, RefusedNeverRuns
  <2>3. QED
    BY <2>1, <2>2
<1>2. ASSUME NEW s \in Services, NEW st \in {"available", "unavailable"},
             HealthResult(s, st)
      PROVE  TypeOK' /\ EachAlone'
  BY <1>2 DEF HealthResult, requestVars, backendVars, OnlyTheLastHolds,
     HeldWhileCalling, SuccessNamesTheRunner, RefusedNeverRuns
<1>3. ASSUME Tick
      PROVE  TypeOK' /\ EachAlone'
  <2>1. TypeOK'
    <3>1. breaker' \in [Services -> Breaker]
      BY <1>3, MethodTypes DEF Tick
    <3>2. left' \in [Requests -> 0..MaxBudget]
      BY <1>3, MaxBudgetAssumption DEF Tick, Down, MaxBudgetAssumption
    <3>3. QED
      BY <1>3, <3>1, <3>2 DEF Tick, backendVars
  <2>2. EachAlone'
    BY <1>3 DEF Tick, backendVars, OnlyTheLastHolds, HeldWhileCalling,
       SuccessNamesTheRunner, RefusedNeverRuns
  <2>3. QED
    BY <2>1, <2>2
<1>4. UNCHANGED <<in_flight, pc, tried>>
  BY DEF World, BackendRuns, HealthResult, Tick, requestVars
<1>5. InFlightCounts'
  BY <1>4, SameInsideCounts DEF Inside
<1>6. QED
  BY <1>1, <1>2, <1>3, <1>5 DEF World

LEMMA NextRoutes == RouteInv /\ [Next]_vars => RouteInv'
<1> SUFFICES ASSUME RouteInv, [Next]_vars
             PROVE  RouteInv'
  OBVIOUS
<1>1. ASSUME NEW r \in Requests, Enters(r)
      PROVE  RouteInv'
  BY <1>1, EntersShape, RefusedRoutes, ArriveRoutes
<1>2. ASSUME NEW r \in Requests, Routes(r)
      PROVE  RouteInv'
  BY <1>2, RoutesShape, RefusedRoutes, SkipsRoutes, CallRoutes
<1>3. ASSUME NEW r \in Requests, Returns(r)
      PROVE  RouteInv'
  BY <1>3, ReturnsLeave, LeavesRoutes, TimerRoutes
<1>4. CASE World
  BY <1>4, WorldRoutes
<1>5. CASE UNCHANGED vars
  BY <1>5 DEF vars, requestVars, backendVars, RouteInv, TypeOK, OnlyTheLastHolds,
     HeldWhileCalling, SuccessNamesTheRunner, RefusedNeverRuns,
     InFlightCounts, Inside
<1>6. QED
  BY <1>1, <1>2, <1>3, <1>4, <1>5 DEF Next

-----------------------------------------------------------------------------
\* At every moment each request is held by at most the backend it tried last,
\* by none while it is routed, and counted in the service it is inside.
THEOREM RouteInvariant == Spec => []RouteInv
  BY InitRoutes, NextRoutes, PTL DEF Spec

\* The variables of the router keep their types; in particular no in-flight
\* count becomes negative.
THEOREM RouterTypes == Spec => []TypeOK
<1>1. RouteInv => TypeOK
  BY DEF RouteInv
<1>2. QED
  BY <1>1, RouteInvariant, PTL

\* No operation runs on two backends, for any number of backends, requests and
\* fallbacks (router.py:191-193), given the adapters' contract.
THEOREM NoDuplicates == Spec => []NoDuplicateExecution
<1>1. RouteInv => NoDuplicateExecution
  BY DEF RouteInv, OnlyTheLastHolds, NoDuplicateExecution
<1>2. QED
  BY <1>1, RouteInvariant, PTL

\* A success names the only backend that ran the request.
THEOREM SuccessIsReal == Spec => []SuccessNamesTheRunner
<1>1. RouteInv => SuccessNamesTheRunner
  BY DEF RouteInv
<1>2. QED
  BY <1>1, RouteInvariant, PTL

\* A request that ends without a result and without a break has run nowhere and
\* never will, although its code may be that of one that was stopped.
THEOREM RefusalIsFinal == Spec => []RefusedNeverRuns
<1>1. RouteInv => RefusedNeverRuns
  BY DEF RouteInv
<1>2. QED
  BY <1>1, RouteInvariant, PTL

\* The in-flight counts are exact.
THEOREM CountsAreExact == Spec => []InFlightCounts
<1>1. RouteInv => InFlightCounts
  BY DEF RouteInv
<1>2. QED
  BY <1>1, RouteInvariant, PTL

-----------------------------------------------------------------------------
(* The contract of a call, kept by the loop over the candidates.            *)

\* The contract sees nothing of the requests whose pc stays.
LEMMA ContractFrame ==
    ASSUME NEW r \in Requests,
           \A q \in Requests \ {r} : pc'[q] = pc[q]
    PROVE  /\ Verdicts' = [Verdicts EXCEPT ![r] = Verdict(r)']
           /\ Held' = IF pc'[r] \notin {"new", "refused"}
                      THEN Held \cup {r} ELSE Held \ {r}
<1>1. ASSUME NEW q \in Requests \ {r} PROVE Verdict(q)' = Verdict(q) /\ pc'[q] = pc[q]
  BY <1>1 DEF Verdict
<1>2. Verdicts' = [Verdicts EXCEPT ![r] = Verdict(r)']
  BY <1>1 DEF Verdicts
<1>3. QED
  BY <1>1, <1>2 DEF Held

\* A request that stays under way is the same to the contract.
LEMMA UnderWay ==
    ASSUME NEW r \in Requests, UNCHANGED executed,
           \A q \in Requests \ {r} : pc'[q] = pc[q],
           pc[r] \in {"routing"} \cup Inwards, pc'[r] \in {"routing"} \cup Inwards
    PROVE  UNCHANGED Contract!vars
<1>1. ASSUME NEW q \in Requests
      PROVE  /\ Verdict(q)' = Verdict(q)
             /\ (pc'[q] \in {"new", "refused"}) = (pc[q] \in {"new", "refused"})
  BY DEF Verdict, Inwards
<1>2. Verdicts' = Verdicts /\ Held' = Held
  BY <1>1 DEF Verdicts, Held
<1>3. QED
  BY <1>2 DEF Contract!vars, Ran

\* The end of a request is one of the three ends the contract knows.
LEMMA AnswerMaps ==
    ASSUME RouteInv, NEW r \in Requests, UNCHANGED executed,
           NEW how \in Ended, NEW code \in Codes, NEW retryable \in BOOLEAN,
           pc[r] \notin Ended, Finished(r, how, code, retryable),
           how = "succeeded" => executed[r] # {},
           how = "refused" => executed[r] = {},
           pc[r] = "new" => how = "refused"
    PROVE  Contract!Next
<1>1. pc'[r] = how /\ \A q \in Requests \ {r} : pc'[q] = pc[q]
  BY DEF Finished, RouteInv, TypeOK
<1>2. Verdicts[r] = "pending" /\ Ran' = Ran /\ (r \in Ran) = (executed[r] # {})
  BY DEF Verdicts, Verdict, Ran, Ended
<1>3. CASE how = "refused"
  <2>1. Verdict(r)' = "safe_error"
    BY <1>1, <1>3 DEF Verdict
  <2>2. Contract!FailSafely(r)
    BY <1>1, <1>2, <1>3, <2>1, ContractFrame DEF Contract!FailSafely
  <2>3. QED
    BY <2>2 DEF Contract!Next
<1>4. CASE how # "refused"
  <2>1. r \in Held
    BY <1>4 DEF Held, Ended
  <2>2. Verdict(r)' = IF how = "succeeded" THEN "result" ELSE "error"
    BY <1>1, <1>4 DEF Verdict, Ended
  <2>3. Held' = Held /\ Verdicts' = [Verdicts EXCEPT ![r] = Verdict(r)']
    BY <1>1, <1>4, <2>1, ContractFrame DEF Ended
  <2>4. CASE how = "succeeded"
    <3>1. Contract!Return(r)
      BY <1>2, <2>2, <2>3, <2>4 DEF Contract!Return
    <3>2. QED
      BY <3>1 DEF Contract!Next
  <2>5. CASE how # "succeeded"
    <3>1. Contract!Fail(r)
      BY <1>2, <2>2, <2>3, <2>5 DEF Contract!Fail
    <3>2. QED
      BY <3>1 DEF Contract!Next
  <2>6. QED
    BY <2>4, <2>5
<1>5. QED
  BY <1>3, <1>4

\* A request that no backend holds has not run.
LEMMA UnheldNeverRan ==
    ASSUME RouteInv, NEW r \in Requests, pc[r] \in {"new", "routing"}
    PROVE  executed[r] = {}
  BY DEF RouteInv, HeldWhileCalling, OnlyTheLastHolds

\* A refusal is a safe end.
LEMMA RefusedMaps ==
    ASSUME RouteInv, NEW r \in Requests, Refused(r)
    PROVE  Contract!Next
<1>1. PICK code \in Codes, retryable \in BOOLEAN : Finished(r, "refused", code, retryable)
  BY DEF Refused
<1>2. pc[r] \in {"new", "routing"} /\ UNCHANGED executed
  BY DEF Refused, backendVars
<1>3. QED
  BY <1>1, <1>2, UnheldNeverRan, AnswerMaps DEF Ended

LEMMA EntersMaps ==
    ASSUME RouteInv, NEW r \in Requests, Enters(r)
    PROVE  Contract!Next
<1>1. ASSUME NEW a \in Asks, NEW budget \in 1..MaxBudget, Arrive(r, a, budget)
      PROVE  Contract!Next
  <2>1. /\ pc[r] = "new" /\ pc'[r] = "routing" /\ UNCHANGED executed
        /\ \A q \in Requests \ {r} : pc'[q] = pc[q]
    BY <1>1 DEF Arrive, RouteInv, TypeOK, backendVars
  <2>2. Verdict(r) = "pending" /\ Verdict(r)' = "pending"
    BY <2>1 DEF Verdict
  <2>3. Contract!Dispatch(r)
    BY <2>1, <2>2, ContractFrame DEF Contract!Dispatch, Verdicts, Ran
  <2>4. QED
    BY <2>3 DEF Contract!Next
<1>2. QED
  BY <1>1, EntersShape, RefusedMaps

LEMMA RoutesMaps ==
    ASSUME RouteInv, NEW r \in Requests, Routes(r)
    PROVE  Contract!Next \/ UNCHANGED Contract!vars
<1>1. ASSUME NEW s \in Services, Skips(r, s) \/ Call(r, s)
      PROVE  UNCHANGED Contract!vars
  <2>1. /\ pc[r] = "routing" /\ pc'[r] \in {"routing", "calling"} /\ UNCHANGED executed
        /\ \A q \in Requests \ {r} : pc'[q] = pc[q]
    BY <1>1 DEF Skips, Call, Reach, Note, RouteInv, TypeOK, backendVars
  <2>2. QED
    BY <2>1, UnderWay DEF Inwards
<1>2. QED
  BY <1>1, RoutesShape, RefusedMaps

LEMMA ReturnsMaps ==
    ASSUME RouteInv, NEW r \in Requests, Returns(r)
    PROVE  Contract!Next \/ UNCHANGED Contract!vars
<1>1. CASE TimerFires(r)
  <2>1. /\ pc[r] = "calling" /\ pc'[r] = "cancelled" /\ UNCHANGED executed
        /\ \A q \in Requests \ {r} : pc'[q] = pc[q]
    BY <1>1 DEF TimerFires, RouteInv, TypeOK, backendVars
  <2>2. QED
    BY <2>1, UnderWay DEF Inwards
<1>2. CASE Leaves(r)
  <2>1. pc[r] \in Inwards /\ UNCHANGED executed
    BY <1>2 DEF Leaves, Release
  <2>2. CASE Ends(r)
    <3>1. PICK how \in {"succeeded", "stopped"}, code \in Codes, retryable \in BOOLEAN :
                /\ how = "succeeded" => tried[r] \in executed[r]
                /\ Finished(r, how, code, retryable)
      BY <2>2 DEF Ends
    <3>2. pc[r] \notin Ended /\ pc[r] # "new" /\ how \in Ended /\ how # "refused"
      BY <2>1 DEF Inwards, Ended
    <3>3. QED
      BY <2>1, <3>1, <3>2, AnswerMaps
  <2>3. CASE FallsBack(r)
    <3>1. /\ pc'[r] = "routing"
          /\ \A q \in Requests \ {r} : pc'[q] = pc[q]
      BY <2>3 DEF FallsBack, Note, RouteInv, TypeOK
    <3>2. QED
      BY <2>1, <3>1, UnderWay
  <2>4. QED
    BY <1>2, <2>2, <2>3 DEF Leaves
<1>3. QED
  BY <1>1, <1>2, ReturnsLeave

\* What a backend runs is held: by a request under way, or one whose error said
\* that it may still run.
LEMMA WorldMaps ==
    ASSUME RouteInv, World
    PROVE  Contract!Next \/ UNCHANGED Contract!vars
<1>1. ASSUME NEW r \in Requests, NEW s \in Services, BackendRuns(r, s)
      PROVE  Contract!Next
  <2>1. /\ s \in sent[r] /\ UNCHANGED <<pc, answer>>
        /\ executed' = [executed EXCEPT ![r] = @ \cup {s}]
    BY <1>1 DEF BackendRuns, requestVars
  <2>2. r \in Held
    BY <2>1 DEF RouteInv, HeldWhileCalling, RefusedNeverRuns, Held, Verdict
  <2>3. Verdicts' = Verdicts /\ Held' = Held
    BY <2>1 DEF Verdicts, Held, Verdict
  <2>4. Ran' = Ran \cup {r}
    <3>1. \A q \in Requests :
             executed'[q] = IF q = r THEN executed[q] \cup {s} ELSE executed[q]
      BY <2>1 DEF RouteInv, TypeOK
    <3>2. QED
      BY <3>1 DEF Ran
  <2>5. Contract!Run(r)
    BY <2>2, <2>3, <2>4 DEF Contract!Run
  <2>6. QED
    BY <2>5 DEF Contract!Next
<1>2. CASE UNCHANGED <<pc, answer, executed>>
  BY <1>2 DEF Contract!vars, Held, Ran, Verdicts, Verdict
<1>3. QED
  BY <1>1, <1>2 DEF World, HealthResult, Tick, requestVars, backendVars

LEMMA InitMaps == Init => Contract!Init
<1> SUFFICES ASSUME Init PROVE Contract!Init
  OBVIOUS
<1>1. Verdicts = [r \in Requests |-> "pending"]
  BY DEF Init, Verdicts, Verdict
<1>2. Held = {} /\ Ran = {}
  BY DEF Init, Held, Ran
<1>3. QED
  BY <1>1, <1>2 DEF Contract!Init

\* The candidate loop composes calls that keep the adapters' contract into one
\* that keeps it, for every registry, every priority, any fallbacks and any
\* codes of the adapters (router.py:96-233).
THEOREM Refinement == Spec => ImplementsContract
<1>1. RouteInv /\ [Next]_vars => [Contract!Next]_(Contract!vars)
  <2> SUFFICES ASSUME RouteInv, [Next]_vars
               PROVE  Contract!Next \/ UNCHANGED Contract!vars
    OBVIOUS
  <2>1. CASE UNCHANGED vars
    BY <2>1 DEF vars, requestVars, backendVars, Contract!vars, Held, Ran, Verdicts, Verdict
  <2>2. CASE Next
    BY <2>2, EntersMaps, RoutesMaps, ReturnsMaps, WorldMaps DEF Next
  <2>3. QED
    BY <2>1, <2>2
<1>2. QED
  BY <1>1, InitMaps, RouteInvariant, PTL DEF Spec, ImplementsContract, Contract!Spec

-----------------------------------------------------------------------------
(* The order of the candidates.                                             *)

\* Candidates are compared by their priority, then by their id: of two, one
\* comes first, and the order has no circles (router.py:38-50, 60).
LEMMA BeforeIsAnOrder ==
    ASSUME NEW op
    PROVE  /\ \A s, t \in Services : s # t => Before(s, t, op) \/ Before(t, s, op)
           /\ \A s, t \in Services : Before(s, t, op) => ~Before(t, s, op)
           /\ \A s, t, u \in Services :
                 Before(s, t, op) /\ Before(t, u, op) => Before(s, u, op)
<1>1. \A s \in Services : Priority(s, op) \in Int
  BY PriorityAssumption DEF PriorityAssumption, Priority
<1>2. /\ \A s \in Services : IdOrder[s] \in Int
      /\ \A s, t \in Services : IdOrder[s] = IdOrder[t] => s = t
  BY PriorityAssumption DEF PriorityAssumption
<1>3. QED
  BY <1>1, <1>2 DEF Before

\* Of any candidates one comes before all the others: the one that the fewest
\* come before.
LEMMA OneComesFirst ==
    ASSUME NEW op, NEW T \in SUBSET Services, T # {}
    PROVE  \E s \in T : \A t \in T \ {s} : Before(s, t, op)
<1> DEFINE Earlier(s) == {t \in T : Before(t, s, op)}
           Family == {Earlier(s) : s \in T}
<1>1. IsFiniteSet(T)
  BY FiniteAssumption, FS_Subset DEF FiniteAssumption
<1>2. Family \subseteq FiniteSubsetsOf(T)
  <2>1. ASSUME NEW s \in T PROVE Earlier(s) \in SUBSET T /\ IsFiniteSet(Earlier(s))
    BY <1>1, FS_Subset
  <2>2. QED
    BY <2>1 DEF FiniteSubsetsOf
<1>3. Family # {}
  OBVIOUS
<1>4. PICK E \in Family : \A F \in Family : ~(<<F, E>> \in StrictSubsetOrdering(T))
  <2> HIDE DEF Family
  <2>1. IsWellFoundedOn(StrictSubsetOrdering(T), FiniteSubsetsOf(T))
    BY FS_StrictSubsetOrderingWellFounded
  <2>2. QED
    BY <1>2, <1>3, <2>1, WFMin
<1>5. PICK s \in T : E = Earlier(s)
  OBVIOUS
<1>6. ASSUME NEW t \in T, Before(t, s, op)
      PROVE  FALSE
  <2>1. Earlier(t) \subseteq Earlier(s)
    BY <1>6, BeforeIsAnOrder
  <2>2. t \in Earlier(s) /\ t \notin Earlier(t)
    BY <1>6, BeforeIsAnOrder
  <2>3. <<Earlier(t), Earlier(s)>> \in StrictSubsetOrdering(T)
    BY <2>1, <2>2 DEF StrictSubsetOrdering
  <2>4. QED
    BY <1>4, <1>5, <2>3
<1>7. QED
  BY <1>6, BeforeIsAnOrder

\* While candidates are left, the loop is at exactly one of them: the order
\* neither strands a request nor leaves it a choice (router.py:60-65, 129).
NextIsUnique ==
    \A r \in Requests : untried[r] # {} =>
        \E s \in untried[r] :
            IsNext(r, s) /\ \A t \in untried[r] : IsNext(r, t) => t = s

THEOREM LoopIsDetermined == Spec => []NextIsUnique
<1>1. TypeOK => NextIsUnique
  <2> SUFFICES ASSUME TypeOK, NEW r \in Requests, untried[r] # {}
               PROVE  \E s \in untried[r] :
                         IsNext(r, s) /\ \A t \in untried[r] : IsNext(r, t) => t = s
    BY DEF NextIsUnique
  <2>1. CASE ask[r].preferred_service \in untried[r]
    BY <2>1 DEF IsNext
  <2>2. CASE ask[r].preferred_service \notin untried[r]
    <3>1. untried[r] \in SUBSET Services
      BY DEF TypeOK
    <3>2. PICK s \in untried[r] :
                \A t \in untried[r] \ {s} : Before(s, t, ask[r].operation)
      BY <3>1, OneComesFirst
    <3>3. ASSUME NEW t \in untried[r], t # s PROVE ~IsNext(r, t)
      BY <2>2, <3>1, <3>2, <3>3, BeforeIsAnOrder DEF IsNext
    <3>4. QED
      BY <2>2, <3>2, <3>3 DEF IsNext
  <2>3. QED
    BY <2>1, <2>2
<1>2. QED
  BY <1>1, RouterTypes, PTL

-----------------------------------------------------------------------------
(* The breakers.                                                            *)

\* What the router does to the breaker of one service: one method, or nothing.
MethodOn(s) ==
    \/ Admits(breaker[s]) /\ breaker' = [breaker EXCEPT ![s] = Admitted(@)]
    \/ breaker' = [breaker EXCEPT ![s] = RecordSuccess(@)]
    \/ breaker' = [breaker EXCEPT ![s] = RecordFailure(@)]

LEMMA MethodOnConsistent ==
    ASSUME TypeOK, BreakersConsistent, NEW s \in Services, MethodOn(s)
    PROVE  BreakersConsistent'
  BY MethodsConsistent DEF TypeOK, BreakersConsistent, MethodOn

LEMMA NextConsistent ==
    ASSUME RouteInv, BreakersConsistent, [Next]_vars
    PROVE  BreakersConsistent'
<1>0. TypeOK
  BY DEF RouteInv
<1>1. ASSUME NEW r \in Requests, Enters(r)
      PROVE  UNCHANGED breaker
  BY <1>1 DEF Enters, RefuseUnknownOperation, RefuseUnavailable, Arrive
<1>2. ASSUME NEW r \in Requests, Routes(r)
      PROVE  UNCHANGED breaker \/ \E s \in Services : MethodOn(s)
  BY <1>2 DEF Routes, OutOfBudget, GiveUp, CircuitRefuses, NoAdapter, Call, MethodOn
<1>3. ASSUME NEW r \in Requests, Returns(r)
      PROVE  UNCHANGED breaker \/ \E s \in Services : MethodOn(s)
  <2>1. tried[r] \in Services
    BY <1>3 DEF Returns, Succeed, NonObjectResult, UnsupportedOperation, BackendTimeout,
       AdapterFails, AdapterCrashes, CallTimesOut, TimerFires, Release, RouteInv, HeldWhileCalling,
       Inwards
  <2>2. \/ UNCHANGED breaker
        \/ RecordsSuccess(r)
        \/ RecordsFailure(r)
    BY <1>3 DEF Returns, Succeed, NonObjectResult, UnsupportedOperation, BackendTimeout,
       AdapterFails, AdapterCrashes, CallTimesOut, TimerFires
  <2>3. QED
    BY <2>1, <2>2 DEF RecordsSuccess, RecordsFailure, MethodOn
<1>4. ASSUME World
      PROVE  UNCHANGED breaker \/ breaker' = [s \in Services |-> Elapse(breaker[s])]
  BY <1>4 DEF World, BackendRuns, HealthResult, Tick
<1>5. breaker' = [s \in Services |-> Elapse(breaker[s])] => BreakersConsistent'
  BY <1>0, MethodsConsistent DEF TypeOK, BreakersConsistent
<1>6. UNCHANGED breaker => BreakersConsistent'
  BY DEF BreakersConsistent
<1>7. QED
  BY <1>0, <1>1, <1>2, <1>3, <1>4, <1>5, <1>6, MethodOnConsistent DEF Next, vars

\* Every breaker stays consistent, although the router leaves some admissions
\* unreported and reports others late.
THEOREM BreakersStayConsistent == Spec => []BreakersConsistent
<1>1. Init => BreakersConsistent
  BY FailureThresholdAssumption
     DEF Init, NewBreaker, BreakersConsistent, Consistent, FailureThresholdAssumption
<1>2. RouteInv /\ BreakersConsistent /\ [Next]_vars => BreakersConsistent'
  BY NextConsistent
<1>3. QED
  BY <1>1, <1>2, RouteInvariant, PTL DEF Spec
=============================================================================
