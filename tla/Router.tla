------------------------------- MODULE Router -------------------------------
(***************************************************************************)
(* CapabilityRouter.execute_request of src/core/router.py: requests that   *)
(* share a breaker per backend try their candidates in turn, fall back     *)
(* when an error says that the operation did not run, and stop when it may *)
(* have run.                                                               *)
(*                                                                         *)
(* The gateway is one asyncio process.  execute_request really suspends    *)
(* only while it awaits adapter.execute: every lock it takes guards a body *)
(* without a suspension.  A step here is one pass of the candidate loop up *)
(* to that await, or one except clause after it; letting other requests    *)
(* act between two passes as well is more than the code allows.            *)
(*                                                                         *)
(* The backends are outside.  A request handed to one may run there at any *)
(* moment, also after the gateway has stopped waiting for it; an adapter   *)
(* raises an error with safe_to_fallback only for an operation that never  *)
(* runs, as src/adapters/base.py:20-21 requires of it.                     *)
(***************************************************************************)
EXTENDS CircuitBreaker, Integers, FiniteSets

CONSTANTS
    Services, Operations, Versions, Requests,
    Asks,                \* what the requests may ask for
    Capable,             \* the registered services that have an operation
    Served,              \* the versions of a service with an adapter
    ActiveVersion,       \* the version its registry entry names
    DefaultPriority,     \* of a service: its meta.routing_priority, or the default
    OperationPriority,   \* OPERATION_PRIORITY, of services without the former
    IdOrder,             \* the alphabetical order of the service ids
    AdapterCodes,        \* the codes that adapters put into an AdapterError
    MaxBudget,           \* bound of timeout_ms, in ticks
    Nothing              \* None: no preference, no service

ASSUME FiniteAssumption == IsFiniteSet(Requests) /\ IsFiniteSet(Services)
ASSUME NothingAssumption == Nothing \notin Services \cup Versions
ASSUME MaxBudgetAssumption == MaxBudget \in Nat \ {0}
ASSUME RegistryAssumption ==
    /\ Capable \in [Operations -> SUBSET Services]
    /\ Served \in [Services -> SUBSET Versions]
    /\ ActiveVersion \in [Services -> Versions]
ASSUME PriorityAssumption ==
    /\ DefaultPriority \in [Services -> Int]
    /\ OperationPriority \in [DOMAIN OperationPriority -> Int]
    /\ IdOrder \in [Services -> Int]
    /\ \A s, t \in Services : IdOrder[s] = IdOrder[t] => s = t

Ask == [operation : Operations,
        preferred_service  : Services \cup {Nothing},
        version_preference : Versions \cup {Nothing}]

ASSUME AsksAssumption == Asks \subseteq Ask

\* The errors an adapter may raise, by the except clause that takes them.  The
\* code of an AdapterError is free text: an adapter's own, or the backend's.
\* The router compares one value, PROTOCOL_VALIDATION_ERROR, and relays all of
\* them, also those that it gives to requests it refuses itself.
AdapterFailures ==
    [code : AdapterCodes, retryable : BOOLEAN, safe_to_fallback : BOOLEAN]

Codes == AdapterCodes \cup
    {"NONE", "OK", "BACKEND_UNAVAILABLE", "BACKEND_TIMEOUT", "CIRCUIT_OPEN",
     "UNSUPPORTED_OPERATION", "UNSUPPORTED_PROTOCOL_VERSION",
     "PROTOCOL_VALIDATION_ERROR", "ADAPTER_INTERNAL_ERROR"}

\* How execute_request ends: with a result, by a break out of the candidate
\* loop, or without one, at its first checks, out of budget or of candidates.
Ended == {"succeeded", "stopped", "refused"}

\* A request that is inside an adapter.  When the timer of asyncio.timeout has
\* fired, the adapter's coroutine is cancelled, and still runs its finally
\* clauses before the await returns.
Inwards == {"calling", "cancelled"}

VARIABLES
    status,     \* the health status in the registry
    breaker,    \* CircuitBreakerManager._breakers
    in_flight,  \* AdapterManager._in_flight, of all versions of a service
    pc,         \* "new", "routing", inside an adapter, or how it ended
    ask,        \* what the request asks for
    left,       \* ticks until its deadline
    untried,    \* the candidates the loop has not reached
    tried,      \* last_service_id
    answer,     \* last_error_code and last_retryable, then the reply
    sent,       \* backends that hold the request and may still run it
    executed    \* backends that have run it

registryVars == <<status>>
requestVars  == <<pc, ask, left, untried, tried, answer>>
backendVars  == <<sent, executed>>
vars == <<status, breaker, in_flight, requestVars, backendVars>>

Answer == [code : Codes, retryable : BOOLEAN]
Reply(code, retryable) == [code |-> code, retryable |-> retryable]

TypeOK ==
    /\ status \in [Services -> {"available", "unavailable"}]
    /\ breaker \in [Services -> Breaker]
    /\ in_flight \in [Services -> Nat]
    /\ pc \in [Requests -> {"new", "routing"} \cup Inwards \cup Ended]
    /\ ask \in [Requests -> Asks \cup {Nothing}]
    /\ left \in [Requests -> 0..MaxBudget]
    /\ untried \in [Requests -> SUBSET Services]
    /\ tried \in [Requests -> Services \cup {Nothing}]
    /\ answer \in [Requests -> Answer]
    /\ sent \in [Requests -> SUBSET Services]
    /\ executed \in [Requests -> SUBSET Services]

Init ==
    /\ status = [s \in Services |-> "available"]
    /\ breaker = [s \in Services |-> NewBreaker]
    /\ in_flight = [s \in Services |-> 0]
    /\ pc = [r \in Requests |-> "new"]
    /\ ask = [r \in Requests |-> Nothing]
    /\ left = [r \in Requests |-> 0]
    /\ untried = [r \in Requests |-> {}]
    /\ tried = [r \in Requests |-> Nothing]
    /\ answer = [r \in Requests |-> Reply("NONE", FALSE)]
    /\ sent = [r \in Requests |-> {}]
    /\ executed = [r \in Requests |-> {}]

-----------------------------------------------------------------------------
(* The candidates and their order (_priority, _get_candidates).             *)

Priority(s, op) ==
    IF <<op, s>> \in DOMAIN OperationPriority
    THEN OperationPriority[<<op, s>>] ELSE DefaultPriority[s]

Before(s, t, op) ==
    \/ Priority(s, op) < Priority(t, op)
    \/ Priority(s, op) = Priority(t, op) /\ IdOrder[s] < IdOrder[t]

Candidates(op) == {s \in Capable[op] : status[s] # "unavailable"}

\* s is the next candidate of request r: the preferred service comes first.
IsNext(r, s) ==
    /\ s \in untried[r]
    /\ \/ s = ask[r].preferred_service
       \/ /\ ask[r].preferred_service \notin untried[r]
          /\ \A t \in untried[r] \ {s} : Before(s, t, ask[r].operation)

\* version_preference, or the version the entry had when it was listed.
WantedVersion(r, s) ==
    IF ask[r].version_preference # Nothing
    THEN ask[r].version_preference ELSE ActiveVersion[s]

-----------------------------------------------------------------------------
(* A request arrives.                                                       *)

\* execute_request returns; its locals are gone.
Finished(r, how, code, retryable) ==
    /\ pc' = [pc EXCEPT ![r] = how]
    /\ answer' = [answer EXCEPT ![r] = Reply(code, retryable)]
    /\ ask' = [ask EXCEPT ![r] = Nothing]
    /\ left' = [left EXCEPT ![r] = 0]
    /\ untried' = [untried EXCEPT ![r] = {}]

RefuseUnknownOperation(r, a) ==
    /\ pc[r] = "new"
    /\ Capable[a.operation] = {}
    /\ Finished(r, "refused", "UNSUPPORTED_OPERATION", FALSE)
    /\ UNCHANGED <<status, breaker, in_flight, tried, backendVars>>

RefuseUnavailable(r, a) ==
    /\ pc[r] = "new"
    /\ Capable[a.operation] # {}
    /\ Candidates(a.operation) = {}
    /\ Finished(r, "refused", "BACKEND_UNAVAILABLE", TRUE)
    /\ UNCHANGED <<status, breaker, in_flight, tried, backendVars>>

Arrive(r, a, budget) ==
    /\ pc[r] = "new"
    /\ Candidates(a.operation) # {}
    /\ pc' = [pc EXCEPT ![r] = "routing"]
    /\ ask' = [ask EXCEPT ![r] = a]
    /\ left' = [left EXCEPT ![r] = budget]
    /\ untried' = [untried EXCEPT ![r] = Candidates(a.operation)]
    /\ answer' = [answer EXCEPT ![r] = Reply("BACKEND_UNAVAILABLE", TRUE)]
    /\ UNCHANGED <<status, breaker, in_flight, tried, backendVars>>

-----------------------------------------------------------------------------
(* The candidate loop, up to the call of the adapter.                       *)

\* The loop reaches s with budget left: last_service_id is set.
Reach(r, s) ==
    /\ pc[r] = "routing"
    /\ IsNext(r, s)
    /\ left[r] > 0
    /\ untried' = [untried EXCEPT ![r] = @ \ {s}]
    /\ tried' = [tried EXCEPT ![r] = s]

\* The loop goes on with the next candidate, this error noted.
Note(r, code, retryable) ==
    /\ pc' = [pc EXCEPT ![r] = "routing"]
    /\ answer' = [answer EXCEPT ![r] = Reply(code, retryable)]
    /\ UNCHANGED <<ask, left>>

OutOfBudget(r) ==
    /\ pc[r] = "routing"
    /\ untried[r] # {}
    /\ left[r] = 0
    /\ Finished(r, "refused", "BACKEND_TIMEOUT", TRUE)
    /\ UNCHANGED <<status, breaker, in_flight, tried, backendVars>>

CircuitRefuses(r, s) ==
    /\ Reach(r, s)
    /\ ~Admits(breaker[s])
    /\ Note(r, "CIRCUIT_OPEN", TRUE)
    /\ UNCHANGED <<status, breaker, in_flight, backendVars>>

\* allow_request admitted the call, and its effect on the breaker stays.
NoAdapter(r, s) ==
    /\ Reach(r, s)
    /\ Admits(breaker[s])
    /\ WantedVersion(r, s) \notin Served[s]
    /\ breaker' = [breaker EXCEPT ![s] = Admitted(@)]
    /\ Note(r, "UNSUPPORTED_PROTOCOL_VERSION", FALSE)
    /\ UNCHANGED <<status, in_flight, backendVars>>

Call(r, s) ==
    /\ Reach(r, s)
    /\ Admits(breaker[s])
    /\ WantedVersion(r, s) \in Served[s]
    /\ breaker' = [breaker EXCEPT ![s] = Admitted(@)]
    /\ in_flight' = [in_flight EXCEPT ![s] = @ + 1]
    /\ pc' = [pc EXCEPT ![r] = "calling"]
    /\ sent' = [sent EXCEPT ![r] = @ \cup {s}]
    /\ UNCHANGED <<status, ask, left, answer, executed>>

\* No candidate is left: the last error is the reply.
GiveUp(r) ==
    /\ pc[r] = "routing"
    /\ untried[r] = {}
    /\ Finished(r, "refused", answer[r].code, answer[r].retryable)
    /\ UNCHANGED <<status, breaker, in_flight, tried, backendVars>>

-----------------------------------------------------------------------------
(* The call ends, by a result or in one of the except clauses.  The context *)
(* manager releases the adapter on every path.  A call that was cancelled   *)
(* may end in any of these ways too, which is more than the code allows.    *)

\* Mutant: the call of the adapter is not under a timeout.
TimerNeverFires(r) == FALSE

\* asyncio.timeout(remaining_s): the deadline cancels the adapter's coroutine.
TimerFires(r) ==
    /\ pc[r] = "calling"
    /\ left[r] = 0
    /\ pc' = [pc EXCEPT ![r] = "cancelled"]
    /\ UNCHANGED <<status, breaker, in_flight, ask, left, untried, tried, answer,
                   backendVars>>

Release(r) ==
    /\ pc[r] \in Inwards
    /\ in_flight' = [in_flight EXCEPT ![tried[r]] = @ - 1]

RecordsSuccess(r) == breaker' = [breaker EXCEPT ![tried[r]] = RecordSuccess(@)]
RecordsFailure(r) == breaker' = [breaker EXCEPT ![tried[r]] = RecordFailure(@)]

\* An error that is safe to fall back from: the backend holds nothing to run.
RejectedUnrun(r) ==
    /\ tried[r] \notin executed[r]
    /\ sent' = [sent EXCEPT ![r] = @ \ {tried[r]}]

\* Mutant: every error is followed by a fallback.
ContinueAlways(r, e) ==
    Note(r, e.code, e.retryable) /\ UNCHANGED <<untried, sent>>

\* After an error: on to the next candidate (continue), or stop (break).
ContinueOrBreak(r, e) ==
    IF e.safe_to_fallback
    THEN /\ RejectedUnrun(r)
         /\ Note(r, e.code, e.retryable)
         /\ UNCHANGED untried
    ELSE Finished(r, "stopped", e.code, e.retryable) /\ UNCHANGED sent

Succeed(r) ==
    /\ Release(r)
    /\ tried[r] \in executed[r]
    /\ RecordsSuccess(r)
    /\ Finished(r, "succeeded", "OK", FALSE)
    /\ UNCHANGED <<status, tried, backendVars>>

\* The adapter returned something that is not an object: router.py:174-178
\* raises the AdapterError that lines 207-216 catch.
NonObjectResult(r) ==
    /\ Release(r)
    /\ RecordsFailure(r)
    /\ Finished(r, "stopped", "PROTOCOL_VALIDATION_ERROR", FALSE)
    /\ UNCHANGED <<status, tried, backendVars>>

\* Mutant: a timeout is followed by a fallback.
CallTimesOutAndContinues(r) ==
    /\ Release(r)
    /\ RecordsFailure(r)
    /\ Note(r, "BACKEND_TIMEOUT", TRUE)
    /\ UNCHANGED <<status, untried, tried, backendVars>>

\* TimeoutError: a cancelled adapter has finished closing, or one raises it of
\* its own, before the deadline too.
CallTimesOut(r) ==
    /\ Release(r)
    /\ RecordsFailure(r)
    /\ Finished(r, "stopped", "BACKEND_TIMEOUT", TRUE)
    /\ UNCHANGED <<status, tried, backendVars>>

UnsupportedOperation(r) ==
    /\ Release(r)
    /\ RejectedUnrun(r)
    /\ Note(r, "UNSUPPORTED_OPERATION", FALSE)
    /\ UNCHANGED <<status, breaker, untried, tried, executed>>

\* Mutant: the flag of a BackendTimeoutError is not looked at.
BackendTimeoutContinues(r, safe) ==
    /\ Release(r)
    /\ RecordsFailure(r)
    /\ Note(r, "BACKEND_TIMEOUT", TRUE)
    /\ UNCHANGED <<status, untried, tried, backendVars>>

BackendTimeout(r, safe) ==
    /\ Release(r)
    /\ RecordsFailure(r)
    /\ ContinueOrBreak(r, [code |-> "BACKEND_TIMEOUT", retryable |-> TRUE,
                           safe_to_fallback |-> safe])
    /\ UNCHANGED <<status, tried, executed>>

CountsAsFailure(e) == e.retryable \/ e.code = "PROTOCOL_VALIDATION_ERROR"

AdapterFails(r, e) ==
    /\ Release(r)
    /\ IF CountsAsFailure(e) THEN RecordsFailure(r) ELSE UNCHANGED breaker
    /\ ContinueOrBreak(r, e)
    /\ UNCHANGED <<status, tried, executed>>

\* Mutant: an unexpected exception leaves the adapter acquired.
AdapterCrashesUnreleased(r) ==
    /\ pc[r] \in Inwards
    /\ RecordsFailure(r)
    /\ Finished(r, "stopped", "ADAPTER_INTERNAL_ERROR", FALSE)
    /\ UNCHANGED <<status, in_flight, tried, backendVars>>

AdapterCrashes(r) ==
    /\ Release(r)
    /\ RecordsFailure(r)
    /\ Finished(r, "stopped", "ADAPTER_INTERNAL_ERROR", FALSE)
    /\ UNCHANGED <<status, tried, backendVars>>

-----------------------------------------------------------------------------
(* The rest of the world.                                                   *)

\* A backend runs a request it was handed, perhaps long after the timeout.
BackendRuns(r, s) ==
    /\ s \in sent[r] \ executed[r]
    /\ executed' = [executed EXCEPT ![r] = @ \cup {s}]
    /\ UNCHANGED <<status, breaker, in_flight, requestVars, sent>>

\* refresh_health writes the result of a probe, which may be out of date.
HealthResult(s, st) ==
    /\ status[s] # st
    /\ status' = [status EXCEPT ![s] = st]
    /\ UNCHANGED <<breaker, in_flight, requestVars, backendVars>>

Down(n) == IF n > 0 THEN n - 1 ELSE 0

Tick ==
    /\ breaker' = [s \in Services |-> Elapse(breaker[s])]
    /\ left' = [r \in Requests |-> Down(left[r])]
    /\ UNCHANGED <<status, in_flight, pc, ask, untried, tried, answer, backendVars>>

-----------------------------------------------------------------------------
Enters(r) ==
    \E a \in Asks : \/ RefuseUnknownOperation(r, a)
                   \/ RefuseUnavailable(r, a)
                   \/ \E budget \in 1..MaxBudget : Arrive(r, a, budget)

Routes(r) ==
    \/ OutOfBudget(r)
    \/ GiveUp(r)
    \/ \E s \in Services : CircuitRefuses(r, s) \/ NoAdapter(r, s) \/ Call(r, s)

Returns(r) ==
    \/ TimerFires(r)
    \/ Succeed(r)
    \/ NonObjectResult(r)
    \/ UnsupportedOperation(r)
    \/ \E safe \in BOOLEAN : BackendTimeout(r, safe)
    \/ \E e \in AdapterFailures : AdapterFails(r, e)
    \/ AdapterCrashes(r)
    \/ CallTimesOut(r)

World ==
    \/ \E r \in Requests, s \in Services : BackendRuns(r, s)
    \/ \E s \in Services, st \in {"available", "unavailable"} : HealthResult(s, st)
    \/ Tick

Next ==
    \/ \E r \in Requests : Enters(r) \/ Routes(r) \/ Returns(r)
    \/ World

Spec == Init /\ [][Next]_vars

\* The event loop runs a request that can go on, the clock advances, and the
\* timer of a call fires.  Nothing obliges a backend to run, an adapter to
\* answer, or a cancelled adapter to finish closing its connection: writer
\* .wait_closed() is under no timer (service_b.py:173-179).
Fairness ==
    /\ WF_vars(Tick)
    /\ \A r \in Requests : WF_vars(Routes(r)) /\ WF_vars(TimerFires(r))

FairSpec == Spec /\ Fairness

-----------------------------------------------------------------------------
\* An operation runs on at most one backend, whatever fallbacks, timeouts and
\* late executions happen on the way (router.py:191-193, 204-206, 214-216).
NoDuplicateExecution ==
    \A r \in Requests : \A s, t \in executed[r] : s = t

\* A success names the one backend that ran the request: none tried before it
\* ran it, or ever will (router.py:179-185).
SuccessNamesTheRunner ==
    \A r \in Requests : pc[r] = "succeeded" =>
        sent[r] = {tried[r]} /\ executed[r] = {tried[r]}

\* A request that ends without a result and without a break, whatever route it
\* took and whatever code it is told, has not run anywhere and never will
\* (router.py:109-145, 227-233).  That is a fact about where execute_request
\* returns.  Its code does not tell: the same BACKEND_UNAVAILABLE is relayed
\* from adapters whose backend may run the request (router.py:207-216).
RefusedNeverRuns ==
    \A r \in Requests : pc[r] = "refused" => sent[r] = {} /\ executed[r] = {}

\* The contract of BaseAdapter, one level up: what a request to the gateway may
\* come to.  The safe errors are those of requests that were not stopped by a
\* break.
Verdict(r) ==
    CASE pc[r] = "succeeded" -> "result"
      [] pc[r] = "refused"   -> "safe_error"
      [] pc[r] = "stopped"   -> "error"
      [] OTHER               -> "pending"

Verdicts == [r \in Requests |-> Verdict(r)]
Held == {r \in Requests : pc[r] \notin {"new", "refused"}}
Ran == {r \in Requests : executed[r] # {}}

Contract == INSTANCE CallContract WITH
    Calls <- Requests, held <- Held, ran <- Ran, outcome <- Verdicts

\* The candidate loop composes calls that keep the adapters' contract into one
\* that keeps it: a request ends once, with a result only if it ran, and leaves
\* nothing behind that some backend could still run unless the loop was left
\* by a break (router.py:96-233).
ImplementsContract == Contract!Spec

\* The in-flight count of a service is the number of requests inside it, on
\* every way out of a call: a migration drains exactly those
\* (plugin_loader.py:154-170).
Inside(s) == {r \in Requests : pc[r] \in Inwards /\ tried[r] = s}
InFlightCounts == \A s \in Services : in_flight[s] = Cardinality(Inside(s))

\* The breakers stay consistent under the router's uses of them, which report
\* some outcomes and not others (circuit_breaker.py:31-69).
BreakersConsistent == \A s \in Services : Consistent(breaker[s])

\* A request that was taken in is answered, whatever its candidates do, unless
\* an adapter that was cancelled at the deadline never finishes closing
\* (router.py:133-233).
EveryRequestAnswered ==
    \A r \in Requests :
        pc[r] = "routing" ~> (pc[r] \in Ended \/ [](pc[r] = "cancelled"))

\* A request refused with CIRCUIT_OPEN is told that a retry may succeed
\* (router.py:150-154; protocols/gateway-api.md:140): the breaker that refused
\* it is, sooner or later, willing to admit.
RefusedBy(r, s) ==
    pc[r] = "refused" /\ tried[r] = s /\ answer[r] = Reply("CIRCUIT_OPEN", TRUE)
RetryMayHelp ==
    \A r \in Requests, s \in Services : RefusedBy(r, s) ~> Admits(breaker[s])

-----------------------------------------------------------------------------
(* The inductive invariant: a request is held by the backend it tried last, *)
(* and only while that one is being called or after it may have run it.     *)

OnlyTheLastHolds ==
    \A r \in Requests : executed[r] \subseteq sent[r] /\ sent[r] \subseteq {tried[r]}

HeldWhileCalling ==
    \A r \in Requests :
        /\ pc[r] \in {"new", "routing"} => sent[r] = {}
        /\ pc[r] \in Inwards => tried[r] \in Services /\ sent[r] = {tried[r]}

RouteInv ==
    /\ TypeOK
    /\ OnlyTheLastHolds
    /\ HeldWhileCalling
    /\ SuccessNamesTheRunner
    /\ RefusedNeverRuns
    /\ InFlightCounts
=============================================================================
