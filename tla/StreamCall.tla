----------------------------- MODULE StreamCall -----------------------------
(***************************************************************************)
(* The calls of ServiceAAdapter.execute (HTTP) and ServiceBAdapter.execute *)
(* (framed TCP): one new connection and one request each.                  *)
(*                                                                         *)
(* What matters is where an error is raised: before the request can have   *)
(* left, or after.  The code decides that by a flag, dispatched, that is   *)
(* set at different moments in the two adapters; the wire itself is        *)
(* modelled beside it.  The contents of requests and answers are left out  *)
(* but for what the except clauses and the checks tell apart.              *)
(*                                                                         *)
(* Two timers run over a call: asyncio.timeout inside the adapter, and the *)
(* router's around it (router.py:166), of the same length and started      *)
(* first.  A timer cancels the task once; what the task awaits after that, *)
(* in a finally clause, is not cancelled again.                            *)
(***************************************************************************)
EXTENDS Naturals

CONSTANTS
    HttpCalls, TcpCalls,
    Budget  \* timeout_s, in ticks

Calls == HttpCalls \cup TcpCalls

ASSUME CallsAssumption == HttpCalls \cap TcpCalls = {}
ASSUME BudgetAssumption == Budget \in Nat \ {0}

\* What the backend puts on the connection.  A "rejection" is an HTTP status
\* of 400, 415, 429 or 503, or an errorData with one of the four codes of
\* service_b.py:133-138; a "failure" any other error; an answer is "garbled"
\* if it fails a check of status line, header, identifiers or body.
Answers == {"result", "rejection", "failure", "garbled"}

Codes == {"BACKEND_TIMEOUT", "BACKEND_UNAVAILABLE", "CONNECTION_RESET",
          "UNSUPPORTED_OPERATION", "UNSUPPORTED_PROTOCOL_VERSION",
          "PROTOCOL_VALIDATION_ERROR", "BACKEND_CODE"}

Pending == [kind |-> "pending", code |-> "NONE", retryable |-> FALSE, safe |-> FALSE]
Result  == [kind |-> "result", code |-> "NONE", retryable |-> FALSE, safe |-> FALSE]
Error(code, retryable, safe) ==
    [kind |-> "error", code |-> code, retryable |-> retryable, safe |-> safe]

Outcome ==
    {Pending, Result}
        \cup [kind : {"error"}, code : Codes, retryable : BOOLEAN, safe : BOOLEAN]

VARIABLES
    pc,          \* "idle", "connecting", "reading", "closing" or "done"
    dispatched,  \* the local variable of execute
    outcome,     \* what execute returns or raises, once that is settled
    left,        \* ticks until the deadline of the router
    cancelled,   \* the router's timer has cancelled the call
    late,        \* history: time passed in the call after that
    link,        \* the request's bytes: "none" yet, "buffered", "arrived", "cut"
    answer,      \* what the backend has answered
    ran          \* calls whose request the backend has run

adapterVars == <<pc, dispatched, outcome, left, cancelled, late>>
wireVars    == <<link, answer, ran>>
vars == <<adapterVars, wireVars>>

TypeOK ==
    /\ pc \in [Calls -> {"idle", "connecting", "reading", "closing", "done"}]
    /\ dispatched \in [Calls -> BOOLEAN]
    /\ outcome \in [Calls -> Outcome]
    /\ left \in [Calls -> 0..Budget]
    /\ cancelled \in [Calls -> BOOLEAN]
    /\ late \in [Calls -> BOOLEAN]
    /\ link \in [Calls -> {"none", "buffered", "arrived", "cut"}]
    /\ answer \in [Calls -> Answers \cup {"none"}]
    /\ ran \subseteq Calls

Init ==
    /\ pc = [c \in Calls |-> "idle"]
    /\ dispatched = [c \in Calls |-> FALSE]
    /\ outcome = [c \in Calls |-> Pending]
    /\ left = [c \in Calls |-> Budget]
    /\ cancelled = [c \in Calls |-> FALSE]
    /\ late = [c \in Calls |-> FALSE]
    /\ link = [c \in Calls |-> "none"]
    /\ answer = [c \in Calls |-> "none"]
    /\ ran = {}

-----------------------------------------------------------------------------
(* Before the connection.                                                   *)

\* The call is over, and with it everything it awaited.
Over(c, o) ==
    /\ pc' = [pc EXCEPT ![c] = "done"]
    /\ outcome' = [outcome EXCEPT ![c] = o]

\* Checks that need no backend.  Only Service B limits the request's size.
Refusals(c) ==
    {Error("UNSUPPORTED_OPERATION", FALSE, TRUE),
     Error("UNSUPPORTED_PROTOCOL_VERSION", FALSE, TRUE)}
        \cup (IF c \in TcpCalls
              THEN {Error("PROTOCOL_VALIDATION_ERROR", FALSE, FALSE)} ELSE {})

Refuse(c, o) ==
    /\ pc[c] = "idle"
    /\ o \in Refusals(c)
    /\ Over(c, o)
    /\ UNCHANGED <<dispatched, left, cancelled, late, wireVars>>

\* Service A says dispatched before it hands the request to its client,
\* Service B after it has written the frame.
Connect(c) ==
    /\ pc[c] = "idle"
    /\ pc' = [pc EXCEPT ![c] = "connecting"]
    /\ dispatched' = [dispatched EXCEPT ![c] = c \in HttpCalls]
    /\ UNCHANGED <<outcome, left, cancelled, late, wireVars>>

\* Mutant: the frame is written before the connection is known to stand.
ConnectFailsAfterWrite(c) ==
    /\ pc[c] = "connecting"
    /\ Over(c, Error("BACKEND_UNAVAILABLE", TRUE, TRUE))
    /\ link' = [link EXCEPT ![c] = "buffered"]
    /\ UNCHANGED <<dispatched, left, cancelled, late, answer, ran>>

\* httpx.ConnectError, or OSError of open_connection: there is no connection,
\* and no writer to close.
ConnectFails(c) ==
    /\ pc[c] = "connecting"
    /\ Over(c, Error("BACKEND_UNAVAILABLE", TRUE,
                     IF c \in HttpCalls THEN TRUE ELSE ~dispatched[c]))
    /\ UNCHANGED <<dispatched, left, cancelled, late, wireVars>>

Connected(c) ==
    /\ pc[c] = "connecting"
    /\ pc' = [pc EXCEPT ![c] = "reading"]
    /\ dispatched' = [dispatched EXCEPT ![c] = TRUE]
    /\ link' = [link EXCEPT ![c] = "buffered"]
    /\ UNCHANGED <<outcome, left, cancelled, late, answer, ran>>

-----------------------------------------------------------------------------
(* With a connection.  Service B's finally clause awaits the closing of its *)
(* writer; the client of Service A closes at once.                          *)

Leave(c, o) ==
    /\ pc' = [pc EXCEPT ![c] = IF c \in TcpCalls THEN "closing" ELSE "done"]
    /\ outcome' = [outcome EXCEPT ![c] = o]

\* Mutant: every coded error of the backend is called safe.
OutcomeOfLenient(a, retryable) ==
    CASE a = "result"  -> Result
      [] a = "garbled" -> Error("PROTOCOL_VALIDATION_ERROR", FALSE, FALSE)
      [] OTHER         -> Error("BACKEND_CODE", retryable, TRUE)

OutcomeOf(a, retryable) ==
    CASE a = "result"    -> Result
      [] a = "rejection" -> Error("BACKEND_CODE", retryable, TRUE)
      [] a = "failure"   -> Error("BACKEND_CODE", retryable, FALSE)
      [] a = "garbled"   -> Error("PROTOCOL_VALIDATION_ERROR", FALSE, FALSE)

Reads(c, retryable) ==
    /\ pc[c] = "reading"
    /\ answer[c] # "none"
    /\ Leave(c, OutcomeOf(answer[c], retryable))
    /\ UNCHANGED <<dispatched, left, cancelled, late, wireVars>>

\* The connection ends: httpx.RequestError, or IncompleteReadError (also of a
\* truncated frame), ConnectionResetError and OSError.  What is still on its
\* way may arrive or be lost.
Breaks(c) ==
    /\ pc[c] = "reading"
    /\ \E code \in {"CONNECTION_RESET", "BACKEND_UNAVAILABLE"} :
          Leave(c, Error(code, TRUE, ~dispatched[c]))
    /\ link' \in {link, [link EXCEPT ![c] = IF @ = "buffered" THEN "cut" ELSE @]}
    /\ UNCHANGED <<dispatched, left, cancelled, late, answer, ran>>

\* asyncio.timeout inside execute, httpx.TimeoutException, or ETIMEDOUT of the
\* socket, which comes when it likes.
TimesOut(c) ==
    /\ LET o == Error("BACKEND_TIMEOUT", TRUE, ~dispatched[c])
       IN  \/ pc[c] = "connecting" /\ Over(c, o)
           \/ pc[c] = "reading" /\ Leave(c, o)
    /\ UNCHANGED <<dispatched, left, cancelled, late, wireVars>>

\* wait_closed returns when the transport has handed on or lost its bytes.
Closable(c) == pc[c] = "closing" /\ link[c] # "buffered"

Closes(c) ==
    /\ Closable(c)
    /\ pc' = [pc EXCEPT ![c] = "done"]
    /\ UNCHANGED <<dispatched, outcome, left, cancelled, late, wireVars>>

-----------------------------------------------------------------------------
(* The router's timer.                                                      *)

RouterTimeout == Error("BACKEND_TIMEOUT", TRUE, FALSE)

\* Mutant: connecting is outside the timed block.
CancelsOnlyReads(c) ==
    /\ left[c] = 0
    /\ ~cancelled[c]
    /\ cancelled' = [cancelled EXCEPT ![c] = TRUE]
    /\ \/ pc[c] = "connecting" /\ UNCHANGED <<pc, outcome>>
       \/ pc[c] = "closing" /\ Over(c, RouterTimeout)
       \/ pc[c] = "reading" /\ Leave(c, RouterTimeout)
    /\ UNCHANGED <<dispatched, left, late, wireVars>>

\* The task is cancelled at what it awaits.  While it closes, that ends the
\* call; before, the finally clause is still to run.
Cancels(c) ==
    /\ left[c] = 0
    /\ ~cancelled[c]
    /\ cancelled' = [cancelled EXCEPT ![c] = TRUE]
    /\ \/ pc[c] \in {"connecting", "closing"} /\ Over(c, RouterTimeout)
       \/ pc[c] = "reading" /\ Leave(c, RouterTimeout)
    /\ UNCHANGED <<dispatched, left, late, wireVars>>

InCall(c) == pc[c] \notin {"idle", "done"}

\* The event loop has something to run: a timer that is due, a close that
\* waits for nothing.
Due(c) == InCall(c) /\ ((left[c] = 0 /\ ~cancelled[c]) \/ Closable(c))

\* Mutant: time passes whether or not a timer is due, and its rest goes
\* below zero.
TickPastDeadline ==
    /\ left' = [c \in Calls |-> IF InCall(c) THEN left[c] - 1 ELSE left[c]]
    /\ late' = [c \in Calls |-> late[c] \/ (InCall(c) /\ left[c] = 0)]
    /\ UNCHANGED <<pc, dispatched, outcome, cancelled, wireVars>>

Tick ==
    /\ \A c \in Calls : ~Due(c)
    /\ left' = [c \in Calls |->
                  IF InCall(c) /\ left[c] > 0 THEN left[c] - 1 ELSE left[c]]
    /\ late' = [c \in Calls |-> late[c] \/ (InCall(c) /\ left[c] = 0)]
    /\ UNCHANGED <<pc, dispatched, outcome, cancelled, wireVars>>

-----------------------------------------------------------------------------
(* The network and the backend.                                             *)

Arrives(c) ==
    /\ link[c] = "buffered"
    /\ link' = [link EXCEPT ![c] = "arrived"]
    /\ UNCHANGED <<adapterVars, answer, ran>>

\* A backend that has rejected a request does not run it, nor the other way
\* round; it may run one whose connection is gone.
Runs(c) ==
    /\ link[c] = "arrived"
    /\ c \notin ran
    /\ answer[c] # "rejection"
    /\ ran' = ran \cup {c}
    /\ UNCHANGED <<adapterVars, link, answer>>

Answer(c, a) ==
    /\ link[c] = "arrived"
    /\ answer[c] = "none"
    /\ a = "result" => c \in ran
    /\ a = "rejection" => c \notin ran
    /\ answer' = [answer EXCEPT ![c] = a]
    /\ UNCHANGED <<adapterVars, link, ran>>

-----------------------------------------------------------------------------
AdapterSteps(c) ==
    \/ \E o \in Refusals(c) : Refuse(c, o)
    \/ Connect(c) \/ ConnectFails(c) \/ Connected(c)
    \/ \E retryable \in BOOLEAN : Reads(c, retryable)
    \/ Breaks(c) \/ TimesOut(c) \/ Closes(c) \/ Cancels(c)

BackendSteps(c) == Arrives(c) \/ Runs(c) \/ \E a \in Answers : Answer(c, a)

Next == Tick \/ \E c \in Calls : AdapterSteps(c) \/ BackendSteps(c)

Spec == Init /\ [][Next]_vars

-----------------------------------------------------------------------------
\* The contract of BaseAdapter, in the terms of this module.
Ended(o) ==
    IF o.kind = "error" THEN IF o.safe THEN "safe_error" ELSE "error" ELSE o.kind

\* What the caller learns is settled when the call is done.
Verdict(c) == IF pc[c] = "done" THEN Ended(outcome[c]) ELSE "pending"

Verdicts == [c \in Calls |-> Verdict(c)]
Held == {c \in Calls : link[c] # "none" /\ Verdict(c) # "safe_error"}

Contract == INSTANCE CallContract WITH held <- Held, outcome <- Verdicts

\* Adapters A and B keep the contract on which the router's fallback rests,
\* although the one raises its flag before it connects and the other after it
\* has written (service_a.py:67-160, service_b.py:84-172; base.py:20-21).
ImplementsContract == Contract!Spec

\* A request whose error allowed a fallback has not run and never will, also
\* when its bytes are still under way when the error is raised.
SafeNeverRuns ==
    \A c \in Calls : outcome[c].safe =>
        c \notin ran /\ (link[c] \in {"none", "cut"} \/ answer[c] = "rejection")

\* A call outlives the deadline of its caller only to flush the frame of
\* Service B: everywhere else a timer ends it (service_b.py:87, 173-179).
LateOnlyToFlush ==
    \A c \in Calls : InCall(c) /\ late[c] =>
        pc[c] = "closing" /\ c \in TcpCalls /\ link[c] # "none"
=============================================================================
