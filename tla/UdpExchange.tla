---------------------------- MODULE UdpExchange -----------------------------
(***************************************************************************)
(* ReliableUDPTransport.send_and_receive under the calls of                *)
(* ServiceCAdapter.execute: concurrent exchanges that share a semaphore    *)
(* and one retransmission timeout, over a network that loses, duplicates,  *)
(* delays, reorders and corrupts datagrams.                                *)
(*                                                                         *)
(* The identifiers of a request (its request id and sequence number) are   *)
(* its exchange: RequestIds is about their being distinct.  How a sample   *)
(* changes the timeout is left open: it may become anything within its     *)
(* bounds.  The backend is outside; each copy of a request that reaches it *)
(* may be run or rejected, whatever became of the other copies.            *)
(***************************************************************************)
EXTENDS Integers, Sequences, FiniteSets

CONSTANTS
    Exchanges,
    MaxInFlight,             \* permits of the semaphore
    QueueSize,               \* of a handler's queue of datagrams
    Budget,                  \* timeout_budget_s, in ticks
    MinRto, InitialRto, MaxRto,
    NetSize                  \* bound: datagrams in flight beside a further copy

ASSUME ExchangesAssumption == IsFiniteSet(Exchanges)
ASSUME PermitsAssumption == MaxInFlight \in Nat \ {0}
ASSUME TicksAssumption ==
    /\ Budget \in Nat \ {0}
    /\ MinRto \in Nat \ {0} /\ InitialRto \in Nat /\ MaxRto \in Nat
    /\ MinRto <= InitialRto /\ InitialRto <= MaxRto
ASSUME NetSizeAssumption == NetSize \in Nat
ASSUME QueueAssumption == QueueSize \in Nat \ {0}

\* What an answer of the backend says.  A "rejection" has one of the four
\* codes of service_c.py:164-169; a "failure" any other one, or a body that
\* does not pass the checks that come after validate_packet.
Verdicts == {"result", "rejection", "failure"}

Request(e, copy) == [type |-> "request", of |-> e, copy |-> copy]
Response(e, copy, verdict) ==
    [type |-> "response", of |-> e, copy |-> copy, verdict |-> verdict]

\* A datagram that validate_packet refuses: foreign, corrupt or malformed.
Junk == [type |-> "junk"]

VARIABLES
    pc,       \* "idle", "queued", "opening", "waiting" or "done"
    left,     \* ticks until the deadline
    wait,     \* ticks until the attempt is given up
    tries,    \* copies of the packet sent
    queue,    \* the handler's incoming_queue
    outcome,  \* what execute returns or raises
    permits,  \* of the semaphore
    rto,      \* of the estimator all exchanges share
    misled,   \* history: a sample was taken from the answer to another copy
    net,      \* datagrams in flight
    rejected, \* exchanges of which the backend has rejected a copy
    ran       \* exchanges of which it has run a copy

callVars    == <<pc, left, wait, tries, queue, outcome>>
sharedVars  == <<permits, rto, misled>>
backendVars == <<rejected, ran>>
vars == <<callVars, sharedVars, net, backendVars>>

Holding(e) == pc[e] \in {"opening", "waiting"}
InCall(e) == pc[e] \notin {"idle", "done"}

TypeOK ==
    /\ pc \in [Exchanges -> {"idle", "queued", "opening", "waiting", "done"}]
    /\ left \in [Exchanges -> 0..Budget]
    /\ wait \in [Exchanges -> 0..Budget]
    /\ tries \in [Exchanges -> 0..Budget]
    /\ \A e \in Exchanges : Len(queue[e]) <= QueueSize
    /\ outcome \in [Exchanges -> {"pending", "result", "safe_error", "error"}]
    /\ permits \in 0..MaxInFlight
    /\ rto \in MinRto..MaxRto
    /\ misled \in BOOLEAN
    /\ \A d \in net : d.of \in Exchanges /\ d.copy \in 1..tries[d.of]
    /\ rejected \subseteq Exchanges
    /\ ran \subseteq Exchanges

Init ==
    /\ pc = [e \in Exchanges |-> "idle"]
    /\ left = [e \in Exchanges |-> Budget]
    /\ wait = [e \in Exchanges |-> 0]
    /\ tries = [e \in Exchanges |-> 0]
    /\ queue = [e \in Exchanges |-> <<>>]
    /\ outcome = [e \in Exchanges |-> "pending"]
    /\ permits = MaxInFlight
    /\ rto = InitialRto
    /\ misled = FALSE
    /\ net = {}
    /\ rejected = {}
    /\ ran = {}

-----------------------------------------------------------------------------
(* The exchange.                                                            *)

\* An unsupported operation or version is safe to fall back from, a payload
\* over the limit is not.
Refuse(e, o) ==
    /\ pc[e] = "idle"
    /\ o \in {"safe_error", "error"}
    /\ pc' = [pc EXCEPT ![e] = "done"]
    /\ outcome' = [outcome EXCEPT ![e] = o]
    /\ UNCHANGED <<left, wait, tries, queue, sharedVars, net, backendVars>>

Begin(e) ==
    /\ pc[e] = "idle"
    /\ pc' = [pc EXCEPT ![e] = "queued"]
    /\ UNCHANGED <<left, wait, tries, queue, outcome, sharedVars, net, backendVars>>

Acquire(e) ==
    /\ pc[e] = "queued"
    /\ permits > 0
    /\ pc' = [pc EXCEPT ![e] = "opening"]
    /\ permits' = permits - 1
    /\ UNCHANGED <<left, wait, tries, queue, outcome, rto, misled, net, backendVars>>

\* Mutant: only an exchange that has an endpoint gives its permit back.
FinishLeaky(e, o) ==
    /\ pc' = [pc EXCEPT ![e] = "done"]
    /\ wait' = [wait EXCEPT ![e] = 0]
    /\ queue' = [queue EXCEPT ![e] = <<>>]
    /\ outcome' = [outcome EXCEPT ![e] = o]
    /\ permits' = IF pc[e] = "waiting" THEN permits + 1 ELSE permits
    /\ UNCHANGED <<left, tries>>

\* The finally clause closes the endpoint and releases the permit.
Finish(e, o) ==
    /\ pc' = [pc EXCEPT ![e] = "done"]
    /\ wait' = [wait EXCEPT ![e] = 0]
    /\ queue' = [queue EXCEPT ![e] = <<>>]
    /\ outcome' = [outcome EXCEPT ![e] = o]
    /\ permits' = IF Holding(e) THEN permits + 1 ELSE permits
    /\ UNCHANGED <<left, tries>>

\* One attempt: a copy of the packet, and how long it waits for an answer.
Send(e, timeout) ==
    /\ tries' = [tries EXCEPT ![e] = @ + 1]
    /\ wait' = [wait EXCEPT ![e] = IF timeout < left[e] THEN timeout ELSE left[e]]
    /\ net' = net \cup {Request(e, tries[e] + 1)}

Open(e) ==
    /\ pc[e] = "opening"
    /\ left[e] > 0
    /\ pc' = [pc EXCEPT ![e] = "waiting"]
    /\ Send(e, rto)
    /\ UNCHANGED <<left, queue, outcome, sharedVars, backendVars>>

\* create_datagram_endpoint raises OSError.
OpenFails(e) ==
    /\ pc[e] = "opening"
    /\ Finish(e, "error")
    /\ UNCHANGED <<rto, misled, net, backendVars>>

\* Mutant: the wait for a permit is not timed.
OutOfBudgetHolding(e) ==
    /\ Holding(e)
    /\ left[e] = 0
    /\ Finish(e, "error")
    /\ UNCHANGED <<rto, misled, net, backendVars>>

\* The budget is used up: in the semaphore's queue, by the endpoint, or as
\* the router's timer has it, anywhere.  One error for all of them.
OutOfBudget(e) ==
    /\ InCall(e)
    /\ left[e] = 0
    /\ Finish(e, "error")
    /\ UNCHANGED <<rto, misled, net, backendVars>>

\* Mutant: any datagram of a backend is an answer.
ValidUnmatched(e, d) == d.type = "response"

\* validate_packet: the checksum and the identifiers are right.
Valid(e, d) == d.type = "response" /\ d.of = e

OutcomeOf(v) ==
    [result |-> "result", rejection |-> "safe_error", failure |-> "error"][v]

\* Mutant: every answer is a sample.
SampleAlways(e, d) ==
    /\ rto' \in MinRto..MaxRto
    /\ misled' = (misled \/ d.copy # tries[e])

\* The round-trip time is measured from the last copy sent, and only if there
\* was one copy.
Sample(e, d) ==
    \/ /\ tries[e] = 1
       /\ rto' \in MinRto..MaxRto
       /\ misled' = (misled \/ d.copy # tries[e])
    \/ tries[e] > 1 /\ UNCHANGED <<rto, misled>>

Read(e) ==
    /\ pc[e] = "waiting"
    /\ wait[e] > 0
    /\ queue[e] # <<>>
    /\ LET d == Head(queue[e])
       IN  \/ /\ Valid(e, d)
              /\ Sample(e, d)
              /\ Finish(e, OutcomeOf(d.verdict))
           \/ /\ ~Valid(e, d)
              /\ queue' = [queue EXCEPT ![e] = Tail(@)]
              /\ UNCHANGED <<pc, left, wait, tries, outcome, sharedVars>>
    /\ UNCHANGED <<net, backendVars>>

\* Mutant: the timeout doubles without a limit.
BackedOffUnbounded == 2 * rto

BackedOff == IF 2 * rto < MaxRto THEN 2 * rto ELSE MaxRto

\* The attempt is given up, and the next one made if there is time for it.
Expire(e) ==
    /\ pc[e] = "waiting"
    /\ wait[e] = 0
    /\ rto' = BackedOff
    /\ misled' = misled
    /\ \/ /\ left[e] > 0
          /\ Send(e, BackedOff)
          /\ UNCHANGED <<pc, left, queue, outcome, permits>>
       \/ /\ left[e] = 0
          /\ Finish(e, "error")
          /\ UNCHANGED net
    /\ UNCHANGED backendVars

Due(e) == InCall(e) /\ (left[e] = 0 \/ (pc[e] = "waiting" /\ wait[e] = 0))

Tick ==
    /\ \A e \in Exchanges : ~Due(e)
    /\ \E e \in Exchanges : InCall(e)
    /\ left' = [e \in Exchanges |-> IF InCall(e) THEN left[e] - 1 ELSE left[e]]
    /\ wait' = [e \in Exchanges |->
                  IF pc[e] = "waiting" THEN wait[e] - 1 ELSE wait[e]]
    /\ UNCHANGED <<pc, tries, queue, outcome, sharedVars, net, backendVars>>

-----------------------------------------------------------------------------
(* The network and the backend.                                             *)

\* datagram_received: what finds the queue full is dropped.
Enqueue(e, d) ==
    queue' = [queue EXCEPT ![e] = IF Len(@) < QueueSize THEN Append(@, d) ELSE @]

\* A response reaches the port it was sent to, which may by then belong to
\* another exchange.  The network may keep a copy of it.
Deliver(d, e) ==
    /\ d.type = "response"
    /\ pc[e] = "waiting"
    /\ d.of = e \/ pc[d.of] = "done"
    /\ Enqueue(e, d)
    /\ net' \in {net, net \ {d}}
    /\ UNCHANGED <<pc, left, wait, tries, outcome, sharedVars, backendVars>>

Disturb(e) ==
    /\ pc[e] = "waiting"
    /\ Enqueue(e, Junk)
    /\ UNCHANGED <<pc, left, wait, tries, outcome, sharedVars, net, backendVars>>

\* Lost, or found corrupt and thrown away.
Lose(d) ==
    /\ net' = net \ {d}
    /\ UNCHANGED <<callVars, sharedVars, backendVars>>

\* The backend has a copy of a request, and the network may keep another to
\* deliver later.
Serve(d, v) ==
    /\ d.type = "request"
    /\ rejected' = IF v = "rejection" THEN rejected \cup {d.of} ELSE rejected
    /\ \/ v # "rejection" /\ ran' = ran \cup {d.of}
       \/ v # "result" /\ ran' = ran
    /\ \E rest \in {net, net \ {d}} :
          /\ rest = net => Cardinality(net) <= NetSize
          /\ net' = rest \cup {Response(d.of, d.copy, v)}
    /\ UNCHANGED <<callVars, sharedVars>>

-----------------------------------------------------------------------------
ExchangeSteps(e) ==
    \/ \E o \in {"safe_error", "error"} : Refuse(e, o)
    \/ Begin(e) \/ Acquire(e) \/ Open(e) \/ OpenFails(e)
    \/ OutOfBudget(e) \/ Read(e) \/ Expire(e)

NetworkSteps(d) ==
    \/ \E e \in Exchanges : Deliver(d, e)
    \/ Lose(d)
    \/ \E v \in Verdicts : Serve(d, v)

Next ==
    \/ Tick
    \/ \E e \in Exchanges : ExchangeSteps(e) \/ Disturb(e)
    \/ \E d \in net : NetworkSteps(d)

Spec == Init /\ [][Next]_vars

\* The event loop runs its timers; nothing is asked of network and backend.
FairSpec ==
    /\ Spec
    /\ WF_vars(Tick)
    /\ \A e \in Exchanges : WF_vars(OutOfBudget(e)) /\ WF_vars(Expire(e))

-----------------------------------------------------------------------------
\* The permits of the semaphore are those no exchange holds: whatever way an
\* exchange ends, it gives back its own and no other (udp_reliable.py:83-96,
\* 137-140).
PermitsExact == permits + Cardinality({e \in Exchanges : Holding(e)}) = MaxInFlight

\* Karn's rule: no round-trip time is taken from the answer to one copy and
\* the time of sending of another (udp_reliable.py:120-123).
SamplesUnambiguous == ~misled

\* An exchange goes by the backend's answers to its own request: late, lost,
\* repeated and misdirected datagrams, full queues and retransmissions never
\* make it return a result for a request that did not run, or call an error
\* safe for one that ran or runs later, unless the backend itself has rejected
\* one copy and runs another (service_c.py:115-173).
AnswersAreOwn ==
    \A e \in Exchanges :
        /\ outcome[e] = "result" => e \in ran
        /\ outcome[e] = "safe_error" /\ e \in ran => e \in rejected

\* Every exchange ends, whatever the network does and however full the
\* semaphore and the queues are (udp_reliable.py:83-140).
EveryExchangeEnds == \A e \in Exchanges : pc[e] # "idle" ~> pc[e] = "done"
=============================================================================
