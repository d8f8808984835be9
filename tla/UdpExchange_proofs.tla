------------------------- MODULE UdpExchange_proofs -------------------------
(***************************************************************************)
(* Proofs about UdpExchange, for any number of exchanges, any size of the  *)
(* semaphore and the queues, and any budget.  The invariant says of every  *)
(* answer, in the network or in a queue, what makes it trustworthy: it is  *)
(* the answer to a copy that was sent, and the backend did to one copy of  *)
(* the request what it says.                                               *)
(***************************************************************************)
EXTENDS UdpExchange, FiniteSetTheorems, TLAPS

Requests == [type : {"request"}, of : Exchanges, copy : Nat]
Responses == [type : {"response"}, of : Exchanges, copy : Nat, verdict : Verdicts]

TypeInv ==
    /\ pc \in [Exchanges -> {"idle", "queued", "opening", "waiting", "done"}]
    /\ left \in [Exchanges -> 0..Budget]
    /\ wait \in [Exchanges -> 0..Budget]
    /\ tries \in [Exchanges -> 0..Budget]
    /\ queue \in [Exchanges -> Seq(Responses \cup {Junk})]
    /\ \A e \in Exchanges : Len(queue[e]) <= QueueSize
    /\ outcome \in [Exchanges -> {"pending", "result", "safe_error", "error"}]
    /\ permits \in Nat
    /\ rto \in MinRto..MaxRto
    /\ misled \in BOOLEAN
    /\ net \subseteq Requests \cup Responses
    /\ rejected \subseteq Exchanges
    /\ ran \subseteq Exchanges

\* An exchange that waits has its next ticks ahead of it; so it can send no
\* more copies than it has ticks.
Timed ==
    /\ \A e \in Exchanges : pc[e] = "waiting" =>
          /\ wait[e] <= left[e]
          /\ tries[e] > 0 /\ tries[e] + left[e] - wait[e] <= Budget
    /\ \A e \in Exchanges : pc[e] \in {"idle", "queued", "opening"} => tries[e] = 0
    /\ \A e \in Exchanges : pc[e] # "done" <=> outcome[e] = "pending"

\* What makes an answer trustworthy, given what was sent, run and decided.
Vouched(d, sent, done, refused) ==
    d \in Responses =>
        /\ d.copy \in 1..sent[d.of]
        /\ d.verdict = "result" => d.of \in done
        /\ d.verdict = "rejection" => d.of \in refused

Trusted ==
    /\ \A d \in net : d.copy \in 1..tries[d.of] /\ Vouched(d, tries, ran, rejected)
    /\ \A e \in Exchanges : \A i \in 1..Len(queue[e]) :
          Vouched(queue[e][i], tries, ran, rejected)

Final ==
    /\ \A e \in ran : tries[e] > 0
    /\ \A e \in Exchanges :
          /\ outcome[e] = "result" => e \in ran
          /\ outcome[e] = "safe_error" => tries[e] = 0 \/ e \in rejected

ExchangeInv == TypeInv /\ Timed /\ Trusted /\ Final /\ PermitsExact /\ SamplesUnambiguous

-----------------------------------------------------------------------------
(* Facts about the parts of a step.                                         *)

LEMMA Marks ==
    /\ Junk \notin Responses /\ Junk \notin Requests
    /\ Junk.type = "junk"
    /\ Requests \cap Responses = {}
    /\ \A d \in Requests : d.type = "request"
    /\ \A d \in Responses : d.type = "response"
  BY DEF Junk, Responses, Requests

LEMMA Ticks ==
    /\ Budget \in Nat /\ Budget > 0
    /\ MinRto \in Nat /\ MinRto > 0 /\ MaxRto \in Nat /\ MinRto <= MaxRto
    /\ MaxInFlight \in Nat /\ QueueSize \in Nat /\ QueueSize > 0
    /\ InitialRto \in MinRto..MaxRto
  BY TicksAssumption, PermitsAssumption, QueueAssumption

LEMMA BackedOffType ==
    ASSUME rto \in MinRto..MaxRto
    PROVE  BackedOff \in MinRto..MaxRto /\ BackedOff > 0
  BY Ticks DEF BackedOff

\* The holders of permits are counted one by one.
Holders == {e \in Exchanges : Holding(e)}

LEMMA HoldersFinite == IsFiniteSet(Holders) /\ Cardinality(Holders) \in Nat
<1>1. Holders \subseteq Exchanges
  BY DEF Holders
<1>2. QED
  BY <1>1, ExchangesAssumption, FS_Subset, FS_CardinalityType

LEMMA OneMoreHolder ==
    ASSUME NEW e \in Exchanges, ~Holding(e), Holders' = Holders \cup {e}
    PROVE  Cardinality(Holders') = Cardinality(Holders) + 1
<1>1. e \notin Holders
  BY DEF Holders
<1>2. QED
  BY <1>1, HoldersFinite, FS_AddElement

LEMMA OneFewerHolder ==
    ASSUME NEW e \in Exchanges, Holding(e), Holders' = Holders \ {e}
    PROVE  Cardinality(Holders') = Cardinality(Holders) - 1
<1>1. e \in Holders
  BY DEF Holders
<1>2. QED
  BY <1>1, HoldersFinite, FS_RemoveElement

-----------------------------------------------------------------------------
(* The variables keep their types.                                          *)

CallType ==
    /\ pc \in [Exchanges -> {"idle", "queued", "opening", "waiting", "done"}]
    /\ left \in [Exchanges -> 0..Budget]
    /\ wait \in [Exchanges -> 0..Budget]
    /\ tries \in [Exchanges -> 0..Budget]
    /\ queue \in [Exchanges -> Seq(Responses \cup {Junk})]
    /\ \A e \in Exchanges : Len(queue[e]) <= QueueSize
    /\ outcome \in [Exchanges -> {"pending", "result", "safe_error", "error"}]
    /\ permits \in Nat

RestType ==
    /\ rto \in MinRto..MaxRto
    /\ misled \in BOOLEAN
    /\ net \subseteq Requests \cup Responses
    /\ rejected \subseteq Exchanges
    /\ ran \subseteq Exchanges

LEMMA FinishType ==
    ASSUME CallType, NEW e \in Exchanges,
           NEW o \in {"result", "safe_error", "error"}, Finish(e, o)
    PROVE  CallType'
<1>1. 0 \in 0..Budget
  BY Ticks
<1>2. <<>> \in Seq(Responses \cup {Junk}) /\ Len(<<>>) = 0
  OBVIOUS
<1>3. \A x \in Exchanges : Len(queue'[x]) <= QueueSize
  BY <1>2, Ticks DEF CallType, Finish
<1>4. permits' \in Nat
  BY DEF CallType, Finish
<1>5. QED
  BY <1>1, <1>2, <1>3, <1>4 DEF CallType, Finish

LEMMA SendType ==
    ASSUME CallType, RestType, Timed, NEW e \in Exchanges,
           NEW timeout \in MinRto..MaxRto, Send(e, timeout), left[e] > 0,
           pc[e] = "opening" \/ (pc[e] = "waiting" /\ wait[e] = 0)
    PROVE  /\ wait' \in [Exchanges -> 0..Budget]
           /\ tries' \in [Exchanges -> 0..Budget]
           /\ net' \subseteq Requests \cup Responses
           /\ tries[e] < Budget
<1>1. timeout \in Nat /\ timeout > 0
  BY Ticks
<1>2. tries[e] < Budget
  <2>1. CASE pc[e] \in {"idle", "queued", "opening"}
    BY <2>1, Ticks DEF Timed
  <2>2. CASE pc[e] = "waiting" /\ wait[e] = 0
    BY <2>2, Ticks DEF Timed, CallType
  <2>3. QED
    BY <2>1, <2>2 DEF CallType
<1>3. QED
  BY <1>1, <1>2, Ticks DEF CallType, RestType, Send, Requests, Request

LEMMA StepType == TypeInv /\ Timed /\ [Next]_vars => TypeInv'
<1> SUFFICES ASSUME CallType, RestType, Timed, [Next]_vars
             PROVE  CallType' /\ RestType'
  BY DEF TypeInv, CallType, RestType
<1>1. CASE UNCHANGED vars
  BY <1>1 DEF vars, callVars, sharedVars, backendVars, CallType, RestType
<1>2. CASE Tick
  <2>1. ASSUME NEW e \in Exchanges
        PROVE  left'[e] \in 0..Budget /\ wait'[e] \in 0..Budget
    <3>1. left[e] \in 0..Budget /\ wait[e] \in 0..Budget /\ ~Due(e)
      BY <1>2 DEF Tick, CallType
    <3>2. left'[e] \in 0..Budget
      BY <1>2, <3>1, Ticks DEF Tick, Due
    <3>3. pc[e] = "waiting" => wait[e] # 0
      BY <3>1 DEF Due, InCall
    <3>4. wait'[e] \in 0..Budget
      BY <1>2, <3>1, <3>3, Ticks DEF Tick
    <3>5. QED
      BY <3>2, <3>4
  <2>2. left' \in [Exchanges -> 0..Budget] /\ wait' \in [Exchanges -> 0..Budget]
    BY <1>2, <2>1 DEF Tick
  <2>3. QED
    BY <1>2, <2>2 DEF Tick, sharedVars, backendVars, CallType, RestType
<1>3. ASSUME NEW e \in Exchanges, NEW o \in {"safe_error", "error"}, Refuse(e, o)
      PROVE  CallType' /\ RestType'
  BY <1>3 DEF Refuse, sharedVars, backendVars, CallType, RestType
<1>4. ASSUME NEW e \in Exchanges, Begin(e)
      PROVE  CallType' /\ RestType'
  BY <1>4 DEF Begin, sharedVars, backendVars, CallType, RestType
<1>5. ASSUME NEW e \in Exchanges, Acquire(e)
      PROVE  CallType' /\ RestType'
  BY <1>5 DEF Acquire, backendVars, CallType, RestType
<1>6. ASSUME NEW e \in Exchanges, Open(e)
      PROVE  CallType' /\ RestType'
  <2>1. left[e] > 0 /\ pc[e] = "opening" /\ Send(e, rto) /\ rto \in MinRto..MaxRto
    BY <1>6 DEF Open, RestType
  <2>2. /\ wait' \in [Exchanges -> 0..Budget] /\ tries' \in [Exchanges -> 0..Budget]
        /\ net' \subseteq Requests \cup Responses
    BY <2>1, SendType
  <2>3. QED
    BY <1>6, <2>2 DEF Open, sharedVars, backendVars, CallType, RestType
<1>7. ASSUME NEW e \in Exchanges, OpenFails(e) \/ OutOfBudget(e)
      PROVE  CallType' /\ RestType'
  <2>1. Finish(e, "error")
    BY <1>7 DEF OpenFails, OutOfBudget
  <2>2. CallType'
    BY <2>1, FinishType
  <2>3. RestType'
    BY <1>7 DEF OpenFails, OutOfBudget, backendVars, RestType
  <2>4. QED
    BY <2>2, <2>3
<1>8. ASSUME NEW e \in Exchanges, Read(e)
      PROVE  CallType' /\ RestType'
  <2> DEFINE d == Head(queue[e])
  <2>1. queue[e] \in Seq(Responses \cup {Junk}) /\ queue[e] # <<>>
    BY <1>8 DEF Read, CallType
  <2>2. /\ d \in Responses \cup {Junk}
        /\ Tail(queue[e]) \in Seq(Responses \cup {Junk})
        /\ Len(Tail(queue[e])) <= QueueSize
    BY <2>1, Ticks DEF CallType
  <2>3. CASE Valid(e, d) /\ Sample(e, d) /\ Finish(e, OutcomeOf(d.verdict))
    <3>1. d.verdict \in Verdicts
      BY <2>2, <2>3, Marks DEF Valid, Responses
    <3>2. OutcomeOf(d.verdict) \in {"result", "safe_error", "error"}
      BY <3>1 DEF OutcomeOf, Verdicts
    <3>3. CallType'
      BY <2>3, <3>2, FinishType
    <3>4. RestType'
      BY <1>8, <2>3 DEF Read, Sample, backendVars, RestType
    <3>5. QED
      BY <3>3, <3>4
  <2>4. CASE /\ queue' = [queue EXCEPT ![e] = Tail(@)]
             /\ UNCHANGED <<pc, left, wait, tries, outcome, sharedVars>>
    <3>1. queue' \in [Exchanges -> Seq(Responses \cup {Junk})]
      BY <2>2, <2>4 DEF CallType
    <3>2. \A x \in Exchanges : Len(queue'[x]) <= QueueSize
      BY <2>2, <2>4 DEF CallType
    <3>3. QED
      BY <1>8, <2>4, <3>1, <3>2
         DEF Read, sharedVars, backendVars, CallType, RestType
  <2>5. QED
    BY <1>8, <2>3, <2>4 DEF Read
<1>9. ASSUME NEW e \in Exchanges, Expire(e)
      PROVE  CallType' /\ RestType'
  <2>1. rto' \in MinRto..MaxRto /\ BackedOff \in MinRto..MaxRto
    BY <1>9, BackedOffType DEF Expire, RestType
  <2>2. CASE /\ left[e] > 0 /\ Send(e, BackedOff)
             /\ UNCHANGED <<pc, left, queue, outcome, permits>>
    <3>1. /\ wait' \in [Exchanges -> 0..Budget] /\ tries' \in [Exchanges -> 0..Budget]
          /\ net' \subseteq Requests \cup Responses
      BY <1>9, <2>1, <2>2, SendType DEF Expire
    <3>2. QED
      BY <1>9, <2>1, <2>2, <3>1 DEF Expire, backendVars, CallType, RestType
  <2>3. CASE Finish(e, "error") /\ UNCHANGED net
    <3>1. CallType'
      BY <2>3, FinishType
    <3>2. QED
      BY <1>9, <2>1, <2>3, <3>1 DEF Expire, backendVars, RestType
  <2>4. QED
    BY <1>9, <2>2, <2>3 DEF Expire
<1>10. ASSUME NEW e \in Exchanges, NEW d \in Responses \cup {Junk}, Enqueue(e, d),
              net' \subseteq net,
              UNCHANGED <<pc, left, wait, tries, outcome, sharedVars, backendVars>>
       PROVE  CallType' /\ RestType'
  <2>1. queue[e] \in Seq(Responses \cup {Junk})
    BY DEF CallType
  <2>2. queue' \in [Exchanges -> Seq(Responses \cup {Junk})]
    BY <1>10, <2>1 DEF Enqueue, CallType
  <2>3. \A x \in Exchanges : Len(queue'[x]) <= QueueSize
    BY <1>10, <2>1, Ticks DEF Enqueue, CallType
  <2>4. QED
    BY <1>10, <2>2, <2>3 DEF sharedVars, backendVars, CallType, RestType
<1>11. ASSUME NEW e \in Exchanges, Disturb(e)
       PROVE  CallType' /\ RestType'
  BY <1>10, <1>11 DEF Disturb
<1>12. ASSUME NEW e \in Exchanges, NEW d \in net, Deliver(d, e)
       PROVE  CallType' /\ RestType'
  <2>1. d \in Responses
    BY <1>12, Marks DEF Deliver, RestType
  <2>2. net' \subseteq net
    BY <1>12 DEF Deliver
  <2>3. QED
    BY <1>10, <1>12, <2>1, <2>2 DEF Deliver
<1>13. ASSUME NEW d \in net, Lose(d)
       PROVE  CallType' /\ RestType'
  BY <1>13 DEF Lose, callVars, sharedVars, backendVars, CallType, RestType
<1>14. ASSUME NEW d \in net, NEW v \in Verdicts, Serve(d, v)
       PROVE  CallType' /\ RestType'
  <2>1. d \in Requests /\ d.of \in Exchanges /\ d.copy \in Nat
    BY <1>14, Marks DEF Serve, RestType, Requests, Responses
  <2>2. Response(d.of, d.copy, v) \in Responses
    BY <2>1 DEF Response, Responses
  <2>3. net' \subseteq Requests \cup Responses
    BY <1>14, <2>2 DEF Serve, RestType
  <2>4. ran' \subseteq Exchanges
    BY <1>14, <2>1 DEF Serve, RestType
  <2>5. QED
    BY <1>14, <2>1, <2>3, <2>4 DEF Serve, callVars, sharedVars, CallType, RestType
<1>15. QED
  BY <1>1, <1>2, <1>3, <1>4, <1>5, <1>6, <1>7, <1>8, <1>9, <1>11, <1>12, <1>13, <1>14
     DEF Next, ExchangeSteps, NetworkSteps

-----------------------------------------------------------------------------
(* Copies and ticks.                                                        *)

\* Timed, for one exchange.
TimedOne(e) ==
    /\ pc[e] = "waiting" =>
          /\ wait[e] <= left[e]
          /\ tries[e] > 0 /\ tries[e] + left[e] - wait[e] <= Budget
    /\ pc[e] \in {"idle", "queued", "opening"} => tries[e] = 0
    /\ pc[e] # "done" <=> outcome[e] = "pending"

LEMMA FinishTimed ==
    ASSUME TypeInv, Timed, NEW e \in Exchanges, NEW o, o # "pending", Finish(e, o)
    PROVE  Timed'
<1> SUFFICES ASSUME NEW x \in Exchanges PROVE TimedOne(x)'
  BY DEF Timed, TimedOne
<1>1. TimedOne(x)
  BY DEF Timed, TimedOne
<1>2. CASE x = e
  BY <1>2 DEF Finish, TimedOne, TypeInv
<1>3. CASE x # e
  BY <1>1, <1>3 DEF Finish, TimedOne, TypeInv
<1>4. QED
  BY <1>2, <1>3

LEMMA SendTimed ==
    ASSUME TypeInv, Timed, NEW e \in Exchanges, NEW timeout \in MinRto..MaxRto,
           Send(e, timeout), left[e] > 0,
           pc[e] = "opening" \/ (pc[e] = "waiting" /\ wait[e] = 0),
           pc' = [pc EXCEPT ![e] = "waiting"], UNCHANGED <<left, outcome>>
    PROVE  Timed'
<1> SUFFICES ASSUME NEW x \in Exchanges PROVE TimedOne(x)'
  BY DEF Timed, TimedOne
<1>1. TimedOne(x)
  BY DEF Timed, TimedOne
<1>2. CASE x = e
  <2>1. timeout \in Nat /\ timeout > 0
    BY Ticks
  <2>2. /\ left[e] \in Nat /\ left[e] <= Budget /\ tries[e] \in Nat
    BY Ticks DEF TypeInv
  <2>3. wait'[e] \in Nat /\ wait'[e] > 0 /\ wait'[e] <= left[e]
    BY <2>1, <2>2 DEF Send, TypeInv
  <2>4. tries'[e] = tries[e] + 1 /\ left'[e] = left[e]
    BY DEF Send, TypeInv
  <2>5. tries[e] + left[e] <= Budget
    BY <1>1, <1>2, <2>2, Ticks DEF TimedOne
  <2>6. pc'[e] = "waiting" /\ outcome'[e] = "pending"
    BY <1>1, <1>2 DEF TimedOne, TypeInv
  <2>7. QED
    BY <1>2, <2>2, <2>3, <2>4, <2>5, <2>6, Ticks DEF TimedOne
<1>3. CASE x # e
  BY <1>1, <1>3 DEF Send, TimedOne, TypeInv
<1>4. QED
  BY <1>2, <1>3

LEMMA StepTimed == TypeInv /\ Timed /\ [Next]_vars => Timed'
<1> SUFFICES ASSUME TypeInv, Timed, [Next]_vars PROVE Timed'
  OBVIOUS
<1>1. CASE UNCHANGED <<pc, left, wait, tries, outcome>>
  BY <1>1 DEF Timed
<1>2. CASE Tick
  <2> SUFFICES ASSUME NEW x \in Exchanges PROVE TimedOne(x)'
    BY DEF Timed, TimedOne
  <2>1. TimedOne(x)
    BY DEF Timed, TimedOne
  <2>2. left[x] \in 0..Budget /\ wait[x] \in 0..Budget /\ tries[x] \in 0..Budget
    BY DEF TypeInv
  <2>3. pc' = pc /\ tries' = tries /\ outcome' = outcome
    BY <1>2 DEF Tick
  <2>4. pc[x] = "waiting" => left'[x] = left[x] - 1 /\ wait'[x] = wait[x] - 1
    BY <1>2 DEF Tick, InCall
  <2>5. QED
    BY <2>1, <2>2, <2>3, <2>4, Ticks DEF TimedOne
<1>3. ASSUME NEW e \in Exchanges, NEW o \in {"safe_error", "error"}, Refuse(e, o)
      PROVE  Timed'
  <2> SUFFICES ASSUME NEW x \in Exchanges PROVE TimedOne(x)'
    BY DEF Timed, TimedOne
  <2>1. QED
    BY <1>3 DEF Refuse, Timed, TimedOne, TypeInv
<1>4. ASSUME NEW e \in Exchanges, Begin(e) \/ Acquire(e)
      PROVE  Timed'
  <2> SUFFICES ASSUME NEW x \in Exchanges PROVE TimedOne(x)'
    BY DEF Timed, TimedOne
  <2>1. QED
    BY <1>4 DEF Begin, Acquire, Timed, TimedOne, TypeInv
<1>5. ASSUME NEW e \in Exchanges, Open(e)
      PROVE  Timed'
  <2>1. rto \in MinRto..MaxRto
    BY DEF TypeInv
  <2>2. QED
    BY <1>5, <2>1, SendTimed DEF Open
<1>6. ASSUME NEW e \in Exchanges, OpenFails(e) \/ OutOfBudget(e)
      PROVE  Timed'
  <2>1. Finish(e, "error")
    BY <1>6 DEF OpenFails, OutOfBudget
  <2>2. QED
    BY <2>1, FinishTimed
<1>7. ASSUME NEW e \in Exchanges, Read(e)
      PROVE  Timed'
  <2>1. CASE \E v \in Verdicts : Finish(e, OutcomeOf(v))
    <3>1. PICK v \in Verdicts : Finish(e, OutcomeOf(v))
      BY <2>1
    <3>2. OutcomeOf(v) # "pending"
      BY DEF OutcomeOf, Verdicts
    <3>3. QED
      BY <3>1, <3>2, FinishTimed
  <2>2. CASE UNCHANGED <<pc, left, wait, tries, outcome>>
    BY <1>1, <2>2
  <2>3. queue[e] # <<>> => Head(queue[e]) \in Responses \cup {Junk}
    BY DEF TypeInv
  <2>4. QED
    BY <1>7, <2>1, <2>2, <2>3, Marks DEF Read, Valid, Responses
<1>8. ASSUME NEW e \in Exchanges, Expire(e)
      PROVE  Timed'
  <2>1. BackedOff \in MinRto..MaxRto
    BY BackedOffType DEF TypeInv
  <2>2. CASE /\ left[e] > 0 /\ Send(e, BackedOff)
             /\ UNCHANGED <<pc, left, queue, outcome, permits>>
    <3>1. pc' = [pc EXCEPT ![e] = "waiting"]
      BY <1>8, <2>2 DEF Expire, TypeInv
    <3>2. QED
      BY <1>8, <2>1, <2>2, <3>1, SendTimed DEF Expire
  <2>3. CASE Finish(e, "error")
    BY <2>3, FinishTimed
  <2>4. QED
    BY <1>8, <2>2, <2>3 DEF Expire
<1>9. QED
  BY <1>1, <1>2, <1>3, <1>4, <1>5, <1>6, <1>7, <1>8
     DEF Next, ExchangeSteps, NetworkSteps, Disturb, Deliver, Lose, Serve, vars, callVars

-----------------------------------------------------------------------------
(* Answers stay true.                                                       *)

\* What has been sent, run or decided stays so.
LEMMA Grows ==
    ASSUME TypeInv, [Next]_vars
    PROVE  /\ \A e \in Exchanges : tries[e] <= tries'[e]
           /\ ran \subseteq ran'
           /\ rejected \subseteq rejected'
<1>1. TypeInv => \A e \in Exchanges : tries[e] \in Nat
  BY DEF TypeInv
<1>2. CASE UNCHANGED <<tries, backendVars>>
  BY <1>1, <1>2 DEF backendVars
<1>3. ASSUME NEW e \in Exchanges, NEW timeout, Send(e, timeout), UNCHANGED backendVars
      PROVE  /\ \A x \in Exchanges : tries[x] <= tries'[x]
             /\ ran \subseteq ran' /\ rejected \subseteq rejected'
  BY <1>1, <1>3 DEF Send, backendVars, TypeInv
<1>4. ASSUME NEW d \in net, NEW v \in Verdicts, Serve(d, v)
      PROVE  tries' = tries /\ ran \subseteq ran' /\ rejected \subseteq rejected'
  BY <1>4 DEF Serve, callVars
<1>5. ASSUME NEW e \in Exchanges, Open(e) \/ Expire(e)
      PROVE  \/ UNCHANGED <<tries, backendVars>>
             \/ (\E timeout : Send(e, timeout)) /\ UNCHANGED backendVars
  BY <1>5 DEF Open, Expire, Finish
<1>6. ASSUME NEW e \in Exchanges, ExchangeSteps(e), ~Open(e), ~Expire(e)
      PROVE  UNCHANGED <<tries, backendVars>>
  BY <1>6 DEF ExchangeSteps, Refuse, Begin, Acquire, OpenFails, OutOfBudget, Read, Finish
<1>7. QED
  BY <1>1, <1>2, <1>3, <1>4, <1>5, <1>6
     DEF Next, ExchangeSteps, NetworkSteps, Tick, Disturb, Deliver, Lose, vars, callVars

LEMMA VouchedStable ==
    ASSUME TypeInv, Timed, [Next]_vars, NEW d, Vouched(d, tries, ran, rejected)
    PROVE  Vouched(d, tries', ran', rejected')
<1> SUFFICES ASSUME d \in Responses
             PROVE  /\ d.copy \in 1..tries'[d.of]
                    /\ d.verdict = "result" => d.of \in ran'
                    /\ d.verdict = "rejection" => d.of \in rejected'
  BY DEF Vouched
<1>1. d.of \in Exchanges /\ d.verdict \in Verdicts /\ d.copy \in Nat
  BY DEF Responses
<1>2. tries[d.of] \in Nat /\ tries'[d.of] \in Nat
  <2>1. tries[d.of] \in Nat
    BY <1>1 DEF TypeInv
  <2>2. TypeInv'
    BY StepType
  <2>3. tries'[d.of] \in Nat
    BY <1>1, <2>2, Ticks DEF TypeInv
  <2>4. QED
    BY <2>1, <2>3
<1>3. d.copy \in 1..tries'[d.of]
  BY <1>1, <1>2, Grows DEF Vouched
<1>4. QED
  BY <1>1, <1>3, Grows DEF Vouched

\* What a step adds to the network.
LEMMA NetAdditions ==
    ASSUME TypeInv, Timed, [Next]_vars, NEW d \in net', d \notin net
    PROVE  \/ \E e \in Exchanges : d = Request(e, tries[e] + 1) /\ tries'[e] = tries[e] + 1
           \/ \E r \in net, v \in Verdicts :
                 Serve(r, v) /\ r \in Requests /\ d = Response(r.of, r.copy, v)
<1>1. ASSUME NEW e \in Exchanges, NEW timeout, Send(e, timeout)
      PROVE  d = Request(e, tries[e] + 1) /\ tries'[e] = tries[e] + 1
  BY <1>1 DEF Send, TypeInv
<1>2. ASSUME NEW r \in net, NEW v \in Verdicts, Serve(r, v)
      PROVE  r \in Requests /\ d = Response(r.of, r.copy, v)
  BY <1>2, Marks DEF Serve, TypeInv
<1>3. ASSUME NEW e \in Exchanges, ExchangeSteps(e)
      PROVE  \E timeout : Send(e, timeout)
  BY <1>3 DEF ExchangeSteps, Refuse, Begin, Acquire, Open, OpenFails, OutOfBudget,
              Read, Expire
<1>4. QED
  BY <1>1, <1>2, <1>3
     DEF Next, NetworkSteps, Tick, Disturb, Deliver, Lose, vars

\* What a step leaves in the queues.
LEMMA QueueAdditions ==
    ASSUME TypeInv, [Next]_vars, NEW e \in Exchanges, NEW i \in 1..Len(queue'[e])
    PROVE  \/ \E j \in 1..Len(queue[e]) : queue'[e][i] = queue[e][j]
           \/ queue'[e][i] \in net \cup {Junk}
<1>1. queue[e] \in Seq(Responses \cup {Junk})
  BY DEF TypeInv
<1>2. CASE queue'[e] = queue[e]
  BY <1>2
<1>3. CASE queue'[e] = <<>>
  BY <1>3
<1>4. CASE queue[e] # <<>> /\ queue'[e] = Tail(queue[e])
  <2>1. i + 1 \in 1..Len(queue[e]) /\ queue'[e][i] = queue[e][i + 1]
    BY <1>1, <1>4
  <2>2. QED
    BY <2>1
<1>5. CASE \E d \in net \cup {Junk} : queue'[e] = Append(queue[e], d)
  <2>1. PICK d \in net \cup {Junk} : queue'[e] = Append(queue[e], d)
    BY <1>5
  <2>2. CASE i = Len(queue[e]) + 1
    BY <1>1, <2>1, <2>2
  <2>3. CASE i \in 1..Len(queue[e])
    BY <1>1, <2>1, <2>3
  <2>4. QED
    BY <1>1, <2>1, <2>2, <2>3
<1>6. ASSUME NEW x \in Exchanges, ExchangeSteps(x)
      PROVE  \/ queue'[e] = queue[e]
             \/ queue'[e] = <<>>
             \/ queue[e] # <<>> /\ queue'[e] = Tail(queue[e])
  BY <1>6 DEF ExchangeSteps, Refuse, Begin, Acquire, Open, OpenFails, OutOfBudget,
              Read, Expire, Finish, TypeInv
<1>7. ASSUME NEW x \in Exchanges, NEW d \in net \cup {Junk}, Enqueue(x, d)
      PROVE  queue'[e] = queue[e] \/ queue'[e] = Append(queue[e], d)
  BY <1>7 DEF Enqueue, TypeInv
<1>8. QED
  BY <1>2, <1>3, <1>4, <1>5, <1>6, <1>7
     DEF Next, NetworkSteps, Tick, Disturb, Deliver, Lose, Serve, vars, callVars

LEMMA StepTrusted == TypeInv /\ Timed /\ Trusted /\ [Next]_vars => Trusted'
<1> SUFFICES ASSUME TypeInv, Timed, Trusted, [Next]_vars PROVE Trusted'
  OBVIOUS
<1>1. ASSUME NEW d \in net
      PROVE  d.copy \in 1..tries'[d.of] /\ Vouched(d, tries', ran', rejected')
  <2>1. d.of \in Exchanges /\ d.copy \in Nat /\ d.copy \in 1..tries[d.of]
    BY DEF TypeInv, Trusted, Requests, Responses
  <2>2. tries[d.of] \in Nat /\ tries'[d.of] \in Nat
    BY <2>1, StepType DEF TypeInv
  <2>3. d.copy \in 1..tries'[d.of]
    BY <2>1, <2>2, Grows
  <2>4. Vouched(d, tries, ran, rejected)
    BY DEF Trusted
  <2>5. QED
    BY <2>3, <2>4, VouchedStable
<1>2. ASSUME NEW e \in Exchanges, tries'[e] = tries[e] + 1
      PROVE  LET d == Request(e, tries[e] + 1)
             IN  d.copy \in 1..tries'[d.of] /\ Vouched(d, tries', ran', rejected')
  <2> DEFINE d == Request(e, tries[e] + 1)
  <2>1. d.of = e /\ d.copy = tries[e] + 1 /\ d.type = "request"
    BY DEF Request
  <2>2. tries[e] \in Nat
    BY DEF TypeInv
  <2>3. d \notin Responses
    BY <2>1, Marks
  <2>4. QED
    BY <1>2, <2>1, <2>2, <2>3 DEF Vouched
<1>3. ASSUME NEW r \in net, NEW v \in Verdicts, Serve(r, v), r \in Requests
      PROVE  LET d == Response(r.of, r.copy, v)
             IN  d.copy \in 1..tries'[d.of] /\ Vouched(d, tries', ran', rejected')
  <2> DEFINE d == Response(r.of, r.copy, v)
  <2>1. d.of = r.of /\ d.copy = r.copy /\ d.verdict = v /\ r.of \in Exchanges
    BY <1>3 DEF Response, Requests
  <2>2. d.copy \in 1..tries'[d.of]
    BY <2>1, <1>1
  <2>3. /\ v = "result" => r.of \in ran'
        /\ v = "rejection" => r.of \in rejected'
    BY <1>3 DEF Serve
  <2>4. QED
    BY <2>1, <2>2, <2>3 DEF Vouched
<1>4. ASSUME NEW d \in net'
      PROVE  d.copy \in 1..tries'[d.of] /\ Vouched(d, tries', ran', rejected')
  BY <1>1, <1>2, <1>3, NetAdditions
<1>5. ASSUME NEW e \in Exchanges, NEW i \in 1..Len(queue'[e])
      PROVE  Vouched(queue'[e][i], tries', ran', rejected')
  <2>1. ASSUME NEW j \in 1..Len(queue[e])
        PROVE  Vouched(queue[e][j], tries', ran', rejected')
    <3>1. Vouched(queue[e][j], tries, ran, rejected)
      BY DEF Trusted
    <3>2. QED
      BY <3>1, VouchedStable
  <2>2. ASSUME NEW d \in net \cup {Junk}
        PROVE  Vouched(d, tries', ran', rejected')
    BY <1>1, Marks DEF Vouched
  <2>3. QED
    BY <2>1, <2>2, QueueAdditions
<1>6. QED
  BY <1>4, <1>5 DEF Trusted

-----------------------------------------------------------------------------
(* Who was told something was told the truth.                               *)

\* The answer that ends an exchange.
LEMMA AnswerRead ==
    ASSUME TypeInv, Trusted, NEW e \in Exchanges, Read(e)
    PROVE  \/ /\ queue' = [queue EXCEPT ![e] = Tail(@)]
              /\ UNCHANGED <<pc, left, wait, tries, outcome, sharedVars, net, backendVars>>
           \/ \E d \in Responses :
                 /\ d.of = e
                 /\ d.copy \in 1..tries[e]
                 /\ d.verdict = "result" => e \in ran
                 /\ d.verdict = "rejection" => e \in rejected
                 /\ Sample(e, d)
                 /\ Finish(e, OutcomeOf(d.verdict))
                 /\ UNCHANGED <<net, backendVars>>
<1> DEFINE d == Head(queue[e])
<1>1. queue[e] \in Seq(Responses \cup {Junk}) /\ queue[e] # <<>>
  BY DEF Read, TypeInv
<1>2. d \in Responses \cup {Junk} /\ 1 \in 1..Len(queue[e]) /\ d = queue[e][1]
  BY <1>1
<1>3. Vouched(d, tries, ran, rejected)
  BY <1>2 DEF Trusted
<1>4. CASE Valid(e, d) /\ Sample(e, d) /\ Finish(e, OutcomeOf(d.verdict))
  <2>1. d \in Responses /\ d.of = e
    BY <1>2, <1>4, Marks DEF Valid
  <2>2. QED
    BY <1>3, <1>4, <2>1 DEF Vouched, Read
<1>5. CASE /\ queue' = [queue EXCEPT ![e] = Tail(@)]
           /\ UNCHANGED <<pc, left, wait, tries, outcome, sharedVars>>
  BY <1>5 DEF Read
<1>6. QED
  BY <1>4, <1>5 DEF Read

\* Final, for one exchange.
FinalOne(e) ==
    /\ e \in ran => tries[e] > 0
    /\ outcome[e] = "result" => e \in ran
    /\ outcome[e] = "safe_error" => tries[e] = 0 \/ e \in rejected

LEMMA StepFinal == TypeInv /\ Timed /\ Trusted /\ Final /\ [Next]_vars => Final'
<1> SUFFICES ASSUME TypeInv, Timed, Trusted, Final, [Next]_vars,
                    NEW x \in Exchanges
             PROVE  FinalOne(x)'
  BY StepType DEF Final, FinalOne, TypeInv
<1>1. FinalOne(x) /\ tries[x] \in Nat
  BY DEF Final, FinalOne, TypeInv
<1>2. CASE UNCHANGED <<tries, outcome, backendVars>>
  BY <1>1, <1>2 DEF FinalOne, backendVars
<1>3. ASSUME NEW e \in Exchanges, NEW o \in {"safe_error", "error"}, Refuse(e, o)
      PROVE  FinalOne(x)'
  <2>1. tries[e] = 0
    BY <1>3 DEF Refuse, Timed
  <2>2. QED
    BY <1>1, <1>3, <2>1 DEF Refuse, backendVars, FinalOne, TypeInv
<1>4. ASSUME NEW e \in Exchanges, Finish(e, "error"), UNCHANGED backendVars
      PROVE  FinalOne(x)'
  BY <1>1, <1>4 DEF Finish, backendVars, FinalOne, TypeInv
<1>5. ASSUME NEW e \in Exchanges, NEW timeout, Send(e, timeout),
             pc[e] \in {"opening", "waiting"}, UNCHANGED <<outcome, backendVars>>
      PROVE  FinalOne(x)'
  <2>1. outcome[e] = "pending"
    BY <1>5 DEF Timed
  <2>2. QED
    BY <1>1, <1>5, <2>1 DEF Send, backendVars, FinalOne, TypeInv
<1>6. ASSUME NEW e \in Exchanges, Read(e)
      PROVE  FinalOne(x)'
  <2>1. ASSUME NEW d \in Responses,
               d.verdict = "result" => e \in ran,
               d.verdict = "rejection" => e \in rejected,
               Finish(e, OutcomeOf(d.verdict)), UNCHANGED backendVars
        PROVE  FinalOne(x)'
    <3>1. /\ OutcomeOf(d.verdict) = "result" => d.verdict = "result"
          /\ OutcomeOf(d.verdict) = "safe_error" => d.verdict = "rejection"
      BY DEF OutcomeOf, Responses, Verdicts
    <3>2. QED
      BY <1>1, <2>1, <3>1 DEF Finish, backendVars, FinalOne, TypeInv
  <2>2. QED
    BY <1>2, <1>6, <2>1, AnswerRead
<1>7. ASSUME NEW d \in net, NEW v \in Verdicts, Serve(d, v)
      PROVE  FinalOne(x)'
  <2>1. d.of \in Exchanges /\ tries[d.of] > 0
    BY DEF Trusted, TypeInv, Requests, Responses
  <2>2. /\ tries' = tries /\ outcome' = outcome
        /\ ran \subseteq ran' /\ ran' \subseteq ran \cup {d.of}
        /\ rejected \subseteq rejected'
    BY <1>7 DEF Serve, callVars
  <2>3. QED
    BY <1>1, <2>1, <2>2 DEF FinalOne
<1>8. QED
  BY <1>2, <1>3, <1>4, <1>5, <1>6, <1>7
     DEF Next, ExchangeSteps, NetworkSteps, Tick, Begin, Acquire, Open, OpenFails,
         OutOfBudget, Expire, Disturb, Deliver, Lose, vars, callVars

-----------------------------------------------------------------------------
(* Permits and samples.                                                     *)

LEMMA FinishPermits ==
    ASSUME TypeInv, PermitsExact, NEW e \in Exchanges, NEW o, Finish(e, o)
    PROVE  PermitsExact'
<1>1. permits \in Nat /\ permits + Cardinality(Holders) = MaxInFlight
  BY DEF PermitsExact, Holders, TypeInv
<1>2. CASE Holding(e)
  <2>1. Holders' = Holders \ {e}
    BY DEF Finish, Holders, Holding, TypeInv
  <2>2. Cardinality(Holders') = Cardinality(Holders) - 1
    BY <1>2, <2>1, OneFewerHolder
  <2>3. permits' = permits + 1
    BY <1>2 DEF Finish
  <2>4. QED
    BY <1>1, <2>2, <2>3, HoldersFinite DEF PermitsExact, Holders
<1>3. CASE ~Holding(e)
  <2>1. Holders' = Holders /\ permits' = permits
    BY <1>3 DEF Finish, Holders, Holding, TypeInv
  <2>2. QED
    BY <1>1, <2>1 DEF PermitsExact, Holders
<1>4. QED
  BY <1>2, <1>3

LEMMA StepPermits ==
    TypeInv /\ Trusted /\ PermitsExact /\ [Next]_vars => PermitsExact'
<1> SUFFICES ASSUME TypeInv, Trusted, PermitsExact, [Next]_vars PROVE PermitsExact'
  OBVIOUS
<1>1. permits \in Nat /\ permits + Cardinality(Holders) = MaxInFlight
  BY DEF PermitsExact, Holders, TypeInv
<1>2. CASE Holders' = Holders /\ permits' = permits
  BY <1>1, <1>2 DEF PermitsExact, Holders
<1>3. CASE UNCHANGED <<pc, permits>>
  BY <1>2, <1>3 DEF Holders, Holding
<1>4. ASSUME NEW e \in Exchanges,
             \/ \E o \in {"safe_error", "error"} : Refuse(e, o)
             \/ Begin(e) \/ Open(e)
      PROVE  PermitsExact'
  <2>1. Holders' = Holders
    BY <1>4 DEF Refuse, Begin, Open, Holders, Holding, TypeInv
  <2>2. QED
    BY <1>2, <1>4, <2>1 DEF Refuse, Begin, Open, sharedVars
<1>5. ASSUME NEW e \in Exchanges, Acquire(e)
      PROVE  PermitsExact'
  <2>1. Holders' = Holders \cup {e} /\ ~Holding(e)
    BY <1>5 DEF Acquire, Holders, Holding, TypeInv
  <2>2. Cardinality(Holders') = Cardinality(Holders) + 1
    BY <2>1, OneMoreHolder
  <2>3. permits' = permits - 1
    BY <1>5 DEF Acquire
  <2>4. QED
    BY <1>1, <2>2, <2>3, HoldersFinite DEF PermitsExact, Holders
<1>6. ASSUME NEW e \in Exchanges, OpenFails(e) \/ OutOfBudget(e)
      PROVE  PermitsExact'
  BY <1>6, FinishPermits DEF OpenFails, OutOfBudget
<1>7. ASSUME NEW e \in Exchanges, Read(e)
      PROVE  PermitsExact'
  BY <1>3, <1>7, AnswerRead, FinishPermits DEF sharedVars
<1>8. ASSUME NEW e \in Exchanges, Expire(e)
      PROVE  PermitsExact'
  BY <1>3, <1>8, FinishPermits DEF Expire
<1>9. QED
  BY <1>3, <1>4, <1>5, <1>6, <1>7, <1>8
     DEF Next, ExchangeSteps, NetworkSteps, Tick, Disturb, Deliver, Lose, Serve,
         vars, callVars, sharedVars

LEMMA StepSamples ==
    TypeInv /\ Trusted /\ SamplesUnambiguous /\ [Next]_vars => SamplesUnambiguous'
<1> SUFFICES ASSUME TypeInv, Trusted, SamplesUnambiguous, [Next]_vars
             PROVE  SamplesUnambiguous'
  OBVIOUS
<1>1. CASE UNCHANGED misled
  BY <1>1 DEF SamplesUnambiguous
<1>2. ASSUME NEW e \in Exchanges, Read(e)
      PROVE  SamplesUnambiguous'
  <2>1. ASSUME NEW d \in Responses, d.copy \in 1..tries[e], Sample(e, d)
        PROVE  SamplesUnambiguous'
    <3>1. tries[e] = 1 => d.copy = tries[e]
      BY <2>1
    <3>2. QED
      BY <2>1, <3>1, Zenon DEF Sample, SamplesUnambiguous
  <2>2. QED
    BY <1>1, <1>2, <2>1, AnswerRead DEF sharedVars
<1>3. QED
  BY <1>1, <1>2
     DEF Next, ExchangeSteps, NetworkSteps, Tick, Refuse, Begin, Acquire, Open, OpenFails,
         OutOfBudget, Expire, Disturb, Deliver, Lose, Serve, vars, sharedVars

-----------------------------------------------------------------------------
(* The invariant.                                                           *)

LEMMA InitInv == Init => ExchangeInv
<1> SUFFICES ASSUME Init PROVE ExchangeInv
  OBVIOUS
<1>1. TypeInv
  <2>1. <<>> \in Seq(Responses \cup {Junk}) /\ Len(<<>>) = 0
    OBVIOUS
  <2>2. queue \in [Exchanges -> Seq(Responses \cup {Junk})]
    BY <2>1 DEF Init
  <2>3. \A e \in Exchanges : Len(queue[e]) <= QueueSize
    BY <2>1, Ticks DEF Init
  <2>4. /\ left \in [Exchanges -> 0..Budget]
        /\ wait \in [Exchanges -> 0..Budget]
        /\ tries \in [Exchanges -> 0..Budget]
    BY Ticks DEF Init
  <2>5. QED
    BY <2>2, <2>3, <2>4, Ticks DEF Init, TypeInv
<1>2. Timed
  BY DEF Init, Timed
<1>3. Trusted
  BY DEF Init, Trusted
<1>4. Final
  BY DEF Init, Final
<1>5. PermitsExact
  <2>1. {e \in Exchanges : Holding(e)} = {}
    BY DEF Init, Holding
  <2>2. Cardinality({e \in Exchanges : Holding(e)}) = 0
    BY <2>1, FS_EmptySet
  <2>3. QED
    BY <2>2, Ticks DEF Init, PermitsExact
<1>6. QED
  BY <1>1, <1>2, <1>3, <1>4, <1>5 DEF Init, ExchangeInv, SamplesUnambiguous

\* Every answer is one that the backend gave and every permit has its holder,
\* in every reachable state.
THEOREM Invariance == Spec => []ExchangeInv
<1>1. ExchangeInv /\ [Next]_vars => ExchangeInv'
  BY StepType, StepTimed, StepTrusted, StepFinal, StepPermits, StepSamples
     DEF ExchangeInv
<1>2. QED
  BY <1>1, InitInv, PTL DEF Spec

\* The variables keep their types: no exchange sends more copies than it has
\* ticks, and no queue grows beyond its size (udp_reliable.py:46-50, 98-137).
THEOREM TypeCorrect == Spec => []TypeOK
<1>1. ExchangeInv => TypeOK
  <2> SUFFICES ASSUME ExchangeInv PROVE TypeOK
    OBVIOUS
  <2>1. Cardinality(Holders) \in Nat
    BY HoldersFinite
  <2>2. permits \in 0..MaxInFlight
    BY <2>1, Ticks DEF ExchangeInv, TypeInv, PermitsExact, Holders
  <2>3. \A d \in net : d.of \in Exchanges /\ d.copy \in 1..tries[d.of]
    BY DEF ExchangeInv, TypeInv, Trusted, Requests, Responses
  <2>4. QED
    BY <2>2, <2>3 DEF ExchangeInv, TypeInv, TypeOK
<1>2. QED
  BY <1>1, Invariance, PTL

\* Whatever way an exchange ends, it gives its permit back, once
\* (udp_reliable.py:83-96, 137-140).
THEOREM PermitsNeverLeak == Spec => []PermitsExact
<1>1. ExchangeInv => PermitsExact
  BY DEF ExchangeInv
<1>2. QED
  BY <1>1, Invariance, PTL

\* Karn's rule (udp_reliable.py:120-123).
THEOREM SamplesAreTrue == Spec => []SamplesUnambiguous
<1>1. ExchangeInv => SamplesUnambiguous
  BY DEF ExchangeInv
<1>2. QED
  BY <1>1, Invariance, PTL

\* An exchange only goes by answers to its own request, whatever the network
\* loses, repeats, delays or misdirects and whatever the backend does with each
\* copy: an error called safe is one of a request that was never sent, or of
\* which the backend rejected a copy (service_c.py:115-173).
THEOREM AnswersAreTrue == Spec => []AnswersAreOwn
<1>1. ExchangeInv => AnswersAreOwn
  BY DEF ExchangeInv, TypeInv, Final, AnswersAreOwn
<1>2. QED
  BY <1>1, Invariance, PTL
=============================================================================
