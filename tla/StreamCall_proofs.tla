------------------------- MODULE StreamCall_proofs -------------------------
(***************************************************************************)
(* The calls of adapters A and B keep the contract of BaseAdapter and their *)
(* caller's deadline, for any number of calls and any budget.              *)
(***************************************************************************)
EXTENDS StreamCall, TLAPS

\* Where a call is says what has become of its request: nothing has left
\* before there is a connection, and a call that ended without one never gets
\* one.  What its answer says settles whether the backend has run it.
CallInv(c) ==
    /\ pc[c] \in {"idle", "connecting"} => link[c] = "none" /\ outcome[c] = Pending
    /\ pc[c] = "reading" => link[c] # "none" /\ dispatched[c] /\ outcome[c] = Pending
    /\ pc[c] = "closing" => link[c] # "none" /\ outcome[c].kind # "pending"
    /\ pc[c] = "done" => outcome[c].kind # "pending"
    /\ link[c] = "none" => c \notin ran /\ answer[c] = "none"
    /\ answer[c] = "rejection" => c \notin ran
    /\ answer[c] = "result" => c \in ran
    /\ outcome[c].kind = "result" => c \in ran
    /\ outcome[c].kind = "result" => ~outcome[c].safe
    /\ outcome[c].safe => link[c] = "none" \/ answer[c] = "rejection"

StreamInv == TypeOK /\ \A c \in Calls : CallInv(c)

-----------------------------------------------------------------------------
(* Outcomes.                                                                *)

\* The errors are outcomes, and say of themselves what they were made from.
LEMMA Outcomes ==
    /\ Pending \in Outcome /\ Result \in Outcome
    /\ \A code \in Codes, r \in BOOLEAN, s \in BOOLEAN :
          /\ Error(code, r, s) \in Outcome
          /\ Error(code, r, s).kind = "error"
          /\ Error(code, r, s).safe = s
    /\ Pending.kind = "pending" /\ ~Pending.safe
    /\ Result.kind = "result" /\ ~Result.safe
<1>1. Pending \in Outcome /\ Result \in Outcome
  BY DEF Outcome
<1>2. ASSUME NEW code \in Codes, NEW r \in BOOLEAN, NEW s \in BOOLEAN
      PROVE  /\ Error(code, r, s) \in Outcome
             /\ Error(code, r, s).kind = "error"
             /\ Error(code, r, s).safe = s
  BY <1>2 DEF Outcome, Error
<1>3. Pending.kind = "pending" /\ ~Pending.safe
  BY DEF Pending
<1>4. Result.kind = "result" /\ ~Result.safe
  BY DEF Result
<1>5. QED
  BY <1>1, <1>2, <1>3, <1>4

\* An outcome that can be settled for a call that is in state to settle it.
Fitting(c, o) ==
    /\ o \in Outcome
    /\ o.kind # "pending"
    /\ o.kind = "result" => c \in ran /\ ~o.safe
    /\ o.safe => link[c] = "none" \/ answer[c] = "rejection"

\* Every error the adapters raise fits.
LEMMA RefusalsFit ==
    ASSUME StreamInv, NEW c \in Calls, pc[c] = "idle", NEW o \in Refusals(c)
    PROVE  Fitting(c, o)
  BY Outcomes DEF StreamInv, CallInv, Refusals, Fitting, Codes

LEMMA ConnectErrorFits ==
    ASSUME StreamInv, NEW c \in Calls, pc[c] = "connecting"
    PROVE  Fitting(c, Error("BACKEND_UNAVAILABLE", TRUE,
                            IF c \in HttpCalls THEN TRUE ELSE ~dispatched[c]))
<1>1. (IF c \in HttpCalls THEN TRUE ELSE ~dispatched[c]) \in BOOLEAN
  BY DEF StreamInv, TypeOK
<1>2. QED
  BY <1>1, Outcomes DEF StreamInv, CallInv, Fitting, Codes

\* An error that is safe unless the request was dispatched.
LEMMA DispatchedErrorFits ==
    ASSUME StreamInv, NEW c \in Calls, pc[c] \in {"connecting", "reading"},
           NEW code \in Codes
    PROVE  Fitting(c, Error(code, TRUE, ~dispatched[c]))
<1>1. (~dispatched[c]) \in BOOLEAN
  BY DEF StreamInv, TypeOK
<1>2. QED
  BY <1>1, Outcomes DEF StreamInv, CallInv, Fitting

LEMMA AnswersFit ==
    ASSUME StreamInv, NEW c \in Calls, answer[c] # "none", NEW retryable \in BOOLEAN
    PROVE  Fitting(c, OutcomeOf(answer[c], retryable))
<1>1. answer[c] \in Answers
  BY DEF StreamInv, TypeOK
<1>2. QED
  BY <1>1, Outcomes DEF StreamInv, CallInv, Fitting, OutcomeOf, Answers, Codes

LEMMA RouterTimeoutFits ==
    ASSUME NEW c \in Calls
    PROVE  Fitting(c, RouterTimeout)
  BY Outcomes DEF Fitting, RouterTimeout, Codes

-----------------------------------------------------------------------------
(* Type correctness.                                                        *)

\* Leaving the connection, or ending, keeps the types.
LEMMA EndTypes ==
    ASSUME TypeOK, NEW c \in Calls, NEW o \in Outcome, Over(c, o) \/ Leave(c, o)
    PROVE  /\ pc' \in [Calls -> {"idle", "connecting", "reading", "closing", "done"}]
           /\ outcome' \in [Calls -> Outcome]
  BY DEF TypeOK, Over, Leave


\* Every step keeps the types.
LEMMA TypeStep == TypeOK /\ StreamInv /\ [Next]_vars => TypeOK'
<1> SUFFICES ASSUME StreamInv, [Next]_vars
             PROVE  TypeOK'
  OBVIOUS
<1> TypeOK
  BY DEF StreamInv
<1>1. CASE UNCHANGED vars
  BY <1>1 DEF TypeOK, vars, adapterVars, wireVars
<1>2. CASE Tick
  BY <1>2, BudgetAssumption DEF TypeOK, Tick, wireVars
<1>3. ASSUME NEW c \in Calls, NEW o \in Refusals(c), Refuse(c, o)
      PROVE  TypeOK'
  <2>1. o \in Outcome
    BY <1>3, RefusalsFit DEF Refuse, Fitting
  <2>2. QED
    BY <1>3, <2>1, EndTypes DEF TypeOK, Refuse, wireVars
<1>4. ASSUME NEW c \in Calls, Connect(c) \/ Connected(c)
      PROVE  TypeOK'
  <2>1. (c \in HttpCalls) \in BOOLEAN
    OBVIOUS
  <2>2. ASSUME NEW s \in BOOLEAN, dispatched' = [dispatched EXCEPT ![c] = s]
        PROVE  dispatched' \in [Calls -> BOOLEAN]
    BY <2>2 DEF TypeOK
  <2>3. dispatched' \in [Calls -> BOOLEAN]
    BY <1>4, <2>1, <2>2 DEF Connect, Connected
  <2>4. QED
    BY <1>4, <2>3 DEF TypeOK, Connect, Connected, wireVars
<1>5. ASSUME NEW c \in Calls, ConnectFails(c)
      PROVE  TypeOK'
  BY <1>5, ConnectErrorFits, EndTypes DEF TypeOK, ConnectFails, wireVars, Fitting
<1>6. ASSUME NEW c \in Calls, NEW retryable \in BOOLEAN, Reads(c, retryable)
      PROVE  TypeOK'
  BY <1>6, AnswersFit, EndTypes DEF TypeOK, Reads, wireVars, Fitting
<1>7. ASSUME NEW c \in Calls, Breaks(c)
      PROVE  TypeOK'
  <2>1. link' \in [Calls -> {"none", "buffered", "arrived", "cut"}]
    BY <1>7 DEF TypeOK, Breaks
  <2>2. PICK code \in {"CONNECTION_RESET", "BACKEND_UNAVAILABLE"} :
              Leave(c, Error(code, TRUE, ~dispatched[c]))
    BY <1>7 DEF Breaks
  <2>3. Error(code, TRUE, ~dispatched[c]) \in Outcome
    BY <1>7, <2>2, DispatchedErrorFits DEF Breaks, Fitting, Codes
  <2>4. QED
    BY <1>7, <2>1, <2>2, <2>3, EndTypes DEF TypeOK, Breaks
<1>8. ASSUME NEW c \in Calls, TimesOut(c)
      PROVE  TypeOK'
  <2>1. Error("BACKEND_TIMEOUT", TRUE, ~dispatched[c]) \in Outcome
    BY <1>8, DispatchedErrorFits DEF TimesOut, Fitting, Codes
  <2>2. QED
    BY <1>8, <2>1, EndTypes DEF TypeOK, TimesOut, wireVars
<1>9. ASSUME NEW c \in Calls, Closes(c)
      PROVE  TypeOK'
  BY <1>9 DEF TypeOK, Closes, wireVars
<1>10. ASSUME NEW c \in Calls, Cancels(c)
       PROVE  TypeOK'
  <2>1. RouterTimeout \in Outcome
    BY RouterTimeoutFits DEF Fitting
  <2>2. QED
    BY <1>10, <2>1, EndTypes DEF TypeOK, Cancels, wireVars
<1>11. ASSUME NEW c \in Calls, BackendSteps(c)
       PROVE  TypeOK'
  BY <1>11 DEF TypeOK, BackendSteps, Arrives, Runs, Answer, adapterVars
<1>12. QED
  BY <1>1, <1>2, <1>3, <1>4, <1>5, <1>6, <1>7, <1>8, <1>9, <1>10, <1>11
     DEF Next, AdapterSteps

-----------------------------------------------------------------------------
(* What a step does to one call.                                            *)

\* The other calls are as they were.
Apart(c) ==
    \A d \in Calls \ {c} :
        /\ pc'[d] = pc[d]
        /\ outcome'[d] = outcome[d]
        /\ dispatched'[d] = dispatched[d]
        /\ link'[d] = link[d]
        /\ answer'[d] = answer[d]
        /\ (d \in ran') = (d \in ran)

Same(c) ==
    /\ pc'[c] = pc[c] /\ outcome'[c] = outcome[c] /\ dispatched'[c] = dispatched[c]
    /\ link'[c] = link[c] /\ answer'[c] = answer[c] /\ ran' = ran

\* The kinds of steps a call can make: it is sent, it is settled, it is over,
\* and what happens to its request meanwhile.
Prepares(c) ==
    /\ pc[c] = "idle" /\ pc'[c] = "connecting"
    /\ outcome'[c] = outcome[c]
    /\ link'[c] = link[c] /\ answer'[c] = answer[c] /\ ran' = ran

Sends(c) ==
    /\ pc[c] = "connecting" /\ pc'[c] = "reading"
    /\ dispatched'[c]
    /\ outcome'[c] = outcome[c]
    /\ link[c] = "none" /\ link'[c] = "buffered"
    /\ answer'[c] = answer[c] /\ ran' = ran

Settles(c) ==
    /\ pc[c] \notin {"done", "closing"}
    /\ pc'[c] = "done" \/ (pc'[c] = "closing" /\ link[c] # "none")
    /\ Fitting(c, outcome'[c])
    /\ (link[c] = "none") = (link'[c] = "none")
    /\ answer'[c] = answer[c] /\ ran' = ran

Finishes(c) ==
    /\ pc[c] = "closing" /\ pc'[c] = "done"
    /\ outcome'[c] = outcome[c] \/ (outcome'[c] = RouterTimeout)
    /\ link'[c] = link[c] /\ answer'[c] = answer[c] /\ ran' = ran

Happens(c) ==
    /\ pc'[c] = pc[c] /\ outcome'[c] = outcome[c] /\ dispatched'[c] = dispatched[c]
    /\ link[c] # "none" /\ link'[c] # "none"
    /\ \/ answer'[c] = answer[c] /\ ran' = ran
       \/ answer'[c] = answer[c] /\ answer[c] # "rejection" /\ ran' = ran \cup {c}
       \/ /\ answer[c] = "none" /\ ran' = ran
          /\ answer'[c] = "result" => c \in ran
          /\ answer'[c] = "rejection" => c \notin ran

CallStep(c) ==
    /\ Apart(c)
    /\ Same(c) \/ Prepares(c) \/ Sends(c) \/ Settles(c) \/ Finishes(c) \/ Happens(c)


\* Every action is one of these steps of the call it is about, and of no other.
LEMMA ActionsAreCallSteps ==
    ASSUME StreamInv, NEW c \in Calls, AdapterSteps(c) \/ BackendSteps(c)
    PROVE  CallStep(c)
<1> USE DEF StreamInv, TypeOK
<1> CallInv(c)
  OBVIOUS
<1>1. ASSUME NEW o \in Refusals(c), Refuse(c, o)
      PROVE  CallStep(c)
  <2>1. Fitting(c, o)
    BY <1>1, RefusalsFit DEF Refuse
  <2>2. QED
    BY <1>1, <2>1 DEF Refuse, Over, CallStep, Apart, Settles, wireVars
<1>2. CASE Connect(c)
  BY <1>2 DEF Connect, CallStep, Apart, Prepares, wireVars
<1>3. CASE Connected(c)
  BY <1>3 DEF Connected, CallStep, Apart, Sends, CallInv
<1>4. CASE ConnectFails(c)
  BY <1>4, ConnectErrorFits DEF ConnectFails, Over, CallStep, Apart, Settles, wireVars
<1>5. ASSUME NEW retryable \in BOOLEAN, Reads(c, retryable)
      PROVE  CallStep(c)
  BY <1>5, AnswersFit
     DEF Reads, Leave, CallStep, Apart, Settles, wireVars, CallInv
<1>6. CASE Breaks(c)
  <2>1. PICK code \in {"CONNECTION_RESET", "BACKEND_UNAVAILABLE"} :
              Leave(c, Error(code, TRUE, ~dispatched[c]))
    BY <1>6 DEF Breaks
  <2>2. Fitting(c, Error(code, TRUE, ~dispatched[c]))
    BY <1>6, DispatchedErrorFits DEF Breaks, Codes
  <2>3. /\ (link[c] = "none") = (link'[c] = "none")
        /\ \A d \in Calls \ {c} : link'[d] = link[d]
    BY <1>6 DEF Breaks
  <2>4. QED
    BY <1>6, <2>1, <2>2, <2>3 DEF Breaks, Leave, CallStep, Apart, Settles, CallInv
<1>7. CASE TimesOut(c)
  <2>1. pc[c] \in {"connecting", "reading"}
    BY <1>7 DEF TimesOut
  <2>2. Fitting(c, Error("BACKEND_TIMEOUT", TRUE, ~dispatched[c]))
    BY <2>1, DispatchedErrorFits DEF Codes
  <2>3. QED
    BY <1>7, <2>1, <2>2
       DEF TimesOut, Leave, Over, CallStep, Apart, Settles, wireVars, CallInv
<1>8. CASE Closes(c)
  BY <1>8 DEF Closes, Closable, CallStep, Apart, Finishes, wireVars
<1>9. CASE Cancels(c)
  <2>1. Fitting(c, RouterTimeout)
    BY RouterTimeoutFits
  <2>2. CASE pc[c] = "closing"
    BY <1>9, <2>2 DEF Cancels, Over, CallStep, Apart, Finishes, wireVars
  <2>3. CASE pc[c] # "closing"
    BY <1>9, <2>1, <2>3
       DEF Cancels, Leave, Over, CallStep, Apart, Settles, wireVars, CallInv
  <2>4. QED
    BY <2>2, <2>3
<1>10. CASE Arrives(c)
  BY <1>10 DEF Arrives, CallStep, Apart, Happens, adapterVars
<1>11. CASE Runs(c)
  BY <1>11 DEF Runs, CallStep, Apart, Happens, adapterVars
<1>12. ASSUME NEW a \in Answers, Answer(c, a)
       PROVE  CallStep(c)
  BY <1>12 DEF Answer, CallStep, Apart, Happens, adapterVars
<1>13. QED
  BY <1>1, <1>2, <1>3, <1>4, <1>5, <1>6, <1>7, <1>8, <1>9, <1>10, <1>11, <1>12
     DEF AdapterSteps, BackendSteps

\* A step of the system is a step of one call, or changes none of them.
LEMMA NextIsCallStep ==
    ASSUME StreamInv, [Next]_vars
    PROVE  \/ \E c \in Calls : CallStep(c)
           \/ /\ UNCHANGED <<pc, dispatched, outcome, link, answer, ran>>
<1>1. CASE Tick \/ UNCHANGED vars
  BY <1>1 DEF Tick, vars, adapterVars, wireVars
<1>2. CASE \E c \in Calls : AdapterSteps(c) \/ BackendSteps(c)
  BY <1>2, ActionsAreCallSteps
<1>3. QED
  BY <1>1, <1>2 DEF Next

-----------------------------------------------------------------------------
(* The invariant.                                                           *)

LEMMA InitInv == Init => StreamInv
<1> SUFFICES ASSUME Init PROVE StreamInv
  OBVIOUS
<1>1. TypeOK
  BY BudgetAssumption, Outcomes DEF Init, TypeOK
<1>2. ASSUME NEW c \in Calls PROVE CallInv(c)
  BY Outcomes DEF Init, CallInv
<1>3. QED
  BY <1>1, <1>2 DEF StreamInv

\* A call keeps its invariant through its own steps.
LEMMA OwnStep ==
    ASSUME StreamInv, NEW c \in Calls, CallStep(c)
    PROVE  CallInv(c)'
<1> CallInv(c)
  BY DEF StreamInv
<1>1. CASE Same(c)
  BY <1>1 DEF Same, CallInv
<1>2. CASE Prepares(c)
  BY <1>2 DEF Prepares, CallInv
<1>3. CASE Sends(c)
  BY <1>3, Outcomes DEF Sends, CallInv
<1>4. CASE Settles(c)
  BY <1>4 DEF Settles, CallInv, Fitting
<1>5. CASE Finishes(c)
  <2>1. RouterTimeout.kind = "error" /\ ~RouterTimeout.safe
    BY Outcomes DEF RouterTimeout, Codes
  <2>2. QED
    BY <1>5, <2>1 DEF Finishes, CallInv
<1>6. CASE Happens(c)
  BY <1>6, Outcomes DEF Happens, CallInv
<1>7. QED
  BY <1>1, <1>2, <1>3, <1>4, <1>5, <1>6 DEF CallStep

LEMMA StepInv == StreamInv /\ [Next]_vars => StreamInv'
<1> SUFFICES ASSUME StreamInv, [Next]_vars PROVE StreamInv'
  OBVIOUS
<1>1. TypeOK'
  BY TypeStep DEF StreamInv
<1>2. ASSUME NEW d \in Calls PROVE CallInv(d)'
  <2>1. CallInv(d)
    BY DEF StreamInv
  <2>2. CASE UNCHANGED <<pc, dispatched, outcome, link, answer, ran>>
    BY <2>1, <2>2 DEF CallInv
  <2>3. ASSUME NEW c \in Calls, CallStep(c) PROVE CallInv(d)'
    <3>1. CASE c = d
      BY <2>3, <3>1, OwnStep
    <3>2. CASE c # d
      BY <2>1, <2>3, <3>2 DEF CallStep, Apart, CallInv
    <3>3. QED
      BY <3>1, <3>2
  <2>4. QED
    BY <2>2, <2>3, NextIsCallStep
<1>3. QED
  BY <1>1, <1>2 DEF StreamInv

\* The invariant of the calls holds throughout (service_a.py, service_b.py).
THEOREM Invariance == Spec => []StreamInv
  BY InitInv, StepInv, PTL DEF Spec

\* The variables keep their types.
THEOREM TypeCorrect == Spec => []TypeOK
<1>1. StreamInv => TypeOK
  BY DEF StreamInv
<1>2. QED
  BY <1>1, Invariance, PTL


\* A request whose error allows a fallback has not run and never will
\* (base.py:20-21).
THEOREM Safety == Spec => []SafeNeverRuns
<1>1. StreamInv => SafeNeverRuns
  <2> SUFFICES ASSUME StreamInv, NEW c \in Calls, outcome[c].safe
               PROVE  /\ c \notin ran
                      /\ link[c] \in {"none", "cut"} \/ answer[c] = "rejection"
    BY DEF SafeNeverRuns
  <2>1. QED
    BY DEF StreamInv, CallInv
<1>2. QED
  BY <1>1, Invariance, PTL

-----------------------------------------------------------------------------
(* The timers.                                                              *)

\* The router's timer strikes once, and time goes on in the call only after
\* that; what it strikes is over, unless it has a writer to close.
TimerInv(c) ==
    /\ late[c] => cancelled[c]
    /\ cancelled[c] => pc[c] \in {"closing", "done"}
    /\ pc[c] = "closing" => c \in TcpCalls

TimersInv == \A c \in Calls : TimerInv(c)

LEMMA InitTimers == Init => TimersInv
  BY DEF Init, TimersInv, TimerInv

\* A step of one call keeps what holds of its timer, and touches no other.
LEMMA StepTimers == StreamInv /\ TimersInv /\ [Next]_vars => TimersInv'
<1> SUFFICES ASSUME StreamInv, TimersInv, [Next]_vars, NEW d \in Calls
             PROVE  TimerInv(d)'
  BY DEF TimersInv
<1> USE DEF TimerInv
<1> TypeOK /\ TimerInv(d)
  BY DEF StreamInv, TimersInv
<1> USE DEF TypeOK
<1>1. CASE UNCHANGED vars
  BY <1>1 DEF vars, adapterVars
<1>2. CASE Tick
  <2>1. InCall(d) /\ left[d] = 0 => cancelled[d]
    BY <1>2 DEF Tick, Due
  <2>2. QED
    BY <1>2, <2>1 DEF Tick
<1>3. ASSUME NEW c \in Calls, NEW o \in Refusals(c), Refuse(c, o)
      PROVE  TimerInv(d)'
  BY <1>3 DEF Refuse, Over
<1>4. ASSUME NEW c \in Calls, Connect(c)
      PROVE  TimerInv(d)'
  BY <1>4 DEF Connect
<1>5. ASSUME NEW c \in Calls, ConnectFails(c) \/ Connected(c)
      PROVE  TimerInv(d)'
  BY <1>5 DEF ConnectFails, Connected, Over
<1>6. ASSUME NEW c \in Calls, NEW retryable \in BOOLEAN, Reads(c, retryable)
      PROVE  TimerInv(d)'
  BY <1>6 DEF Reads, Leave
<1>7. ASSUME NEW c \in Calls, Breaks(c) \/ TimesOut(c)
      PROVE  TimerInv(d)'
  BY <1>7 DEF Breaks, TimesOut, Leave, Over
<1>8. ASSUME NEW c \in Calls, Closes(c)
      PROVE  TimerInv(d)'
  BY <1>8 DEF Closes
<1>9. ASSUME NEW c \in Calls, Cancels(c)
      PROVE  TimerInv(d)'
  BY <1>9 DEF Cancels, Leave, Over
<1>10. ASSUME NEW c \in Calls, BackendSteps(c)
       PROVE  TimerInv(d)'
  BY <1>10 DEF BackendSteps, Arrives, Runs, Answer, adapterVars
<1>11. QED
  BY <1>1, <1>2, <1>3, <1>4, <1>5, <1>6, <1>7, <1>8, <1>9, <1>10
     DEF Next, AdapterSteps

\* A call outlives its caller's deadline only to flush the frame of Service B
\* (service_b.py:87, 173-179).
THEOREM LateIsFlushing == Spec => []LateOnlyToFlush
<1>1. StreamInv /\ TimersInv => LateOnlyToFlush
  <2> SUFFICES ASSUME StreamInv, TimersInv, NEW c \in Calls, InCall(c), late[c]
               PROVE  pc[c] = "closing" /\ c \in TcpCalls /\ link[c] # "none"
    BY DEF LateOnlyToFlush
  <2>1. CallInv(c) /\ TimerInv(c)
    BY DEF StreamInv, TimersInv
  <2>2. QED
    BY <2>1 DEF CallInv, TimerInv, InCall
<1>2. QED
  BY <1>1, InitTimers, StepTimers, Invariance, PTL DEF Spec

-----------------------------------------------------------------------------
(* The contract.                                                            *)

\* What the caller learns of an outcome.
LEMMA EndedKinds ==
    ASSUME NEW o \in Outcome
    PROVE  /\ o.kind = "pending" => Ended(o) = "pending"
           /\ o.kind = "result" => Ended(o) = "result"
           /\ o.kind = "error" => Ended(o) = IF o.safe THEN "safe_error" ELSE "error"
           /\ o.kind \in {"pending", "result", "error"}
  BY DEF Outcome, Pending, Result, Ended

\* A step changes what the contract sees of its own call only.
LEMMA Frame ==
    ASSUME StreamInv, NEW c \in Calls, Apart(c)
    PROVE  /\ Verdicts' = [Verdicts EXCEPT ![c] = Verdict(c)']
           /\ Held' = IF link'[c] # "none" /\ Verdict(c)' # "safe_error"
                      THEN Held \cup {c} ELSE Held \ {c}
<1>1. ASSUME NEW d \in Calls \ {c} PROVE Verdict(d)' = Verdict(d) /\ link'[d] = link[d]
  BY <1>1 DEF Apart, Verdict
<1>2. Verdicts' = [Verdicts EXCEPT ![c] = Verdict(c)']
  BY <1>1 DEF Verdicts
<1>3. Held' = IF link'[c] # "none" /\ Verdict(c)' # "safe_error"
              THEN Held \cup {c} ELSE Held \ {c}
  BY <1>1 DEF Held
<1>4. QED
  BY <1>2, <1>3

\* Initially nothing is held, nothing has run, nothing has ended.
LEMMA InitMaps == Init => Contract!Init
<1> SUFFICES ASSUME Init PROVE Contract!Init
  OBVIOUS
<1>1. \A c \in Calls : Verdict(c) = "pending"
  BY DEF Init, Verdict
<1>2. Verdicts = [c \in Calls |-> "pending"]
  BY <1>1 DEF Verdicts
<1>3. Held = {}
  BY DEF Held, Init
<1>4. QED
  BY <1>2, <1>3 DEF Init, Contract!Init

\* What a call keeps to itself changes nothing of the contract's state.
LEMMA Quiet ==
    ASSUME StreamInv, NEW c \in Calls, Apart(c), ran' = ran,
           (link[c] = "none") = (link'[c] = "none"),
           Verdict(c)' = Verdict(c)
    PROVE  Verdicts' = Verdicts /\ Held' = Held
  BY Frame DEF Verdicts, Held

\* The end of a call is one of the three ends the contract knows.
LEMMA EndMaps ==
    ASSUME StreamInv, NEW c \in Calls, Apart(c), ran' = ran,
           Verdict(c) = "pending", pc'[c] = "done", Fitting(c, outcome'[c]),
           (link[c] = "none") = (link'[c] = "none")
    PROVE  Contract!Next
<1>1. Verdict(c)' = Ended(outcome'[c])
  BY DEF Verdict
<1>2. Verdicts[c] = "pending"
  BY DEF Verdicts
<1>3. CASE outcome'[c].kind = "result"
  <2>1. Verdict(c)' = "result" /\ c \in ran
    BY <1>1, <1>3, EndedKinds DEF Fitting
  <2>2. Held' = Held
    BY <2>1, Frame DEF Held
  <2>3. Contract!Return(c)
    BY <1>2, <2>1, <2>2, Frame DEF Contract!Return
  <2>4. QED
    BY <2>3 DEF Contract!Next
<1>4. CASE outcome'[c].kind = "error" /\ outcome'[c].safe
  <2>1. Verdict(c)' = "safe_error"
    BY <1>1, <1>4, EndedKinds DEF Fitting
  <2>2. c \notin ran
    BY <1>4 DEF Fitting, StreamInv, CallInv
  <2>3. Contract!FailSafely(c)
    BY <1>2, <2>1, <2>2, Frame DEF Contract!FailSafely
  <2>4. QED
    BY <2>3 DEF Contract!Next
<1>5. CASE outcome'[c].kind = "error" /\ ~outcome'[c].safe
  <2>1. Verdict(c)' = "error"
    BY <1>1, <1>5, EndedKinds DEF Fitting
  <2>2. Held' = Held
    BY <2>1, Frame DEF Held
  <2>3. Contract!Fail(c)
    BY <1>2, <2>1, <2>2, Frame DEF Contract!Fail
  <2>4. QED
    BY <2>3 DEF Contract!Next
<1>6. QED
  BY <1>3, <1>4, <1>5, EndedKinds DEF Fitting

\* Every step of a call is a step of the contract or leaves it as it is.
LEMMA StepMaps ==
    ASSUME StreamInv, NEW c \in Calls, CallStep(c)
    PROVE  Contract!Next \/ UNCHANGED Contract!vars
<1> CallInv(c) /\ Apart(c)
  BY DEF StreamInv, CallStep
<1>1. ASSUME ran' = ran, (link[c] = "none") = (link'[c] = "none"),
             Verdict(c)' = Verdict(c)
      PROVE  UNCHANGED Contract!vars
  BY <1>1, Quiet DEF Contract!vars
<1>2. CASE Same(c)
  BY <1>1, <1>2 DEF Same, Verdict
<1>3. CASE Prepares(c)
  BY <1>1, <1>3 DEF Prepares, Verdict
<1>4. CASE Sends(c)
  <2>1. Verdict(c) = "pending" /\ Verdict(c)' = "pending"
    BY <1>4 DEF Sends, Verdict
  <2>2. Verdicts' = Verdicts /\ Held' = Held \cup {c} /\ Verdicts[c] = "pending"
    BY <1>4, <2>1, Frame DEF Sends, Verdicts
  <2>3. Contract!Dispatch(c)
    BY <1>4, <2>2 DEF Sends, Contract!Dispatch
  <2>4. QED
    BY <2>3 DEF Contract!Next
<1>5. CASE Settles(c)
  <2>1. Verdict(c) = "pending"
    BY <1>5 DEF Settles, Verdict
  <2>2. CASE pc'[c] = "done"
    BY <1>5, <2>1, <2>2, EndMaps DEF Settles
  <2>3. CASE pc'[c] # "done"
    <3>1. Verdict(c)' = "pending"
      BY <2>3 DEF Verdict
    <3>2. QED
      BY <1>1, <1>5, <2>1, <3>1 DEF Settles
  <2>4. QED
    BY <2>2, <2>3
<1>6. CASE Finishes(c)
  <2>1. Verdict(c) = "pending"
    BY <1>6 DEF Finishes, Verdict
  <2>2. Fitting(c, outcome'[c])
    <3>1. CASE outcome'[c] = RouterTimeout
      BY <3>1, RouterTimeoutFits
    <3>2. CASE outcome'[c] = outcome[c]
      BY <1>6, <3>2 DEF Finishes, Fitting, StreamInv, TypeOK, CallInv
    <3>3. QED
      BY <1>6, <3>1, <3>2 DEF Finishes
  <2>3. QED
    BY <1>6, <2>1, <2>2, EndMaps DEF Finishes
<1>7. CASE Happens(c)
  <2>1. Verdict(c)' = Verdict(c)
    BY <1>7 DEF Happens, Verdict
  <2>2. CASE ran' = ran
    BY <1>1, <1>7, <2>1, <2>2 DEF Happens
  <2>3. CASE answer[c] # "rejection" /\ ran' = ran \cup {c}
    <3>1. Verdict(c) # "safe_error"
      BY <1>7, <2>3, EndedKinds DEF Happens, Verdict, CallInv, StreamInv, TypeOK
    <3>2. c \in Held
      BY <1>7, <3>1 DEF Happens, Held
    <3>3. Verdicts' = Verdicts /\ Held' = Held
      BY <1>7, <2>1, <3>1, <3>2, Frame DEF Happens, Verdicts
    <3>4. Contract!Run(c)
      BY <2>3, <3>2, <3>3 DEF Contract!Run
    <3>5. QED
      BY <3>4 DEF Contract!Next
  <2>4. QED
    BY <1>7, <2>2, <2>3 DEF Happens
<1>8. QED
  BY <1>2, <1>3, <1>4, <1>5, <1>6, <1>7 DEF CallStep

\* Adapters A and B implement the contract of BaseAdapter.execute, for every
\* number of calls and every budget (base.py:8-22, 59-85).
THEOREM Refinement == Spec => ImplementsContract
<1>1. StreamInv /\ [Next]_vars => [Contract!Next]_(Contract!vars)
  <2> SUFFICES ASSUME StreamInv, [Next]_vars
               PROVE  Contract!Next \/ UNCHANGED Contract!vars
    OBVIOUS
  <2>1. CASE UNCHANGED <<pc, dispatched, outcome, link, answer, ran>>
    BY <2>1 DEF Contract!vars, Held, Verdicts, Verdict
  <2>2. CASE \E c \in Calls : CallStep(c)
    BY <2>2, StepMaps
  <2>3. QED
    BY <2>1, <2>2, NextIsCallStep
<1>2. QED
  BY <1>1, InitMaps, Invariance, PTL DEF Spec, ImplementsContract, Contract!Spec

=============================================================================
