-------------------------- MODULE PluginCall_proofs --------------------------
(***************************************************************************)
(* The calls of hot-loaded plugins keep the contract of BaseAdapter, and a *)
(* child outlives its caller by no more than its job had waited: for any   *)
(* calls, any budget and any number of threads.                            *)
(***************************************************************************)
EXTENDS PluginCall, TLAPS

USE BudgetAssumption DEF BudgetAssumption, ChildBudget

-----------------------------------------------------------------------------
(* The invariant.                                                           *)

LEMMA InitPlugin == Init => PluginInv
  BY DEF Init, PluginInv, TypeOK, JobInv, ClockInv, Ends

LEMMA OutcomesTyped ==
    \A end \in Ends : OutcomeOf(end) \in {"result", "safe_error", "error"}
  BY DEF OutcomeOf, Ends

\* A step of one call, and no tick: the calls beside it stay as they are.
LEMMA OthersKept ==
    ASSUME PluginInv, NEW c \in Calls, UNCHANGED clocks,
           \A d \in Calls \ {c} :
               /\ pc'[d] = pc[d] /\ outcome'[d] = outcome[d] /\ job'[d] = job[d]
               /\ d \in ran' <=> d \in ran,
           TypeOK', JobInv(c)', ClockInv(c)'
    PROVE  PluginInv'
<1>1. ASSUME NEW d \in Calls \ {c}
      PROVE  JobInv(d)' /\ ClockInv(d)'
  BY <1>1 DEF PluginInv, JobInv, ClockInv, clocks
<1>2. QED
  BY <1>1 DEF PluginInv

LEMMA CallerPlugin ==
    ASSUME PluginInv, NEW c \in Calls, Refuse(c) \/ Submit(c) \/ Resume(c) \/ Cancel(c)
    PROVE  PluginInv'
<1> USE DEF PluginInv, TypeOK, JobInv, ClockInv, Ends, Over, clocks
<1>1. CASE Refuse(c)
  BY <1>1, OthersKept DEF Refuse
<1>2. CASE Submit(c)
  BY <1>2, OthersKept DEF Submit
<1>3. CASE Resume(c)
  BY <1>3, OutcomesTyped, OthersKept DEF Resume, OutcomeOf
<1>4. CASE Cancel(c)
  BY <1>4, OthersKept DEF Cancel
<1>5. QED
  BY <1>1, <1>2, <1>3, <1>4

LEMMA ChildPlugin ==
    ASSUME PluginInv, NEW c \in Calls,
           Begin(c) \/ Runs(c) \/ Kill(c) \/ \E end \in Ends \ {"killed"} : Exits(c, end)
    PROVE  PluginInv'
<1> USE DEF PluginInv, TypeOK, JobInv, ClockInv, Ends, clocks
<1>1. CASE Begin(c)
  BY <1>1, OthersKept DEF Begin
<1>2. CASE Runs(c)
  BY <1>2, OthersKept DEF Runs
<1>3. CASE Kill(c)
  BY <1>3, OthersKept DEF Kill
<1>4. ASSUME NEW end \in Ends \ {"killed"}, Exits(c, end)
      PROVE  PluginInv'
  BY <1>4, OthersKept DEF Exits
<1>5. QED
  BY <1>1, <1>2, <1>3, <1>4

\* Time passes only while no deadline is due, so no clock runs below zero, and
\* caller and child lose the same tick until the caller's deadline.
LEMMA TickPlugin ==
    ASSUME PluginInv, Tick
    PROVE  PluginInv'
<1> USE DEF PluginInv, TypeOK
<1>1. UNCHANGED <<pc, outcome, job, ran>>
  BY DEF Tick
<1>2. ASSUME NEW c \in Calls
      PROVE  /\ left'[c] \in 0..Budget /\ child'[c] \in 0..Budget
             /\ waited'[c] \in 0..Budget /\ over'[c] \in 0..Budget
             /\ ClockInv(c)'
  <2>1. /\ left'[c] = IF pc[c] = "awaiting" THEN left[c] - 1 ELSE left[c]
        /\ child'[c] = IF job[c] = "running" THEN child[c] - 1 ELSE child[c]
        /\ waited'[c] = IF job[c] = "queued" THEN waited[c] + 1 ELSE waited[c]
        /\ over'[c] = IF job[c] = "running" /\ left[c] = 0 THEN over[c] + 1 ELSE over[c]
    BY DEF Tick, Running
  <2>2. /\ pc[c] = "awaiting" => left[c] > 0
        /\ job[c] = "running" => child[c] > 0
    BY DEF Tick, Due
  <2>3. JobInv(c) /\ ClockInv(c)
    OBVIOUS
  <2>4. CASE job[c] = "running"
    BY <1>1, <2>1, <2>2, <2>3, <2>4 DEF JobInv, ClockInv
  <2>5. CASE job[c] # "running"
    BY <1>1, <2>1, <2>2, <2>3, <2>5 DEF JobInv, ClockInv
  <2>6. QED
    BY <2>4, <2>5
<1>3. TypeOK'
  BY <1>1, <1>2 DEF Tick
<1>4. \A c \in Calls : JobInv(c)'
  BY <1>1 DEF JobInv
<1>5. QED
  BY <1>2, <1>3, <1>4

LEMMA NextPlugin == PluginInv /\ [Next]_vars => PluginInv'
<1> SUFFICES ASSUME PluginInv, [Next]_vars
             PROVE  PluginInv'
  OBVIOUS
<1>1. CASE UNCHANGED vars
  BY <1>1 DEF vars, clocks, PluginInv, TypeOK, JobInv, ClockInv
<1>2. CASE Next
  BY <1>2, CallerPlugin, ChildPlugin, TickPlugin DEF Next
<1>3. QED
  BY <1>1, <1>2

\* At every moment of every call, what its job, its child and its clocks are
\* agrees with what its caller has been told (subprocess_proxy.py:15-26).
THEOREM Invariance == Spec => []PluginInv
  BY InitPlugin, NextPlugin, PTL DEF Spec

\* No clock of a call runs below zero or beyond the budget, in any order of its
\* timers (router.py:166, subprocess_proxy.py:16-26).
THEOREM TypeCorrect == Spec => []TypeOK
<1>1. PluginInv => TypeOK
  BY DEF PluginInv
<1>2. QED
  BY <1>1, Invariance, PTL

\* A child runs past its caller's deadline by at most the time that its job
\* waited for a thread (subprocess_proxy.py:15-26).
THEOREM OverrunBounded == Spec => []OverrunIsTheWait
<1>1. PluginInv => OverrunIsTheWait
  BY DEF PluginInv, ClockInv, OverrunIsTheWait
<1>2. QED
  BY <1>1, Invariance, PTL

-----------------------------------------------------------------------------
(* The refinement of CallContract.                                          *)

\* What the caller learns, when it learns it.
LEMMA CallerRefines ==
    ASSUME PluginInv, NEW c \in Calls, Refuse(c) \/ Submit(c) \/ Resume(c) \/ Cancel(c)
    PROVE  Contract!Next \/ UNCHANGED Contract!vars
<1> USE DEF PluginInv, TypeOK, JobInv, Ends, Over
<1>1. CASE Submit(c)
  BY <1>1 DEF Submit, Contract!vars
<1>2. CASE Refuse(c)
  <2>1. Contract!Fail(c)
    BY <1>2 DEF Refuse, Contract!Fail
  <2>2. QED
    BY <2>1 DEF Contract!Next
<1>3. CASE Cancel(c)
  <2>1. Contract!Fail(c)
    BY <1>3 DEF Cancel, Contract!Fail
  <2>2. QED
    BY <2>1 DEF Contract!Next
<1>4. CASE Resume(c)
  <2>1. outcome[c] = "pending" /\ job[c] \in Ends /\ UNCHANGED <<job, ran>>
    BY <1>4 DEF Resume
  <2>2. CASE job[c] = "result"
    <3>1. outcome' = [outcome EXCEPT ![c] = "result"]
      BY <1>4, <2>2 DEF Resume, OutcomeOf
    <3>2. Contract!Return(c)
      BY <2>1, <2>2, <3>1 DEF Contract!Return
    <3>3. QED
      BY <3>2 DEF Contract!Next
  <2>3. CASE job[c] = "rejection"
    <3>1. outcome' = [outcome EXCEPT ![c] = "safe_error"]
      BY <1>4, <2>3 DEF Resume, OutcomeOf
    <3>2. Contract!FailSafely(c)
      BY <2>1, <2>3, <3>1 DEF Contract!FailSafely
    <3>3. QED
      BY <3>2 DEF Contract!Next
  <2>4. CASE job[c] \in {"failure", "killed"}
    <3>1. outcome' = [outcome EXCEPT ![c] = "error"]
      BY <1>4, <2>4 DEF Resume, OutcomeOf
    <3>2. Contract!Fail(c)
      BY <2>1, <2>4, <3>1 DEF Contract!Fail
    <3>3. QED
      BY <3>2 DEF Contract!Next
  <2>5. QED
    BY <2>1, <2>2, <2>3, <2>4
<1>5. QED
  BY <1>1, <1>2, <1>3, <1>4

\* What becomes of the job: it is dispatched when a thread takes it.
LEMMA ChildRefines ==
    ASSUME PluginInv, NEW c \in Calls,
           Begin(c) \/ Runs(c) \/ Kill(c) \/ \E end \in Ends \ {"killed"} : Exits(c, end)
    PROVE  Contract!Next \/ UNCHANGED Contract!vars
<1> USE DEF PluginInv, TypeOK, JobInv, Ends
<1>1. CASE Begin(c)
  <2>1. Contract!Dispatch(c)
    BY <1>1 DEF Begin, Contract!Dispatch
  <2>2. QED
    BY <2>1 DEF Contract!Next
<1>2. CASE Runs(c)
  <2>1. Contract!Run(c)
    BY <1>2 DEF Runs, Contract!Run
  <2>2. QED
    BY <2>1 DEF Contract!Next
<1>3. CASE Kill(c)
  BY <1>3 DEF Kill, Contract!vars
<1>4. ASSUME NEW end \in Ends \ {"killed"}, Exits(c, end)
      PROVE  UNCHANGED Contract!vars
  BY <1>4 DEF Exits, Contract!vars
<1>5. QED
  BY <1>1, <1>2, <1>3, <1>4

\* A plugin that keeps the contract of BaseAdapter still keeps it behind a
\* queue, a thread, a process and two clocks (subprocess_proxy.py:15-49,
\* base.py:20-21).
THEOREM Refinement == Spec => ImplementsContract
<1>1. Init => Contract!Init
  BY DEF Init, Contract!Init, Ends
<1>2. PluginInv /\ [Next]_vars => [Contract!Next]_(Contract!vars)
  <2> SUFFICES ASSUME PluginInv, [Next]_vars
               PROVE  Contract!Next \/ UNCHANGED Contract!vars
    OBVIOUS
  <2>1. CASE UNCHANGED vars
    BY <2>1 DEF vars, Contract!vars
  <2>2. CASE Tick
    BY <2>2 DEF Tick, Contract!vars
  <2>3. QED
    BY <2>1, <2>2, CallerRefines, ChildRefines DEF Next
<1>3. QED
  BY <1>1, <1>2, Invariance, PTL DEF Spec, ImplementsContract, Contract!Spec
=============================================================================
