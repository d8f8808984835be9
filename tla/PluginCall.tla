----------------------------- MODULE PluginCall -----------------------------
(***************************************************************************)
(* invoke_plugin_worker: every call of a hot-loaded adapter is a child     *)
(* process, watched by a thread of the event loop's default executor.      *)
(*                                                                         *)
(* Two clocks run: the caller's, around the call (router.py:166), and that *)
(* of subprocess.run, which starts when a thread takes the job.  When the  *)
(* caller's is over the job is cancelled if no thread has it yet; a thread *)
(* that has it goes on.                                                    *)
(***************************************************************************)
EXTENDS Integers, FiniteSets

CONSTANTS
    Calls,
    Threads,  \* of the executor
    Budget    \* timeout_s, in ticks

ASSUME ThreadsAssumption == Threads \in Nat \ {0}
ASSUME BudgetAssumption == Budget \in Nat \ {0}

\* How a child ends.  A plugin is an adapter: like the others it returns a
\* result only for what it ran and calls safe only what it did not.  A
\* "failure" is any other error it reports, a status other than 0 or output
\* that is not what a worker writes.
Ends == {"result", "rejection", "failure", "killed"}

\* Mutant: the child is given a second more than its caller.
ChildBudgetGrace == Budget + 1

ChildBudget == Budget

VARIABLES
    pc,       \* of the caller: "idle", "awaiting" or "done"
    outcome,  \* what execute returns or raises
    left,     \* ticks until the caller's deadline
    job,      \* "none", "queued", "running", "cancelled", or how it ended
    child,    \* ticks until subprocess.run kills the child
    waited,   \* history: ticks its job has been in the queue
    over,     \* history: ticks the child has run since the deadline
    ran       \* calls whose operation the plugin has run

clocks == <<left, child, waited, over>>
vars == <<pc, outcome, job, clocks, ran>>

TypeOK ==
    /\ pc \in [Calls -> {"idle", "awaiting", "done"}]
    /\ outcome \in [Calls -> {"pending", "result", "safe_error", "error"}]
    /\ left \in [Calls -> 0..Budget]
    /\ job \in [Calls -> {"none", "queued", "running", "cancelled"} \cup Ends]
    /\ child \in [Calls -> 0..ChildBudget]
    /\ waited \in [Calls -> 0..Budget]
    /\ over \in [Calls -> 0..Budget]
    /\ ran \subseteq Calls

Init ==
    /\ pc = [c \in Calls |-> "idle"]
    /\ outcome = [c \in Calls |-> "pending"]
    /\ left = [c \in Calls |-> Budget]
    /\ job = [c \in Calls |-> "none"]
    /\ child = [c \in Calls |-> ChildBudget]
    /\ waited = [c \in Calls |-> 0]
    /\ over = [c \in Calls |-> 0]
    /\ ran = {}

-----------------------------------------------------------------------------
(* The caller.                                                              *)

Over(c, o) ==
    /\ pc' = [pc EXCEPT ![c] = "done"]
    /\ outcome' = [outcome EXCEPT ![c] = o]

\* The payload cannot be written as JSON.
Refuse(c) ==
    /\ pc[c] = "idle"
    /\ Over(c, "error")
    /\ UNCHANGED <<job, clocks, ran>>

Submit(c) ==
    /\ pc[c] = "idle"
    /\ pc' = [pc EXCEPT ![c] = "awaiting"]
    /\ job' = [job EXCEPT ![c] = "queued"]
    /\ UNCHANGED <<outcome, clocks, ran>>

OutcomeOf(end) ==
    CASE end = "result"    -> "result"
      [] end = "rejection" -> "safe_error"
      [] OTHER             -> "error"

Resume(c) ==
    /\ pc[c] = "awaiting"
    /\ job[c] \in Ends
    /\ Over(c, OutcomeOf(job[c]))
    /\ UNCHANGED <<job, clocks, ran>>

\* Mutant: the job of a caller that is gone stays in the queue.
CancelLeavesJob(c) ==
    /\ pc[c] = "awaiting"
    /\ left[c] = 0
    /\ Over(c, "error")
    /\ UNCHANGED <<job, clocks, ran>>

Cancel(c) ==
    /\ pc[c] = "awaiting"
    /\ left[c] = 0
    /\ Over(c, "error")
    /\ job' = [job EXCEPT ![c] = IF @ = "queued" THEN "cancelled" ELSE @]
    /\ UNCHANGED <<clocks, ran>>

-----------------------------------------------------------------------------
(* The executor and the children.                                           *)

Running == {c \in Calls : job[c] = "running"}

Begin(c) ==
    /\ job[c] = "queued"
    /\ Cardinality(Running) < Threads
    /\ job' = [job EXCEPT ![c] = "running"]
    /\ UNCHANGED <<pc, outcome, clocks, ran>>

Runs(c) ==
    /\ job[c] = "running"
    /\ ran' = ran \cup {c}
    /\ UNCHANGED <<pc, outcome, job, clocks>>

Exits(c, end) ==
    /\ job[c] = "running"
    /\ end = "result" => c \in ran
    /\ end = "rejection" => c \notin ran
    /\ job' = [job EXCEPT ![c] = end]
    /\ UNCHANGED <<pc, outcome, clocks, ran>>

\* Mutant: subprocess.run is given no timeout.
KillNever(c) == FALSE /\ UNCHANGED vars

Kill(c) ==
    /\ job[c] = "running"
    /\ child[c] = 0
    /\ job' = [job EXCEPT ![c] = "killed"]
    /\ UNCHANGED <<pc, outcome, clocks, ran>>

Due(c) ==
    \/ pc[c] = "awaiting" /\ left[c] = 0
    \/ job[c] = "running" /\ child[c] = 0

Tick ==
    /\ \A c \in Calls : ~Due(c)
    /\ left' = [c \in Calls |->
                  IF pc[c] = "awaiting" THEN left[c] - 1 ELSE left[c]]
    /\ child' = [c \in Calls |-> IF c \in Running THEN child[c] - 1 ELSE child[c]]
    /\ waited' = [c \in Calls |->
                    IF job[c] = "queued" THEN waited[c] + 1 ELSE waited[c]]
    /\ over' = [c \in Calls |->
                  IF c \in Running /\ left[c] = 0 THEN over[c] + 1 ELSE over[c]]
    /\ UNCHANGED <<pc, outcome, job, ran>>

Next ==
    \/ Tick
    \/ \E c \in Calls :
          \/ Refuse(c) \/ Submit(c) \/ Resume(c) \/ Cancel(c)
          \/ Begin(c) \/ Runs(c) \/ Kill(c)
          \/ \E end \in Ends \ {"killed"} : Exits(c, end)

Spec == Init /\ [][Next]_vars

\* The executor's threads and the event loop run; a plugin may never answer.
FairSpec ==
    /\ Spec
    /\ WF_vars(Tick)
    /\ \A c \in Calls : WF_vars(Resume(c)) /\ WF_vars(Cancel(c)) /\ WF_vars(Kill(c))

-----------------------------------------------------------------------------
Contract == INSTANCE CallContract WITH
    Calls <- Calls,
    held <- {c \in Calls : job[c] \in {"running"} \cup Ends /\ outcome[c] # "safe_error"},
    ran <- ran,
    outcome <- outcome

\* A plugin behind a thread and a process keeps the contract of base.py:20-21
\* if it does so itself: a call that was given up while it waited for a thread
\* is never run, one that was given up later is never called safe.
ImplementsContract == Contract!Spec

\* A child outlives its caller's deadline by no more than the time its job had
\* waited for a thread (subprocess_proxy.py:15-26).
OverrunIsTheWait == \A c \in Calls : over[c] <= waited[c]

\* Threads come back: a plugin that never answers holds its thread, which the
\* event loop's other work needs too, for one timeout only.
ThreadsRecover == \A c \in Calls : job[c] = "running" ~> job[c] # "running"

-----------------------------------------------------------------------------
(* The inductive invariant.                                                 *)

\* A job is run after its caller asked for it and until it gave up, or once a
\* thread has it: only then has the plugin run anything, and what a child says
\* of that, and a caller after it, is so.
JobInv(c) ==
    /\ outcome[c] = "pending" <=> pc[c] # "done"
    /\ pc[c] = "idle" => job[c] = "none"
    /\ job[c] = "none" => pc[c] # "awaiting"
    /\ job[c] = "queued" => pc[c] = "awaiting"
    /\ job[c] = "cancelled" => pc[c] = "done"
    /\ job[c] \in {"none", "queued", "cancelled", "rejection"} => c \notin ran
    /\ job[c] = "result" => c \in ran
    /\ outcome[c] = "result" => job[c] = "result"
    /\ outcome[c] = "safe_error" => job[c] = "rejection"

\* What is left to the child is what is left to its caller, and the time that
\* its job had waited for a thread.
ClockInv(c) ==
    /\ job[c] = "none" => left[c] = Budget /\ waited[c] = 0
    /\ job[c] = "queued" => waited[c] + left[c] = Budget
    /\ job[c] \in {"none", "queued"} => child[c] = Budget
    /\ job[c] \in {"none", "queued", "cancelled"} => over[c] = 0
    /\ job[c] = "running" => child[c] + over[c] = left[c] + waited[c]
    /\ job[c] = "running" /\ pc[c] = "done" => left[c] = 0
    /\ over[c] <= waited[c]

PluginInv == TypeOK /\ \A c \in Calls : JobInv(c) /\ ClockInv(c)
=============================================================================
