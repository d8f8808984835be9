----------------------------- MODULE RequestIds -----------------------------
(***************************************************************************)
(* MonotonicIdentifierAllocator: one counter, taken by threads under a     *)
(* lock, that wraps around and leaves out zero.  Service B's request ids   *)
(* (64 bits) and Service C's sequence numbers (32 bits) come from it.  In  *)
(* the gateway every draw is made by the thread of the event loop; several *)
(* threads draw at a time only in src/tests/unit/test_request_ids.py, and  *)
(* the lock is what the class promises to such callers.                    *)
(***************************************************************************)
EXTENDS Naturals, Sequences

CONSTANTS
    Threads,
    NoThread,
    Mask  \* 2^bits - 1

ASSUME MaskAssumption == Mask \in Nat /\ Mask >= 3
ASSUME NoThreadAssumption == NoThread \notin Threads

VARIABLES
    value,   \* self._value
    lock,    \* the thread that holds self._lock
    pc,      \* "idle", "enter", "advance", "wrap" or "return", for each thread
    result,  \* the local variable of next
    recent   \* history: the last Mask identifiers, in the order they were given

vars == <<value, lock, pc, result, recent>>

TypeOK ==
    /\ value \in 0..Mask
    /\ lock \in Threads \cup {NoThread}
    /\ pc \in [Threads -> {"idle", "enter", "advance", "wrap", "return"}]
    /\ result \in [Threads -> 0..Mask]
    /\ recent \in Seq(0..Mask) /\ Len(recent) <= Mask

\* randbits(bits) or 1.
Init ==
    /\ value \in 1..Mask
    /\ lock = NoThread
    /\ pc = [t \in Threads |-> "idle"]
    /\ result = [t \in Threads |-> 0]
    /\ recent = <<>>

Move(t, from, to) == pc[t] = from /\ pc' = [pc EXCEPT ![t] = to]

\* Mutant: next does not lock.
EnterUnlocked(t) ==
    /\ Move(t, "idle", "enter")
    /\ UNCHANGED <<value, lock, result, recent>>

Enter(t) ==
    /\ lock = NoThread
    /\ Move(t, "idle", "enter")
    /\ lock' = t
    /\ UNCHANGED <<value, result, recent>>

Take(t) ==
    /\ Move(t, "enter", "advance")
    /\ result' = [result EXCEPT ![t] = value]
    /\ UNCHANGED <<value, lock, recent>>

\* (value + 1) & mask.
Masked(n) == IF n > Mask THEN 0 ELSE n

Advance(t) ==
    /\ Move(t, "advance", "wrap")
    /\ value' = Masked(value + 1)
    /\ UNCHANGED <<lock, result, recent>>

Wrap(t) ==
    /\ Move(t, "wrap", "return")
    /\ value' = IF value = 0 THEN 1 ELSE value
    /\ UNCHANGED <<lock, result, recent>>

Recorded(seq, id) ==
    IF Len(seq) < Mask THEN Append(seq, id) ELSE Append(Tail(seq), id)

Return(t) ==
    /\ Move(t, "return", "idle")
    /\ lock' = NoThread
    /\ recent' = Recorded(recent, result[t])
    /\ UNCHANGED <<value, result>>

Next == \E t \in Threads :
    Enter(t) \/ Take(t) \/ Advance(t) \/ Wrap(t) \/ Return(t)

Spec == Init /\ [][Next]_vars

-----------------------------------------------------------------------------
\* Of any 2^bits - 1 identifiers given one after the other, by whichever
\* threads, no two are the same and none is zero ("Allocate non-zero
\* identifiers without collisions", request_ids.py:8, 17-23): an answer is
\* taken for that of another request only if so many were sent meanwhile.
DistinctNonZero ==
    /\ \A i \in 1..Len(recent) : recent[i] # 0
    /\ \A i, j \in 1..Len(recent) : recent[i] = recent[j] => i = j
=============================================================================
