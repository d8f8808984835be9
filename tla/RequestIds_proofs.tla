-------------------------- MODULE RequestIds_proofs -------------------------
(***************************************************************************)
(* Proofs about RequestIds, for any number of threads and any width.  The  *)
(* invariant places every recent identifier: two of them are as far apart, *)
(* going round, as they were given one after the other.                    *)
(***************************************************************************)
EXTENDS RequestIds, TLAPS

Ids == 1..Mask

\* b is k steps after a, once round at most.
Follows(a, b, k) == b = a + k \/ b = a + k - Mask

Successor(id) == IF id = Mask THEN 1 ELSE id + 1

\* The identifier that is given next.
Coming ==
    IF lock # NoThread /\ pc[lock] \in {"advance", "wrap", "return"}
    THEN result[lock] ELSE value

Chain(seq, next) ==
    /\ \A i \in 1..Len(seq) : Follows(seq[i], next, Len(seq) + 1 - i)
    /\ \A i \in 1..Len(seq) : \A j \in i..Len(seq) : Follows(seq[i], seq[j], j - i)

Locked == \A t \in Threads : pc[t] # "idle" <=> lock = t

\* Where the value is while a thread is at work on it.
Advancing ==
    /\ lock = NoThread => value \in Ids
    /\ \A t \in Threads :
          /\ pc[t] = "enter" => value \in Ids
          /\ pc[t] \in {"advance", "wrap", "return"} => result[t] \in Ids
          /\ pc[t] = "advance" => value = result[t]
          /\ pc[t] = "wrap" => value = Masked(result[t] + 1)
          /\ pc[t] = "return" => value = Successor(result[t])

IdsInv ==
    /\ TypeOK
    /\ Locked
    /\ Advancing
    /\ recent \in Seq(Ids)
    /\ Chain(recent, Coming)

-----------------------------------------------------------------------------
(* Going round.                                                             *)

LEMMA Width == Mask \in Nat /\ Mask >= 3
  BY MaskAssumption

LEMMA SuccessorIsId == \A id \in Ids : Successor(id) \in Ids
  BY Width DEF Ids, Successor

\* Masking and leaving out zero make the successor.
LEMMA MaskedIsSuccessor ==
    ASSUME NEW id \in Ids
    PROVE  /\ Masked(id + 1) \in 0..Mask
           /\ Masked(id + 1) = 0 => Successor(id) = 1
           /\ Masked(id + 1) # 0 => Successor(id) = Masked(id + 1)
  BY Width DEF Ids, Masked, Successor

LEMMA OneStepOn ==
    ASSUME NEW a \in Ids, NEW b \in Ids, NEW k \in Nat, k < Mask, Follows(a, b, k)
    PROVE  Follows(a, Successor(b), k + 1)
  BY Width DEF Ids, Follows, Successor

LEMMA NeverTwice ==
    ASSUME NEW a \in Ids, NEW b \in Ids, NEW k \in 1..(Mask - 1), Follows(a, b, k)
    PROVE  a # b
  BY Width DEF Ids, Follows

\* A chain may lose its first link.
LEMMA ChainTail ==
    ASSUME NEW seq \in Seq(Ids), seq # <<>>, NEW next \in Ids, Chain(seq, next)
    PROVE  Tail(seq) \in Seq(Ids) /\ Chain(Tail(seq), next)
<1>1. /\ Tail(seq) \in Seq(Ids) /\ Len(Tail(seq)) = Len(seq) - 1 /\ Len(seq) \in Nat
      /\ \A i \in 1..Len(Tail(seq)) : Tail(seq)[i] = seq[i + 1]
  OBVIOUS
<1>2. ASSUME NEW i \in 1..Len(Tail(seq))
      PROVE  Follows(Tail(seq)[i], next, Len(Tail(seq)) + 1 - i)
  <2>1. i + 1 \in 1..Len(seq)
    BY <1>1
  <2>2. Len(seq) + 1 - (i + 1) = Len(Tail(seq)) + 1 - i
    <3>1. PICK n \in Nat : n = Len(seq) /\ Len(Tail(seq)) = n - 1
      BY <1>1
    <3>2. i \in Nat
      BY <1>1
    <3>3. n + 1 - (i + 1) = (n - 1) + 1 - i
      BY <3>2
    <3>4. QED
      BY <3>1, <3>3
  <2>3. QED
    BY <1>1, <2>1, <2>2 DEF Chain
<1>3. ASSUME NEW i \in 1..Len(Tail(seq)), NEW j \in i..Len(Tail(seq))
      PROVE  Follows(Tail(seq)[i], Tail(seq)[j], j - i)
  <2>1. i \in Nat /\ j \in Nat /\ j \in 1..Len(Tail(seq))
    BY <1>1
  <2>2. i + 1 \in 1..Len(seq) /\ j + 1 \in (i + 1)..Len(seq)
    BY <1>1, <2>1
  <2>3. (j + 1) - (i + 1) = j - i
    BY <2>1
  <2>4. QED
    BY <1>1, <2>1, <2>2, <2>3 DEF Chain
<1>4. QED
  BY <1>1, <1>2, <1>3 DEF Chain

\* A chain may grow by the identifier that comes next.
LEMMA ChainAppend ==
    ASSUME NEW seq \in Seq(Ids), Len(seq) < Mask, NEW next \in Ids, Chain(seq, next)
    PROVE  /\ Append(seq, next) \in Seq(Ids)
           /\ Chain(Append(seq, next), Successor(next))
<1> DEFINE longer == Append(seq, next)
<1>1. /\ longer \in Seq(Ids) /\ Len(longer) = Len(seq) + 1 /\ Len(seq) \in Nat
      /\ longer[Len(seq) + 1] = next
      /\ \A i \in 1..Len(seq) : longer[i] = seq[i] /\ seq[i] \in Ids
  OBVIOUS
<1>2. ASSUME NEW i \in 1..Len(longer)
      PROVE  Follows(longer[i], Successor(next), Len(longer) + 1 - i)
  <2>1. CASE i = Len(seq) + 1
    <3>1. Follows(next, next, 0)
      BY Width DEF Follows, Ids
    <3>2. Follows(next, Successor(next), 0 + 1)
      BY <3>1, OneStepOn, Width
    <3>3. QED
      BY <1>1, <2>1, <3>2
  <2>2. CASE i \in 1..Len(seq)
    <3>1. Follows(seq[i], next, Len(seq) + 1 - i)
      BY <2>2 DEF Chain
    <3>2. Len(seq) + 1 - i \in Nat /\ Len(seq) + 1 - i < Mask
      BY <1>1, <2>2, Width
    <3>3. Follows(seq[i], Successor(next), (Len(seq) + 1 - i) + 1)
      BY <1>1, <2>2, <3>1, <3>2, OneStepOn
    <3>4. (Len(seq) + 1 - i) + 1 = Len(longer) + 1 - i
      BY <1>1
    <3>5. QED
      BY <1>1, <2>2, <3>3, <3>4
  <2>3. QED
    BY <1>1, <2>1, <2>2
<1>3. ASSUME NEW i \in 1..Len(longer), NEW j \in i..Len(longer)
      PROVE  Follows(longer[i], longer[j], j - i)
  <2>1. CASE j \in i..Len(seq)
    BY <1>1, <2>1 DEF Chain
  <2>2. CASE j = Len(seq) + 1 /\ i \in 1..Len(seq)
    BY <1>1, <2>2 DEF Chain
  <2>3. CASE j = Len(seq) + 1 /\ i = j
    BY <1>1, <2>3, Width DEF Follows, Ids
  <2>4. QED
    BY <1>1, <2>1, <2>2, <2>3
<1>4. QED
  BY <1>1, <1>2, <1>3 DEF Chain

\* What is recorded stays a chain.
LEMMA RecordedIsChain ==
    ASSUME NEW seq \in Seq(Ids), Len(seq) <= Mask, NEW next \in Ids, Chain(seq, next)
    PROVE  /\ Recorded(seq, next) \in Seq(Ids)
           /\ Len(Recorded(seq, next)) <= Mask
           /\ Chain(Recorded(seq, next), Successor(next))
<1>1. CASE Len(seq) < Mask
  BY <1>1, ChainAppend, Width DEF Recorded
<1>2. CASE Len(seq) = Mask
  <2>1. seq # <<>>
    BY <1>2, Width
  <2>2. /\ Tail(seq) \in Seq(Ids) /\ Chain(Tail(seq), next)
        /\ Len(Tail(seq)) = Mask - 1
    BY <1>2, <2>1, ChainTail
  <2>3. Len(Append(Tail(seq), next)) = Mask
    BY <2>2, Width
  <2>4. Recorded(seq, next) = Append(Tail(seq), next)
    BY <1>2, Width DEF Recorded
  <2>5. /\ Append(Tail(seq), next) \in Seq(Ids)
        /\ Chain(Append(Tail(seq), next), Successor(next))
    <3>1. Len(Tail(seq)) < Mask
      BY <2>2, Width
    <3>2. QED
      BY <2>2, <3>1, ChainAppend
  <2>6. QED
    BY <2>3, <2>4, <2>5, Width
<1>3. QED
  BY <1>1, <1>2, Width

-----------------------------------------------------------------------------
(* The invariant.                                                           *)

LEMMA InitInv == Init => IdsInv
<1> SUFFICES ASSUME Init PROVE IdsInv
  OBVIOUS
<1>1. TypeOK
  <2>1. <<>> \in Seq(0..Mask) /\ Len(<<>>) = 0
    OBVIOUS
  <2>2. QED
    BY <2>1, Width DEF Init, TypeOK
<1>2. Locked
  BY NoThreadAssumption DEF Init, Locked
<1>3. Advancing
  BY DEF Init, Advancing, Ids
<1>4. recent \in Seq(Ids) /\ Chain(recent, Coming)
  BY DEF Init, Chain
<1>5. QED
  BY <1>1, <1>2, <1>3, <1>4 DEF IdsInv

\* A step that gives no identifier leaves the next one as it is.
LEMMA StepInv == IdsInv /\ [Next]_vars => IdsInv'
<1> SUFFICES ASSUME IdsInv, [Next]_vars PROVE IdsInv'
  OBVIOUS
<1> USE DEF IdsInv
<1>1. CASE UNCHANGED vars
  BY <1>1 DEF vars, TypeOK, Locked, Advancing, Coming
<1> SUFFICES ASSUME NEW t \in Threads,
                    Enter(t) \/ Take(t) \/ Advance(t) \/ Wrap(t) \/ Return(t)
             PROVE  IdsInv'
  BY <1>1 DEF Next
<1>2. t # NoThread
  BY NoThreadAssumption
<1>3. \A u \in Threads : u # t => pc'[u] = pc[u] /\ result'[u] = result[u]
  BY DEF Enter, Take, Advance, Wrap, Return, Move, TypeOK
<1>4. CASE Enter(t)
  <2>1. Coming' = Coming /\ recent' = recent
    BY <1>2, <1>4 DEF Enter, Move, TypeOK, Coming
  <2>2. TypeOK'
    BY <1>4 DEF Enter, Move, TypeOK
  <2>3. Locked'
    <3>1. \A u \in Threads : pc[u] = "idle"
      BY <1>4, NoThreadAssumption DEF Enter, Locked
    <3>2. lock' = t /\ pc'[t] = "enter"
      BY <1>4 DEF Enter, Move, TypeOK
    <3>3. QED
      BY <1>3, <3>1, <3>2 DEF Locked
  <2>4. Advancing'
    BY <1>2, <1>3, <1>4 DEF Enter, Move, TypeOK, Advancing
  <2>5. QED
    BY <2>1, <2>2, <2>3, <2>4
<1> SUFFICES ASSUME Take(t) \/ Advance(t) \/ Wrap(t) \/ Return(t)
             PROVE  IdsInv'
  BY <1>4
<1>5. lock = t
  BY DEF Take, Advance, Wrap, Return, Move, Locked
<1>6. \A u \in Threads : u # t => pc[u] = "idle" /\ pc'[u] = "idle"
  BY <1>3, <1>5 DEF Locked
<1>7. CASE Take(t)
  <2>1. result'[t] = value /\ value \in Ids /\ pc'[t] = "advance"
    BY <1>7 DEF Take, Move, TypeOK, Advancing
  <2>2. Coming' = Coming /\ recent' = recent
    BY <1>2, <1>5, <1>7, <2>1 DEF Take, Move, Coming
  <2>3. TypeOK'
    BY <1>7 DEF Take, Move, TypeOK
  <2>4. Locked'
    BY <1>2, <1>5, <1>6, <1>7, <2>1 DEF Take, Locked
  <2>5. Advancing'
    BY <1>2, <1>5, <1>6, <1>7, <2>1 DEF Take, Advancing
  <2>6. QED
    BY <2>2, <2>3, <2>4, <2>5
<1>8. CASE Advance(t)
  <2>1. result[t] \in Ids /\ value = result[t] /\ pc'[t] = "wrap" /\ result' = result
    BY <1>8 DEF Advance, Move, TypeOK, Advancing
  <2>2. Coming' = Coming /\ recent' = recent
    BY <1>2, <1>5, <1>8, <2>1 DEF Advance, Move, Coming
  <2>3. TypeOK'
    BY <1>8, <2>1, MaskedIsSuccessor DEF Advance, Move, TypeOK
  <2>4. Locked'
    BY <1>2, <1>5, <1>6, <1>8, <2>1 DEF Advance, Locked
  <2>5. Advancing'
    BY <1>2, <1>5, <1>6, <1>8, <2>1 DEF Advance, Advancing
  <2>6. QED
    BY <2>2, <2>3, <2>4, <2>5
<1>9. CASE Wrap(t)
  <2>1. result[t] \in Ids /\ value = Masked(result[t] + 1) /\ pc'[t] = "return"
        /\ result' = result
    BY <1>9 DEF Wrap, Move, TypeOK, Advancing
  <2>2. value' = Successor(result[t])
    BY <1>9, <2>1, MaskedIsSuccessor DEF Wrap
  <2>3. Coming' = Coming /\ recent' = recent
    BY <1>2, <1>5, <1>9, <2>1 DEF Wrap, Move, Coming
  <2>4. TypeOK'
    BY <1>9, <2>1, <2>2, SuccessorIsId, Width DEF Wrap, Move, TypeOK, Ids
  <2>5. Locked'
    BY <1>2, <1>5, <1>6, <1>9, <2>1 DEF Wrap, Locked
  <2>6. Advancing'
    BY <1>2, <1>5, <1>6, <1>9, <2>1, <2>2 DEF Wrap, Advancing
  <2>7. QED
    BY <2>3, <2>4, <2>5, <2>6
<1>10. CASE Return(t)
  <2>1. /\ result[t] \in Ids /\ value = Successor(result[t]) /\ pc'[t] = "idle"
        /\ Coming = result[t]
    BY <1>2, <1>5, <1>10 DEF Return, Move, TypeOK, Advancing, Coming
  <2>2. /\ lock' = NoThread /\ value' = value /\ result' = result
        /\ recent' = Recorded(recent, result[t])
    BY <1>10 DEF Return
  <2>3. Coming' = Successor(result[t])
    BY <2>1, <2>2 DEF Coming
  <2>4. /\ recent' \in Seq(Ids) /\ Len(recent') <= Mask
        /\ Chain(recent', Coming')
    BY <2>1, <2>2, <2>3, RecordedIsChain DEF TypeOK
  <2>5. recent' \in Seq(0..Mask)
    BY <2>4, Width DEF Ids
  <2>6. TypeOK'
    BY <1>10, <2>2, <2>4, <2>5 DEF Return, Move, TypeOK
  <2>7. Locked'
    BY <1>6, <2>1, <2>2, NoThreadAssumption DEF Locked
  <2>8. Advancing'
    BY <1>6, <2>1, <2>2, SuccessorIsId DEF Advancing
  <2>9. QED
    BY <2>4, <2>6, <2>7, <2>8
<1>11. QED
  BY <1>7, <1>8, <1>9, <1>10

\* The identifiers follow one another round and round, for any number of
\* threads and any width (request_ids.py:17-23).
THEOREM Invariance == Spec => []IdsInv
  BY InitInv, StepInv, PTL DEF Spec

\* The counter never leaves its width.
THEOREM TypeCorrect == Spec => []TypeOK
<1>1. IdsInv => TypeOK
  BY DEF IdsInv
<1>2. QED
  BY <1>1, Invariance, PTL

\* No identifier is given twice in a row of 2^bits - 1, and none is zero
\* (request_ids.py:8, 17-23).
THEOREM Distinctness == Spec => []DistinctNonZero
<1>1. IdsInv => DistinctNonZero
  <2> SUFFICES ASSUME IdsInv PROVE DistinctNonZero
    OBVIOUS
  <2>1. recent \in Seq(Ids) /\ Len(recent) \in Nat /\ Len(recent) <= Mask
    BY DEF IdsInv, TypeOK
  <2>2. \A i \in 1..Len(recent) : recent[i] \in Ids
    BY <2>1
  <2>3. ASSUME NEW i \in 1..Len(recent), NEW j \in 1..Len(recent), i < j
        PROVE  recent[i] # recent[j]
    <3>1. j - i \in 1..(Mask - 1) /\ j \in i..Len(recent)
      BY <2>1, <2>3, Width
    <3>2. Follows(recent[i], recent[j], j - i)
      BY <3>1 DEF IdsInv, Chain
    <3>3. QED
      BY <2>2, <3>1, <3>2, NeverTwice
  <2>4. ASSUME NEW i \in 1..Len(recent), NEW j \in 1..Len(recent), recent[i] = recent[j]
        PROVE  i = j
    BY <2>1, <2>3, <2>4
  <2>5. QED
    BY <2>2, <2>4 DEF DistinctNonZero, Ids
<1>2. QED
  BY <1>1, Invariance, PTL
=============================================================================
