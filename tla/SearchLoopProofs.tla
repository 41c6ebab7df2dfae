-------------------------- MODULE SearchLoopProofs --------------------------
(***************************************************************************)
(* The loop of the block search returns what search_best says, for every   *)
(* image, block, range, threshold and prescreen.                           *)
(***************************************************************************)
EXTENDS SearchLoop, FiniteSetTheorems, TLAPS

\* Two blocks share at most all their bytes.
LEMMA CountBound ==
  ASSUME NEW a, NEW b
  PROVE  count_matches(a, b) \in Nat /\ count_matches(a, b) <= BlockSize
<1> DEFINE S == {k \in BlockPos : a[k] = b[k]}
<1>1. IsFiniteSet(BlockPos) /\ Cardinality(BlockPos) = BlockSize
  BY FS_Interval, BlockSizeAssumption DEF BlockPos
<1>2. IsFiniteSet(S) /\ Cardinality(S) <= Cardinality(BlockPos)
  BY <1>1, FS_Subset
<1>3. Cardinality(S) \in Nat
  BY <1>2, FS_CardinalityType
<1> QED
  BY <1>1, <1>2, <1>3 DEF count_matches

\* The search asks for at least one equal byte.
LEMMA ThresholdType == threshold_count \in Nat \ {0}
<1>1. (ThresholdNum * BlockSize) \div ThresholdDen \in Nat
  <2>1. ThresholdNum * BlockSize \in Nat
    BY ThresholdAssumption, BlockSizeAssumption
  <2>2. ThresholdDen \in Nat /\ ThresholdDen > 0
    BY ThresholdAssumption
  <2> QED
    BY <2>1, <2>2
<1> QED
  BY <1>1 DEF threshold_count

\* The count at offset o of the call, and the offsets up to hi that reach the
\* threshold.
CountAt(o) == count_matches(BlockAt(call.src, call.center + o), call.block)
Found(hi) == Qualifying(call.src, call.size, call.block, call.center, call.lo, hi)

\* Offset o with count c is the first best one up to hi, or nothing is.
IsBest(hi, o, c) ==
  \/ Found(hi) = {} /\ o = -1 /\ c = threshold_count - 1
  \/ /\ o \in Found(hi) /\ c = CountAt(o)
     /\ \A p \in Found(hi) : CountAt(p) < c \/ (CountAt(p) = c /\ o <= p)

\* The inductive invariant: the best offset so far, and, once the loop was
\* left, over the whole range.
LoopInv ==
  /\ TypeOK
  /\ call.lo <= offset /\ (offset <= call.hi + 1 \/ offset = call.lo)
  /\ best_count >= threshold_count - 1
  /\ IsBest(offset - 1, best_offset, best_count)
  /\ returned => IsBest(call.hi, best_offset, best_count)

\* IsBest says what search_best returns.
LEMMA BestIsReturned ==
  ASSUME NEW hi \in Int, TypeOK, NEW o \in Int, NEW c \in Nat, IsBest(hi, o, c)
  PROVE  [offset |-> o, count |-> c] =
           search_best(call.src, call.size, call.block, call.center, call.lo, hi)
<1> DEFINE best == BestOffset(call.src, call.size, call.block, call.center, call.lo, hi)
<1>1. CASE Found(hi) = {} /\ o = -1 /\ c = threshold_count - 1
  <2>1. best = {}
    BY <1>1 DEF BestOffset, Found
  <2> QED
    BY <1>1, <2>1 DEF search_best
<1>2. CASE /\ o \in Found(hi) /\ c = CountAt(o)
           /\ \A p \in Found(hi) : CountAt(p) < c \/ (CountAt(p) = c /\ o <= p)
  <2>1. best = {q \in Found(hi) : \A p \in Found(hi) :
                  CountAt(p) < CountAt(q) \/ (CountAt(p) = CountAt(q) /\ q <= p)}
    BY DEF BestOffset, Found, CountAt
  <2>2. o \in best
    BY <1>2, <2>1
  <2>3. \A q \in best : q = o
    <3> TAKE q \in best
    <3>1. q \in Found(hi) /\ q \in Int
      BY <2>1 DEF Found, Qualifying, TypeOK, Search
    <3>2. CountAt(q) \in Nat
      BY CountBound DEF CountAt
    <3>3. c < CountAt(q) \/ (c = CountAt(q) /\ q <= o)
      BY <1>2, <2>1
    <3>4. CountAt(q) < c \/ (CountAt(q) = c /\ o <= q)
      BY <1>2, <3>1
    <3> QED
      BY <3>1, <3>2, <3>3, <3>4
  <2>4. best = {o}
    BY <2>2, <2>3
  <2>5. (CHOOSE q \in best : TRUE) = o
    BY <2>4
  <2> HIDE DEF best
  <2>6. search_best(call.src, call.size, call.block, call.center, call.lo, hi)
          = [offset |-> o, count |-> CountAt(o)]
    BY <2>4, <2>5 DEF search_best, CountAt, best
  <2> QED
    BY <1>2, <2>6
<1> QED
  BY <1>1, <1>2 DEF IsBest

\* One more offset in the range adds that offset, if it qualifies.
LEMMA OneMore ==
  ASSUME TypeOK, offset >= call.lo
  PROVE  Found(offset) = Found(offset - 1) \cup
           (IF /\ Screened(call.src, call.size, call.block, src_pos)
               /\ CountAt(offset) >= threshold_count
            THEN {offset} ELSE {})
<1>1. call.lo \in Int /\ offset \in Int
  BY DEF TypeOK, Search
<1>2. call.lo..offset = (call.lo..(offset - 1)) \cup {offset}
  BY <1>1
<1> QED
  BY <1>2 DEF Found, Qualifying, CountAt, src_pos

\* Before the first offset nothing was found.
LEMMA InitLoopInv == Init => LoopInv
<1> SUFFICES ASSUME Init PROVE LoopInv
  OBVIOUS
<1>1. call \in Search /\ call.lo \in Int
  BY SearchesAssumption DEF Init, Search
<1>2. threshold_count - 1 \in Nat
  BY ThresholdType
<1>3. TypeOK
  <2>1. offset \in Int /\ best_offset \in Int /\ best_count \in Nat
    BY <1>1, <1>2 DEF Init
  <2>2. returned \in BOOLEAN
    BY DEF Init
  <2> QED
    BY <1>1, <2>1, <2>2 DEF TypeOK
<1>4. call.lo..(offset - 1) = {}
  BY <1>1 DEF Init
<1>5. Found(offset - 1) = {}
  BY <1>4 DEF Found, Qualifying
<1> QED
  BY <1>1, <1>2, <1>3, <1>5 DEF Init, LoopInv, IsBest

\* Trying one more offset keeps the best one, or makes the new one the best.
LEMMA StepBest ==
  ASSUME LoopInv, Skip \/ Count
  PROVE  IsBest(offset, best_offset', best_count')
<1> DEFINE c == CountAt(offset)
<1>1. /\ TypeOK /\ offset \in Int /\ best_offset \in Int /\ best_count \in Nat
      /\ call.lo <= offset /\ call.lo \in Int
  BY DEF LoopInv, TypeOK, Search
<1>2. c \in Nat /\ c <= BlockSize /\ c = match_count
  BY CountBound DEF CountAt, match_count, src_pos
<1>3. \A p \in Found(offset - 1) : p \in Int /\ p < offset /\ CountAt(p) \in Nat
                                   /\ CountAt(p) >= threshold_count
  BY <1>1, CountBound DEF Found, Qualifying, CountAt
<1>4. IsBest(offset - 1, best_offset, best_count)
  BY DEF LoopInv
<1>5. threshold_count \in Nat \ {0} /\ best_count >= threshold_count - 1
  BY ThresholdType DEF LoopInv
<1>6. \A p \in Found(offset - 1) : CountAt(p) <= best_count
  BY <1>1, <1>3, <1>4 DEF IsBest
<1>7. CASE Skip
  <2>1. Found(offset) = Found(offset - 1)
    BY <1>1, <1>7, OneMore DEF Skip
  <2> QED
    BY <1>4, <1>7, <2>1 DEF Skip, IsBest
<1>8. CASE Count /\ c > best_count
  <2>1. Found(offset) = Found(offset - 1) \cup {offset}
    BY <1>1, <1>2, <1>5, <1>8, OneMore DEF Count
  <2>2. best_offset' = offset /\ best_count' = c
    BY <1>2, <1>8 DEF Count
  <2>3. \A p \in Found(offset - 1) : CountAt(p) < c
    BY <1>1, <1>2, <1>3, <1>6, <1>8
  <2>4. \A p \in Found(offset) : CountAt(p) < c \/ (CountAt(p) = c /\ offset <= p)
    BY <1>1, <2>1, <2>3
  <2> QED
    BY <2>1, <2>2, <2>4 DEF IsBest
<1>9. CASE Count /\ ~(c > best_count)
  <2>1. UNCHANGED <<best_offset, best_count>>
    BY <1>2, <1>9 DEF Count
  <2>2. CASE c < threshold_count
    <3>1. ~(CountAt(offset) >= threshold_count)
      BY <1>2, <1>5, <2>2
    <3>2. Found(offset) = Found(offset - 1)
      BY <1>1, <3>1, OneMore
    <3> QED
      BY <1>4, <2>1, <3>2 DEF IsBest
  <2>3. CASE c >= threshold_count
    <3>1. Found(offset) = Found(offset - 1) \cup {offset}
      BY <1>1, <1>9, <2>3, OneMore DEF Count
    <3>2. best_count >= threshold_count
      BY <1>1, <1>2, <1>5, <1>9, <2>3
    <3>3. /\ best_offset \in Found(offset - 1) /\ best_count = CountAt(best_offset)
          /\ \A p \in Found(offset - 1) :
               CountAt(p) < best_count \/ (CountAt(p) = best_count /\ best_offset <= p)
      BY <1>4, <1>5, <3>2 DEF IsBest
    <3>4. best_offset < offset
      BY <1>3, <3>3
    <3>5. c < best_count \/ (c = best_count /\ best_offset <= offset)
      BY <1>1, <1>2, <1>9, <3>4
    <3>6. \A p \in Found(offset) :
            CountAt(p) < best_count \/ (CountAt(p) = best_count /\ best_offset <= p)
      BY <3>1, <3>3, <3>5
    <3> QED
      BY <2>1, <3>1, <3>3, <3>6 DEF IsBest
  <2> QED
    BY <1>2, <1>5, <2>2, <2>3
<1> QED
  BY <1>1, <1>2, <1>7, <1>8, <1>9

\* No offset after a perfect match is better.
LEMMA PerfectIsBest ==
  ASSUME TypeOK, NEW o \in Int, offset <= call.hi, o = offset,
         IsBest(offset, o, BlockSize), CountAt(o) = BlockSize,
         o \in Found(offset)
  PROVE  IsBest(call.hi, o, BlockSize)
<1>1. call.hi \in Int /\ call.lo \in Int /\ BlockSize \in Nat
  BY BlockSizeAssumption DEF TypeOK, Search
<1>2. \A p \in Found(offset) :
        CountAt(p) < BlockSize \/ (CountAt(p) = BlockSize /\ o <= p)
  <2>1. threshold_count \in Nat
    BY ThresholdType
  <2> QED
    BY <2>1 DEF IsBest
<1>3. \A p \in Found(call.hi) : p \in Found(offset) \/ (p \in Int /\ p > offset)
  BY <1>1 DEF Found, Qualifying
<1>4. o \in Found(call.hi)
  BY <1>1 DEF Found, Qualifying
<1>5. \A p \in Found(call.hi) : CountAt(p) \in Nat /\ CountAt(p) <= BlockSize
  BY CountBound DEF CountAt
<1>6. \A p \in Found(call.hi) :
        CountAt(p) < BlockSize \/ (CountAt(p) = BlockSize /\ o <= p)
  BY <1>1, <1>2, <1>3, <1>5
<1> QED
  BY <1>4, <1>6 DEF IsBest

\* Every step of the loop keeps the invariant.
LEMMA StepLoopInv == LoopInv /\ [Next]_vars => LoopInv'
<1> SUFFICES ASSUME LoopInv, [Next]_vars PROVE LoopInv'
  OBVIOUS
<1>1. /\ TypeOK /\ offset \in Int /\ best_offset \in Int /\ best_count \in Nat
      /\ call.lo \in Int /\ call.hi \in Int /\ returned \in BOOLEAN
      /\ call.lo <= offset /\ (offset <= call.hi + 1 \/ offset = call.lo)
  BY DEF LoopInv, TypeOK, Search
<1>2. CASE UNCHANGED vars
  BY <1>2 DEF vars, LoopInv, TypeOK, IsBest, Found, CountAt
<1>3. CASE LoopEnd
  <2>1. Found(call.hi) = Found(offset - 1)
    <3>1. call.lo..call.hi = call.lo..(offset - 1)
      BY <1>1, <1>3 DEF LoopEnd
    <3> QED
      BY <3>1 DEF Found, Qualifying
  <2>2. IsBest(call.hi, best_offset, best_count)
    BY <2>1 DEF LoopInv, IsBest
  <2>3. TypeOK'
    BY <1>1, <1>3 DEF LoopEnd, TypeOK
  <2> QED
    BY <1>3, <2>2, <2>3 DEF LoopEnd, LoopInv, IsBest, Found, CountAt
<1>4. CASE Skip \/ Count
  <2>1. IsBest(offset, best_offset', best_count')
    BY <1>4, StepBest
  <2>2. call' = call /\ offset' = offset + 1 /\ ~returned /\ offset <= call.hi
    BY <1>4 DEF Skip, Count, InLoop
  <2>3. match_count \in Nat /\ match_count <= BlockSize /\ match_count = CountAt(offset)
    BY CountBound DEF match_count, CountAt, src_pos
  <2>4. TypeOK'
    <3>1. best_offset' \in Int /\ best_count' \in Nat
      BY <1>1, <1>4, <2>3 DEF Skip, Count
    <3>2. returned' \in BOOLEAN
      BY <1>1, <1>4 DEF Skip, Count
    <3>3. offset' \in Int /\ call' \in Search
      BY <1>1, <2>2 DEF TypeOK
    <3> QED
      BY <3>1, <3>2, <3>3 DEF TypeOK
  <2>5. best_count' >= threshold_count - 1
    BY <1>1, <1>4, <2>3, ThresholdType DEF Skip, Count, LoopInv
  <2>6. ASSUME returned'
        PROVE  IsBest(call.hi, best_offset', best_count')
    <3>1. /\ best_count' = BlockSize /\ best_offset' = offset
          /\ CountAt(offset) = BlockSize
          /\ Screened(call.src, call.size, call.block, src_pos)
          /\ BlockSize > best_count
      BY <1>1, <1>4, <2>2, <2>3, <2>6 DEF Skip, Count
    <3>2. CountAt(offset) >= threshold_count
      BY <1>1, <3>1, ThresholdType, BlockSizeAssumption DEF LoopInv
    <3>3. offset \in Found(offset)
      BY <1>1, <3>1, <3>2 DEF Found, Qualifying, CountAt, src_pos
    <3> QED
      BY <1>1, <2>1, <2>2, <3>1, <3>3, PerfectIsBest
  <2>7. IsBest(offset' - 1, best_offset', best_count')
    <3>1. offset' - 1 = offset
      BY <1>1, <2>2
    <3> QED
      BY <2>1, <3>1
  <2> QED
    BY <1>1, <2>2, <2>4, <2>5, <2>6, <2>7, SMTT(60) DEF LoopInv, IsBest, Found, CountAt
<1> QED
  BY <1>2, <1>3, <1>4 DEF Next

\* The invariant of the loop holds in every state of the search.
THEOREM LoopInvariant == Spec => []LoopInv
  BY InitLoopInv, StepLoopInv, PTL DEF Spec

\* The loop of fsd_block_search_best returns the first of the offsets with
\* the highest count, the early exit included.
THEOREM SearchReturnsBest == Spec => []ReturnsBest
<1>1. LoopInv => ReturnsBest
  <2> SUFFICES ASSUME LoopInv PROVE ReturnsBest
    OBVIOUS
  <2>1. /\ TypeOK /\ offset - 1 \in Int /\ call.hi \in Int
        /\ best_offset \in Int /\ best_count \in Nat
    BY DEF LoopInv, TypeOK, Search
  <2>2. [offset |-> best_offset, count |-> best_count] =
          search_best(call.src, call.size, call.block, call.center, call.lo, offset - 1)
    BY <2>1, BestIsReturned DEF LoopInv
  <2>3. returned =>
          [offset |-> best_offset, count |-> best_count] =
            search_best(call.src, call.size, call.block, call.center, call.lo, call.hi)
    BY <2>1, BestIsReturned DEF LoopInv
  <2> QED
    BY <2>2, <2>3 DEF ReturnsBest
<1> QED
  BY <1>1, LoopInvariant, PTL
=============================================================================
