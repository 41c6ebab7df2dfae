---------------------------- MODULE BlockSearch ----------------------------
(***************************************************************************)
(* The byte-granular search for the source position that shares most bytes *)
(* with a destination block.  The loop of the code is stated by what it    *)
(* returns; SearchLoop compares it with the loop itself.                   *)
(***************************************************************************)
EXTENDS ImageBlocks

CONSTANTS
  ThresholdNum, ThresholdDen,   \* the threshold fraction, 0 < Num < Den
  PrescreenBlock,               \* smallest block the prescreen is used for (1024)
  PrescreenLen                  \* bytes in a prescreen window (128)

ASSUME ThresholdAssumption ==
  ThresholdNum \in Nat \ {0} /\ ThresholdDen \in Nat /\ ThresholdNum < ThresholdDen
ASSUME PrescreenAssumption ==
  /\ PrescreenBlock \in Nat /\ PrescreenLen \in Nat
  /\ BlockSize >= PrescreenBlock => 2 * PrescreenLen <= BlockSize

\* (size_t)(threshold * block_size), at least 1.
threshold_count ==
  LET t == (ThresholdNum * BlockSize) \div ThresholdDen
  IN IF t = 0 THEN 1 ELSE t

prescreen_mid == BlockSize \div 2
prescreen_min == (threshold_count * PrescreenLen) \div BlockSize
PrescreenOn == BlockSize >= PrescreenBlock /\ prescreen_min # 0

\* Equal bytes of the two sampled windows, at the start and in the middle.
PrescreenSample(a, b) ==
  Cardinality({k \in 0..PrescreenLen-1 : a[k] = b[k]})
  + Cardinality({k \in prescreen_mid..prescreen_mid+PrescreenLen-1 : a[k] = b[k]})

\* The candidate at src position pos is counted in full.
Screened(src, size, block, pos) ==
  /\ FitsAt(pos, size)
  /\ PrescreenOn => PrescreenSample(BlockAt(src, pos), block) >= prescreen_min

\* Offsets that reach the threshold.
Qualifying(src, size, block, center, lo, hi) ==
  {o \in lo..hi :
     /\ Screened(src, size, block, center + o)
     /\ count_matches(BlockAt(src, center + o), block) >= threshold_count}

\* The first offset of the sweep with the highest count.
BestOffset(src, size, block, center, lo, hi) ==
  LET Q == Qualifying(src, size, block, center, lo, hi)
      c(o) == count_matches(BlockAt(src, center + o), block)
  IN {o \in Q : \A p \in Q : c(p) < c(o) \/ (c(p) = c(o) /\ o <= p)}

\* fsd_block_search_best: offset -1 and a count below the threshold when no
\* candidate qualifies.
search_best(src, size, block, center, lo, hi) ==
  LET best == BestOffset(src, size, block, center, lo, hi)
      o == CHOOSE o \in best : TRUE
  IN IF best = {} THEN [offset |-> -1, count |-> threshold_count - 1]
     ELSE [offset |-> o, count |-> count_matches(BlockAt(src, center + o), block)]
=============================================================================
