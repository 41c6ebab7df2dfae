----------------------------- MODULE SearchLoop -----------------------------
(***************************************************************************)
(* The loop of fsd_block_search_best, one offset per step, with its early  *)
(* exit.  What it returns is compared with search_best.                    *)
(***************************************************************************)
EXTENDS BlockSearch

CONSTANT Searches      \* the calls considered

Search ==
  [src : SrcImage, size : 0..SrcSize, block : Block, center : Int, lo : Int, hi : Int]

ASSUME SearchesAssumption == Searches \subseteq Search

VARIABLES call, offset, best_offset, best_count, returned

vars == <<call, offset, best_offset, best_count, returned>>

Init ==
  /\ call \in Searches
  /\ offset = call.lo
  /\ best_offset = -1
  /\ best_count = threshold_count - 1
  /\ returned = FALSE

src_pos == call.center + offset

match_count == count_matches(BlockAt(call.src, src_pos), call.block)

InLoop == ~returned /\ offset <= call.hi

\* Out of bounds, or rejected by the prescreen.
Skip ==
  /\ InLoop /\ ~Screened(call.src, call.size, call.block, src_pos)
  /\ offset' = offset + 1
  /\ UNCHANGED <<call, best_offset, best_count, returned>>

\* Mutant: the last of the best offsets wins.
Count_last ==
  /\ InLoop /\ Screened(call.src, call.size, call.block, src_pos)
  /\ IF match_count >= best_count
     THEN /\ best_count' = match_count
          /\ best_offset' = offset
          /\ returned' = (match_count = BlockSize)
     ELSE UNCHANGED <<best_offset, best_count, returned>>
  /\ offset' = offset + 1
  /\ UNCHANGED call

Count ==
  /\ InLoop /\ Screened(call.src, call.size, call.block, src_pos)
  /\ IF match_count > best_count
     THEN /\ best_count' = match_count
          /\ best_offset' = offset
          /\ returned' = (match_count = BlockSize)
     ELSE UNCHANGED <<best_offset, best_count, returned>>
  /\ offset' = offset + 1
  /\ UNCHANGED call

LoopEnd ==
  /\ ~returned /\ offset > call.hi
  /\ returned' = TRUE
  /\ UNCHANGED <<call, offset, best_offset, best_count>>

Next == Skip \/ Count \/ LoopEnd

Spec == Init /\ [][Next]_vars

(***************************************************************************)
(* Properties                                                              *)
(***************************************************************************)
\* The loop variables have their types; the offset -1 stands for no match.
TypeOK ==
  /\ call \in Search
  /\ offset \in Int /\ best_offset \in Int
  /\ best_count \in Nat
  /\ returned \in BOOLEAN

\* The best offset and its count, found so far or returned, are those of
\* search_best over the offsets tried: the first of the offsets with the
\* highest count, or -1 with a count below the threshold.  Leaving at the
\* first perfect match loses nothing over the whole range.
ReturnsBest ==
  LET Over(hi) == search_best(call.src, call.size, call.block, call.center, call.lo, hi)
  IN /\ [offset |-> best_offset, count |-> best_count] = Over(offset - 1)
     /\ returned => [offset |-> best_offset, count |-> best_count] = Over(call.hi)
=============================================================================
