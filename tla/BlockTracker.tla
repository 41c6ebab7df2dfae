---------------------------- MODULE BlockTracker ----------------------------
(***************************************************************************)
(* The block tracker: per destination block the match a stage recorded,    *)
(* the bitmap of blocks still unmatched, and the counters per match type.  *)
(* Its operations are functions from a tracker to a tracker, because one   *)
(* step of a stage makes several of these calls.                           *)
(***************************************************************************)
EXTENDS ImageBlocks

CONSTANT NoDelta        \* delta == NULL

MatchType == {"NONE", "IDENTITY", "RELOCATE", "PARTIAL", "ZERO", "ONE"}

\* fsd_block_state_t; dest_index is the index of the array element.
BlockState ==
  [match_type : MatchType, src_index : Nat, byte_offset : Nat,
   crc32 : Nat, delta : Block \cup {NoDelta}]

\* The *_count fields; literal_count is the counter of "NONE".
Tracker ==
  [blocks : [DestIdx -> BlockState], unmatched : SUBSET DestIdx,
   counts : [MatchType -> Nat]]

\* calloc'd block states, every bit of the bitmap set.
tracker_create ==
  [blocks |-> [i \in DestIdx |->
                [match_type |-> "NONE", src_index |-> 0, byte_offset |-> 0,
                 crc32 |-> 0, delta |-> NoDelta]],
   unmatched |-> DestIdx,
   counts |-> [m \in MatchType |-> 0]]

is_unmatched(t, i) == i \in t.unmatched

\* Mutant: the bit of the block stays set.
set_match_keeps_bit(t, i, type, src) ==
  IF i \notin DestIdx \/ t.blocks[i].match_type # "NONE"
  THEN t
  ELSE [blocks |-> [t.blocks EXCEPT ![i] =
                      [@ EXCEPT !.match_type = type, !.src_index = src]],
        unmatched |-> t.unmatched,
        counts |-> IF type = "NONE" THEN t.counts
                   ELSE [t.counts EXCEPT ![type] = @ + 1]]

\* The first match wins: a block that has a match type keeps it.
set_match(t, i, type, src) ==
  IF i \notin DestIdx \/ t.blocks[i].match_type # "NONE"
  THEN t
  ELSE [blocks |-> [t.blocks EXCEPT ![i] =
                      [@ EXCEPT !.match_type = type, !.src_index = src]],
        unmatched |-> t.unmatched \ {i},
        counts |-> IF type = "NONE" THEN t.counts
                   ELSE [t.counts EXCEPT ![type] = @ + 1]]

set_crc32(t, i, crc) ==
  IF i \notin DestIdx THEN t
  ELSE [blocks |-> [t.blocks EXCEPT ![i] = [@ EXCEPT !.crc32 = crc]],
        unmatched |-> t.unmatched, counts |-> t.counts]

\* Not guarded by the match type: it overwrites what is there.
set_delta(t, i, offset, delta) ==
  IF i \notin DestIdx THEN t
  ELSE [blocks |-> [t.blocks EXCEPT ![i] =
                      [@ EXCEPT !.byte_offset = offset, !.delta = delta]],
        unmatched |-> t.unmatched, counts |-> t.counts]

\* What is left becomes a literal: counted, its bit cleared, its type NONE.
tracker_finalize(t) ==
  [blocks |-> t.blocks, unmatched |-> {},
   counts |-> [t.counts EXCEPT !["NONE"] = @ + Cardinality(t.unmatched)]]

\* The source position a block state points to.
MatchPos(b) == b.src_index * BlockSize + b.byte_offset

\* What the patch holds for a block of state b restores block i of image dst
\* from image src; a block without a match goes in literally.
Rebuilds(src, dst, b, i) ==
  LET d == BlockAt(dst, i * BlockSize)
  IN /\ b.match_type = "ZERO" => d = ZeroBlock
     /\ b.match_type = "ONE" => d = OneBlock
     /\ b.match_type = "IDENTITY" =>
          i < SrcBlocks /\ b.src_index = i /\ BlockAt(src, i * BlockSize) = d
     /\ b.match_type = "RELOCATE" =>
          b.src_index < SrcBlocks /\ BlockAt(src, b.src_index * BlockSize) = d
     /\ b.match_type = "PARTIAL" =>
          /\ b.delta \in Block
          /\ FitsAt(MatchPos(b), SrcSize)
          /\ AddDelta(BlockAt(src, MatchPos(b)), b.delta) = d
=============================================================================
