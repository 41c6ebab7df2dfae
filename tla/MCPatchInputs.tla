--------------------------- MODULE MCPatchInputs ----------------------------
(* Images and trackers for bounded instances of encoding, storing and     *)
(* applying a patch, made from a recipe per block.                        *)
EXTENDS PatchRoundTrip

\* The patch does not hold CRCs.
MCCrcOf == [b \in Block |-> 0]

\* A source in which blocks at different distances differ.
MCSrc == [p \in 0..SrcSize-1 |-> (p * p + p \div 3) % ByteMod]

State(m, s, o, d) ==
  [match_type |-> m, src_index |-> s, byte_offset |-> o, crc32 |-> 0, delta |-> d]

\* How block k of the destination is found: the kind of match and how far
\* away (in blocks for RELOCATE, in bytes for PARTIAL), with a delta.
RecipeState(r, k) ==
  LET pos == k * BlockSize + r.off
  IN IF r.kind = "RELOCATE" THEN State(r.kind, k + r.off, 0, NoDelta)
     ELSE IF r.kind = "IDENTITY" THEN State(r.kind, k, 0, NoDelta)
     ELSE IF r.kind = "PARTIAL"
          THEN State(r.kind, pos \div BlockSize, pos % BlockSize, r.delta)
     ELSE State(r.kind, 0, 0, NoDelta)

RecipeBlock(r, k) ==
  IF r.kind = "ZERO" THEN ZeroBlock
  ELSE IF r.kind = "ONE" THEN OneBlock
  ELSE IF r.kind = "NONE" THEN [q \in BlockPos |-> (k + 1 + q) % ByteMod]
  ELSE IF r.kind = "IDENTITY" THEN BlockAt(MCSrc, k * BlockSize)
  ELSE IF r.kind = "RELOCATE" THEN BlockAt(MCSrc, (k + r.off) * BlockSize)
  ELSE AddDelta(BlockAt(MCSrc, k * BlockSize + r.off), r.delta)

Possible(r, k) ==
  /\ r.kind = "RELOCATE" => k + r.off \in SrcIdx
  /\ r.kind = "IDENTITY" => k \in SrcIdx
  /\ r.kind = "PARTIAL" => FitsAt(k * BlockSize + r.off, SrcSize)

\* The input in which block k follows recipe plan[k].
InputOf(plan) ==
  [src |-> MCSrc,
   dest |-> [p \in 0..DestBlocks*BlockSize-1 |->
               RecipeBlock(plan[p \div BlockSize], p \div BlockSize)[p % BlockSize]],
   blocks |-> [k \in DestIdx |-> RecipeState(plan[k], k)]]

Recipe(kind, off, d) == [kind |-> kind, off |-> off, delta |-> d]

MCNone == {}
=============================================================================
