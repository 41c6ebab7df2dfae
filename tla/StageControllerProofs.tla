----------------------- MODULE StageControllerProofs -----------------------
(***************************************************************************)
(* The pipeline records only sound matches, whatever the images, the block *)
(* size, the hash function, the threshold and the search radius are.       *)
(***************************************************************************)
EXTENDS StageController, FiniteSetTheorems, WellFoundedInduction, TLAPS

(***************************************************************************)
(* Blocks, positions and deltas, and what each operation of the block      *)
(* tracker does to a well-typed tracker                                    *)
(***************************************************************************)
\* A byte position is the block index times the block size plus the offset
\* inside the block, both natural numbers.
LEMMA DivModFact ==
  ASSUME NEW pos \in Nat
  PROVE  /\ pos \div BlockSize \in Nat
         /\ pos % BlockSize \in Nat
         /\ pos % BlockSize < BlockSize
         /\ (pos \div BlockSize) * BlockSize + (pos % BlockSize) = pos
BY BlockSizeAssumption

\* Every whole block of the source lies inside the source image.
LEMMA SrcBlocksFit ==
  /\ SrcBlocks \in Nat
  /\ SrcBlocks * BlockSize <= SrcSize
  /\ \A i \in SrcIdx : i * BlockSize \in Nat /\ FitsAt(i * BlockSize, SrcBlocks * BlockSize)
BY BlockSizeAssumption, SrcSizeAssumption DEF SrcBlocks, SrcIdx, FitsAt

\* Adding the recorded difference to the source byte gives the destination
\* byte back, in arithmetic modulo the number of byte values.
LEMMA ByteDelta ==
  ASSUME NEW d \in Byte, NEW s \in Byte
  PROVE  /\ (d - s) % ByteMod \in Byte
         /\ (s + ((d - s) % ByteMod)) % ByteMod = d
BY ByteModAssumption DEF Byte

\* A block read at a position where it fits is a block of bytes.
LEMMA SrcBlockType ==
  ASSUME NEW img \in SrcImage, NEW pos \in Int, FitsAt(pos, SrcSize)
  PROVE  BlockAt(img, pos) \in Block
<1>1. \A k \in BlockPos : pos + k \in 0..SrcSize-1
  BY BlockSizeAssumption, SrcSizeAssumption DEF FitsAt, BlockPos
<1> QED
  BY <1>1 DEF SrcImage, Block, BlockAt

\* Every block of the destination lies inside the destination image.
LEMMA DestBlockType ==
  ASSUME NEW img \in DestImage, NEW i \in DestIdx
  PROVE  BlockAt(img, i * BlockSize) \in Block
<1>1. i * BlockSize \in Nat /\ (i + 1) * BlockSize <= DestBlocks * BlockSize
  BY BlockSizeAssumption, DestBlocksAssumption DEF DestIdx
<1>2. \A k \in BlockPos : i * BlockSize + k \in 0..DestBlocks*BlockSize-1
  BY <1>1, BlockSizeAssumption, DestBlocksAssumption DEF DestIdx, BlockPos
<1> QED
  BY <1>2 DEF DestImage, Block, BlockAt

\* The delta a stage records and the addition the decoder makes are inverse.
LEMMA DeltaRestores ==
  ASSUME NEW d \in Block, NEW s \in Block
  PROVE  /\ DeltaOf(d, s) \in Block
         /\ AddDelta(s, DeltaOf(d, s)) = d
<1>1. \A k \in BlockPos : d[k] \in Byte /\ s[k] \in Byte
  BY DEF Block
<1>2. DeltaOf(d, s) \in Block
  BY <1>1, ByteDelta DEF DeltaOf, Block
<1>3. \A k \in BlockPos : AddDelta(s, DeltaOf(d, s))[k] = d[k]
  BY <1>1, ByteDelta DEF DeltaOf, AddDelta
<1>4. d = [k \in BlockPos |-> d[k]]
  BY DEF Block
<1> QED
  BY <1>2, <1>3, <1>4 DEF AddDelta

\* A new tracker is well typed.
LEMMA CreateType == tracker_create \in Tracker
BY DEF tracker_create, Tracker, BlockState, MatchType

\* Tracker u is t with block i matched: type and source index are stored,
\* the bit is cleared and the counter of the type goes up by one.
MatchSet(t, u, i, type, s) ==
  /\ u \in Tracker
  /\ u.blocks = [t.blocks EXCEPT ![i] = u.blocks[i]]
  /\ u.blocks[i].match_type = type
  /\ u.blocks[i].src_index = s
  /\ u.unmatched = t.unmatched \ {i}
  /\ u.counts = [t.counts EXCEPT ![type] = @ + 1]

\* set_match on a block without a match.
LEMMA SetMatchEffect ==
  ASSUME NEW t \in Tracker, NEW i \in DestIdx, NEW type \in MatchType,
         type # "NONE", NEW s \in Nat, t.blocks[i].match_type = "NONE"
  PROVE  MatchSet(t, set_match(t, i, type, s), i, type, s)
<1> DEFINE b == [t.blocks[i] EXCEPT !.match_type = type, !.src_index = s]
           u == set_match(t, i, type, s)
<1>1. /\ t.blocks \in [DestIdx -> BlockState]
      /\ t.unmatched \in SUBSET DestIdx
      /\ t.counts \in [MatchType -> Nat]
  BY DEF Tracker
<1>2. t.blocks[i] \in BlockState
  BY <1>1
<1>3. b \in BlockState /\ b.match_type = type /\ b.src_index = s
  BY <1>2 DEF BlockState
<1>4. u = [blocks |-> [t.blocks EXCEPT ![i] = b],
           unmatched |-> t.unmatched \ {i},
           counts |-> [t.counts EXCEPT ![type] = @ + 1]]
  BY DEF set_match
<1> HIDE DEF b, u
<1>5. /\ u.blocks = [t.blocks EXCEPT ![i] = b]
      /\ u.unmatched = t.unmatched \ {i}
      /\ u.counts = [t.counts EXCEPT ![type] = @ + 1]
  BY <1>4
<1>6. u \in Tracker
  BY <1>1, <1>3, <1>4 DEF Tracker
<1>7. u.blocks[i] = b
  BY <1>1, <1>5
<1> QED
  BY <1>3, <1>5, <1>6, <1>7 DEF u, MatchSet

\* Tracker u is t with another CRC for block i.
CrcSet(t, u, i, crc) ==
  /\ u \in Tracker
  /\ u.blocks = [t.blocks EXCEPT ![i] = [@ EXCEPT !.crc32 = crc]]
  /\ u.unmatched = t.unmatched
  /\ u.counts = t.counts

\* set_crc32 changes the CRC of one block and nothing else.
LEMMA SetCrcEffect ==
  ASSUME NEW t \in Tracker, NEW i \in DestIdx, NEW crc \in Nat
  PROVE  CrcSet(t, set_crc32(t, i, crc), i, crc)
BY DEF set_crc32, Tracker, BlockState, CrcSet

\* Tracker u is t with another offset and delta for block i.
DeltaSet(t, u, i, o, d) ==
  /\ u \in Tracker
  /\ u.blocks = [t.blocks EXCEPT ![i] = u.blocks[i]]
  /\ u.blocks[i].match_type = t.blocks[i].match_type
  /\ u.blocks[i].src_index = t.blocks[i].src_index
  /\ u.blocks[i].byte_offset = o
  /\ u.blocks[i].delta = d
  /\ u.unmatched = t.unmatched
  /\ u.counts = t.counts

\* set_delta changes the offset and delta of one block and nothing else.
LEMMA SetDeltaEffect ==
  ASSUME NEW t \in Tracker, NEW i \in DestIdx, NEW o \in Nat, NEW d \in Block
  PROVE  DeltaSet(t, set_delta(t, i, o, d), i, o, d)
<1> DEFINE b == [t.blocks[i] EXCEPT !.byte_offset = o, !.delta = d]
           u == set_delta(t, i, o, d)
<1>1. t.blocks \in [DestIdx -> BlockState] /\ t.blocks[i] \in BlockState
  BY DEF Tracker
<1>2. /\ b \in BlockState /\ b.byte_offset = o /\ b.delta = d
      /\ b.match_type = t.blocks[i].match_type
      /\ b.src_index = t.blocks[i].src_index
  BY <1>1 DEF BlockState
<1>3. u = [blocks |-> [t.blocks EXCEPT ![i] = b],
           unmatched |-> t.unmatched, counts |-> t.counts]
  BY DEF set_delta
<1> HIDE DEF b, u
<1>4. u \in Tracker
  BY <1>1, <1>2, <1>3 DEF Tracker
<1>5. u.blocks[i] = b /\ u.blocks = [t.blocks EXCEPT ![i] = b]
  BY <1>1, <1>3
<1> QED
  BY <1>2, <1>3, <1>4, <1>5 DEF DeltaSet, u

(***************************************************************************)
(* Order                                                                   *)
(***************************************************************************)
\* A non-empty set of natural numbers has a least element.
LEMMA NatMin ==
  ASSUME NEW S \in SUBSET Nat, S # {}
  PROVE  \E p \in S : \A q \in S : p <= q
<1>1. IsWellFoundedOn(OpToRel(<, Nat), Nat)
  BY NatLessThanWellFounded, Zenon
<1>2. PICK p \in S : \A q \in S : ~(<<q, p>> \in OpToRel(<, Nat))
  BY <1>1, WFMin, Zenon
<1>3. \A q \in S : ~(q < p)
  BY <1>2, Zenon DEF OpToRel
<1> QED
  BY <1>3

(***************************************************************************)
(* The search                                                              *)
(***************************************************************************)
\* At least one equal byte is asked for.
LEMMA ThresholdPositive == threshold_count \in Nat \ {0}
BY ThresholdAssumption, BlockSizeAssumption DEF threshold_count

\* A search result that reaches the threshold is a position where a whole
\* block fits, with the count that belongs to it.
LEMMA SearchSound ==
  ASSUME NEW img, NEW size \in Int, NEW blk, NEW center \in Int,
         NEW lo \in Int, NEW hi \in Int,
         search_best(img, size, blk, center, lo, hi).count >= threshold_count
  PROVE  LET r == search_best(img, size, blk, center, lo, hi)
         IN /\ r.offset \in Int
            /\ FitsAt(center + r.offset, size)
            /\ r.count = count_matches(BlockAt(img, center + r.offset), blk)
<1> DEFINE r == search_best(img, size, blk, center, lo, hi)
           best == BestOffset(img, size, blk, center, lo, hi)
           o == CHOOSE o \in best : TRUE
<1>1. best # {}
  <2> SUFFICES ASSUME best = {} PROVE FALSE
    OBVIOUS
  <2>1. r.count = threshold_count - 1
    BY DEF search_best
  <2> QED
    BY <2>1, ThresholdPositive
<1>2. r = [offset |-> o, count |-> count_matches(BlockAt(img, center + o), blk)]
  BY <1>1 DEF search_best
<1>3. o \in best
  BY <1>1
<1>4. best \subseteq Qualifying(img, size, blk, center, lo, hi)
  BY DEF BestOffset
<1>5. o \in lo..hi /\ FitsAt(center + o, size)
  BY <1>3, <1>4 DEF Qualifying, Screened
<1> HIDE DEF o, best
<1> QED
  BY <1>2, <1>5

(***************************************************************************)
(* Recording a partial match                                               *)
(***************************************************************************)
\* The types of the images and of the tracker, all that the data part of a
\* step needs.
DataOK == src \in SrcImage /\ dest \in DestImage /\ tracker \in Tracker

\* A step that records a match for block i: the block had none, what is
\* recorded restores it, and bitmap and counters follow.
Recorded(u, i) ==
  /\ i \in DestIdx
  /\ tracker.blocks[i].match_type = "NONE"
  /\ u \in Tracker
  /\ u.blocks = [tracker.blocks EXCEPT ![i] = u.blocks[i]]
  /\ u.blocks[i].match_type # "NONE"
  /\ Restores(u.blocks[i], i)
  /\ SharesEnough(u.blocks[i], i)
  /\ u.unmatched = tracker.unmatched \ {i}
  /\ u.counts = [tracker.counts EXCEPT ![u.blocks[i].match_type] = @ + 1]

\* set_match and set_delta with the delta of the source bytes at pos record
\* a sound partial match.
LEMMA RecordPartialEffect ==
  ASSUME DataOK, NEW i \in DestIdx, NEW pos \in Int,
         tracker.blocks[i].match_type = "NONE",
         FitsAt(pos, SrcSize),
         count_matches(BlockAt(src, pos), DestBlock(i)) >= threshold_count
  PROVE  Recorded(record_partial(tracker, i, pos), i)
<1> DEFINE delta == DeltaOf(DestBlock(i), BlockAt(src, pos))
           m == set_match(tracker, i, "PARTIAL", pos \div BlockSize)
           u == record_partial(tracker, i, pos)
<1>1. pos \in Nat
  BY DEF FitsAt
<1>2. /\ pos \div BlockSize \in Nat /\ pos % BlockSize \in Nat
      /\ (pos \div BlockSize) * BlockSize + (pos % BlockSize) = pos
  BY <1>1, DivModFact
<1>3. BlockAt(src, pos) \in Block /\ DestBlock(i) \in Block
  BY SrcBlockType, DestBlockType DEF DataOK, DestBlock
<1>4. delta \in Block /\ AddDelta(BlockAt(src, pos), delta) = DestBlock(i)
  BY <1>3, DeltaRestores
<1> HIDE DEF delta
<1>5. MatchSet(tracker, m, i, "PARTIAL", pos \div BlockSize)
  BY <1>2, SetMatchEffect DEF DataOK, MatchType
<1> HIDE DEF m
<1>6. m \in Tracker
  BY <1>5 DEF MatchSet
<1>7. DeltaSet(m, set_delta(m, i, pos % BlockSize, delta), i, pos % BlockSize, delta)
  BY <1>2, <1>4, <1>6, SetDeltaEffect
<1>8. DeltaSet(m, u, i, pos % BlockSize, delta)
  BY <1>7 DEF record_partial, m, delta
<1> HIDE DEF u
<1>9. /\ u \in Tracker
      /\ u.blocks[i].match_type = "PARTIAL"
      /\ u.blocks[i].src_index = pos \div BlockSize
      /\ u.blocks[i].byte_offset = pos % BlockSize
      /\ u.blocks[i].delta = delta
      /\ u.unmatched = tracker.unmatched \ {i}
      /\ u.counts = [tracker.counts EXCEPT !["PARTIAL"] = @ + 1]
  BY <1>5, <1>8 DEF MatchSet, DeltaSet
<1>10. u.blocks = [tracker.blocks EXCEPT ![i] = u.blocks[i]]
  BY <1>5, <1>6, <1>8 DEF DataOK, Tracker, MatchSet, DeltaSet
<1>11. MatchPos(u.blocks[i]) = pos
  BY <1>2, <1>9 DEF MatchPos
<1>12. Restores(u.blocks[i], i)
  BY <1>4, <1>9, <1>11 DEF Restores, Rebuilds, DestBlock
<1>13. SharesEnough(u.blocks[i], i)
  BY <1>11 DEF SharesEnough
<1> QED
  BY <1>9, <1>10, <1>12, <1>13 DEF Recorded, u

(***************************************************************************)
(* The candidates of fsmap and partial                                     *)
(***************************************************************************)
\* SearchRange is an integer, and the partial stage stays inside the source.
LEMMA RangeFacts ==
  /\ SearchRange \in Int /\ -SearchRange \in Int
  /\ PartialSrcSize \in Int
  /\ \A pos \in Int : FitsAt(pos, PartialSrcSize) => FitsAt(pos, SrcSize)
<1>1. SearchRange \in Int /\ -SearchRange \in Int
  BY RadiusAssumption, BlockSizeAssumption DEF SearchRange
<1>2. PartialSrcSize \in Int /\ PartialSrcSize <= SrcSize
  BY SrcBlocksFit, BlockSizeAssumption DEF PartialSrcSize
<1> QED
  BY <1>1, <1>2, BlockSizeAssumption, SrcSizeAssumption DEF FitsAt

\* A candidate of fsmap that reaches the threshold is a whole block of the
\* source with that many equal bytes.
LEMMA FsmapCandidateSound ==
  ASSUME DataOK, NEW i \in DestIdx, NEW p \in Nat, FitsAt(p, SrcSize),
         fsmap_candidate(i, p).count >= threshold_count
  PROVE  LET c == fsmap_candidate(i, p)
         IN /\ c.pos \in Int
            /\ FitsAt(c.pos, SrcSize)
            /\ count_matches(BlockAt(src, c.pos), DestBlock(i)) >= threshold_count
<1> DEFINE c == fsmap_candidate(i, p)
           exact == count_matches(BlockAt(src, p), DestBlock(i))
           r == search_best(src, SrcSize, DestBlock(i), p, -SearchRange, SearchRange)
           shifted == /\ exact < BlockSize
                      /\ r.count > exact /\ r.offset # 0
                      /\ FitsAt(p + r.offset, SrcSize)
<1>1. c = IF shifted THEN [pos |-> p + r.offset, count |-> r.count]
          ELSE [pos |-> p, count |-> exact]
  BY DEF fsmap_candidate
<1>2. r.count >= threshold_count =>
        /\ r.offset \in Int
        /\ FitsAt(p + r.offset, SrcSize)
        /\ r.count = count_matches(BlockAt(src, p + r.offset), DestBlock(i))
  BY SearchSound, RangeFacts, SrcSizeAssumption
<1> HIDE DEF c, exact, r, shifted
<1>3. CASE shifted
  <2>1. c.pos = p + r.offset /\ c.count = r.count
    BY <1>1, <1>3
  <2> QED
    BY <2>1, <1>2 DEF c
<1>4. CASE ~shifted
  <2>1. c.pos = p /\ c.count = exact
    BY <1>1, <1>4
  <2> QED
    BY <2>1 DEF c, exact
<1> QED
  BY <1>3, <1>4

\* A candidate of the partial stage that lies inside the source reaches the
\* threshold.
LEMMA PartialCandidateSound ==
  ASSUME DataOK, NEW i \in DestIdx, FitsAt(partial_candidate(tracker, i), PartialSrcSize)
  PROVE  LET pos == partial_candidate(tracker, i)
         IN /\ pos \in Int
            /\ count_matches(BlockAt(src, pos), DestBlock(i)) >= threshold_count
<1> DEFINE own == i * BlockSize
           base == reloc_base(tracker, i)
           near == search_best(src, PartialSrcSize, DestBlock(i), own,
                               -SearchRange, SearchRange)
           after == search_best(src, PartialSrcSize, DestBlock(i), base, 0, SearchRange)
           prev == prev_was_relocated(tracker, i)
           pos == partial_candidate(tracker, i)
<1>1. pos = IF prev /\ Probe(i, base) THEN base
            ELSE IF Probe(i, own) THEN own
            ELSE IF near.count >= threshold_count THEN own + near.offset
            ELSE IF prev /\ after.count >= threshold_count THEN base + after.offset
            ELSE NoPos
  BY DEF partial_candidate
<1>2. own \in Int
  BY BlockSizeAssumption DEF DestIdx
<1>3. prev => base \in Int
  <2> SUFFICES ASSUME prev PROVE base \in Int
    OBVIOUS
  <2>1. i - 1 \in DestIdx
    BY DestBlocksAssumption DEF prev_was_relocated, DestIdx
  <2>2. tracker.blocks[i - 1].src_index \in Nat /\ tracker.blocks[i - 1].byte_offset \in Nat
    BY <2>1 DEF DataOK, Tracker, BlockState
  <2> QED
    BY <2>2, BlockSizeAssumption DEF reloc_base
<1>4. near.count >= threshold_count =>
        /\ near.offset \in Int
        /\ near.count = count_matches(BlockAt(src, own + near.offset), DestBlock(i))
  BY <1>2, SearchSound, RangeFacts
<1>5. prev /\ after.count >= threshold_count =>
        /\ after.offset \in Int
        /\ after.count = count_matches(BlockAt(src, base + after.offset), DestBlock(i))
  BY <1>3, SearchSound, RangeFacts
<1>6. quick_accept \in Nat /\ quick_accept >= threshold_count
  BY ThresholdPositive, BlockSizeAssumption DEF quick_accept
<1>7. \A p \in Int : count_matches(BlockAt(src, p), DestBlock(i)) \in Nat
  <2>1. IsFiniteSet(BlockPos)
    BY FS_Interval, BlockSizeAssumption DEF BlockPos
  <2>2. \A S \in SUBSET BlockPos : Cardinality(S) \in Nat
    BY <2>1, FS_Subset, FS_CardinalityType
  <2> QED
    BY <2>2 DEF count_matches
<1>8. \A p \in Int : Probe(i, p) =>
        count_matches(BlockAt(src, p), DestBlock(i)) >= threshold_count
  BY <1>6, <1>7, ThresholdPositive DEF Probe
<1>9. pos # NoPos
  BY DEF FitsAt, NoPos
<1> HIDE DEF own, base, near, after, prev, pos
<1> QED
  <2>1. CASE prev /\ Probe(i, base)
    BY <2>1, <1>1, <1>3, <1>8 DEF pos
  <2>2. CASE ~(prev /\ Probe(i, base)) /\ Probe(i, own)
    BY <2>2, <1>1, <1>2, <1>8 DEF pos
  <2>3. CASE /\ ~(prev /\ Probe(i, base)) /\ ~Probe(i, own)
             /\ near.count >= threshold_count
    BY <2>3, <1>1, <1>2, <1>4 DEF pos
  <2>4. CASE /\ ~(prev /\ Probe(i, base)) /\ ~Probe(i, own)
             /\ ~(near.count >= threshold_count)
    BY <2>4, <1>1, <1>3, <1>5, <1>9 DEF pos
  <2> QED
    BY <2>1, <2>2, <2>3, <2>4

(***************************************************************************)
(* The inductive invariant                                                 *)
(***************************************************************************)
\* Every hash entry names a source block.
TableOK ==
  \A b \in Bucket : \A p \in DOMAIN table[b] : table[b][p].block_index \in SrcIdx

\* Until identity has looked at a block, the block has no match.
FreshOK ==
  stage \in {"create", "identity"} =>
    \A i \in DestIdx : phase = "enter" \/ i >= cur =>
      tracker.blocks[i].match_type = "NONE"

\* The controller runs until it is done, and is in the middle of a stage
\* only in a stage.
ControlOK ==
  /\ stage = "done" <=> result # "running"
  /\ stage \in {"create", "finalize"} => phase = "enter"

\* Literals are counted only by finalize.
LiteralOK == result # "SUCCESS" => tracker.counts["NONE"] = 0

\* The invariant that Next preserves.  Soundness of the matches needs the
\* bitmap to agree with the match types (StatsExact), because set_delta is
\* not guarded, and the hash entries to be in range.
IInv ==
  /\ TypeOK
  /\ ControlOK
  /\ TableOK
  /\ FreshOK
  /\ LiteralOK
  /\ StatsExact
  /\ MatchSound
  /\ PartialMeetsThreshold

\* The ways a step may change the tracker.
TrackerStep ==
  \/ tracker' = tracker
  \/ \E i \in DestIdx : Recorded(tracker', i)
  \/ IdentityBlock /\ \E i \in DestIdx, crc \in Nat :
       tracker.blocks[i].match_type = "NONE" /\ CrcSet(tracker, tracker', i, crc)
  \/ Finalize

\* An unmatched block of a running pipeline has no match.
LEMMA UnmatchedIsNone ==
  ASSUME IInv, Running, NEW i, is_unmatched(tracker, i)
  PROVE  i \in DestIdx /\ tracker.blocks[i].match_type = "NONE"
BY DEF IInv, StatsExact, OfType, Running, is_unmatched

\* Identity records a zero, one or identity match, or only a CRC.
LEMMA IdentityStep == IInv /\ IdentityBlock => TrackerStep
<1> SUFFICES ASSUME IInv, IdentityBlock PROVE TrackerStep
  OBVIOUS
<1> DEFINE d == DestBlock(cur)
<1>1. /\ DataOK /\ cur \in DestIdx /\ tracker \in Tracker
      /\ tracker.blocks[cur].match_type = "NONE"
      /\ tracker' = identity_match(tracker, cur)
  BY DestBlocksAssumption
     DEF IInv, TypeOK, DataOK, FreshOK, IdentityBlock, RunningBlock, NextBlock, DestIdx
<1>2. d \in Block
  BY <1>1, DestBlockType DEF DataOK, DestBlock
<1>3. \A type \in MatchType \ {"NONE", "PARTIAL"}, s \in Nat :
        /\ tracker' = set_match(tracker, cur, type, s)
        /\ type = "ZERO" => d = ZeroBlock
        /\ type = "ONE" => d = OneBlock
        /\ type = "IDENTITY" => cur < SrcBlocks /\ s = cur /\ SrcBlock(cur) = d
        /\ type # "RELOCATE"
        => Recorded(tracker', cur)
  <2> TAKE type \in MatchType \ {"NONE", "PARTIAL"}, s \in Nat
  <2> HAVE /\ tracker' = set_match(tracker, cur, type, s)
           /\ type = "ZERO" => d = ZeroBlock
           /\ type = "ONE" => d = OneBlock
           /\ type = "IDENTITY" => cur < SrcBlocks /\ s = cur /\ SrcBlock(cur) = d
           /\ type # "RELOCATE"
  <2>1. MatchSet(tracker, tracker', cur, type, s)
    BY <1>1, SetMatchEffect, Zenon
  <2>2. tracker'.blocks[cur].match_type = type /\ tracker'.blocks[cur].src_index = s
    BY <2>1 DEF MatchSet
  <2>3. Restores(tracker'.blocks[cur], cur)
    BY <2>2 DEF Restores, Rebuilds, SrcBlock, DestBlock
  <2>4. SharesEnough(tracker'.blocks[cur], cur)
    BY <2>2 DEF SharesEnough
  <2> QED
    BY <1>1, <2>1, <2>2, <2>3, <2>4 DEF Recorded, MatchSet
<1>4. CASE is_zero_block(d)
  <2>1. tracker' = set_match(tracker, cur, "ZERO", 0)
    BY <1>1, <1>4 DEF identity_match
  <2> QED
    BY <2>1, <1>1, <1>3, <1>4 DEF is_zero_block, MatchType, TrackerStep
<1>5. CASE ~is_zero_block(d) /\ is_one_block(d)
  <2>1. tracker' = set_match(tracker, cur, "ONE", 0)
    BY <1>1, <1>5 DEF identity_match
  <2> QED
    BY <2>1, <1>1, <1>3, <1>5 DEF is_one_block, MatchType, TrackerStep
<1>6. CASE ~is_zero_block(d) /\ ~is_one_block(d) /\ cur < SrcBlocks /\ SrcBlock(cur) = d
  <2>1. tracker' = set_match(tracker, cur, "IDENTITY", cur)
    BY <1>1, <1>6 DEF identity_match
  <2>2. cur \in Nat
    BY <1>1, DestBlocksAssumption DEF DestIdx
  <2> QED
    BY <2>1, <2>2, <1>1, <1>3, <1>6 DEF MatchType, TrackerStep
<1>7. CASE ~is_zero_block(d) /\ ~is_one_block(d) /\ ~(cur < SrcBlocks /\ SrcBlock(cur) = d)
  <2>1. tracker' = set_crc32(tracker, cur, CrcOf[d])
    BY <1>1, <1>7 DEF identity_match
  <2>2. CrcOf[d] \in Nat
    BY <1>2, CrcAssumption
  <2>3. CrcSet(tracker, tracker', cur, CrcOf[d])
    BY <2>1, <2>2, <1>1, SetCrcEffect, Zenon
  <2> QED
    BY <2>2, <2>3, <1>1 DEF TrackerStep
<1> QED
  BY <1>4, <1>5, <1>6, <1>7

\* Relocation records a source block that equals the destination block.
LEMMA RelocationStep == IInv /\ RelocationBlock => TrackerStep
<1> SUFFICES ASSUME IInv, RelocationBlock PROVE TrackerStep
  OBVIOUS
<1> DEFINE hits == RelocationHits(cur)
           first == CHOOSE p \in hits : \A q \in hits : p <= q
           chain == table[hash_to_bucket(tracker.blocks[cur].crc32)]
           s == chain[first].block_index
<1>1. /\ tracker \in Tracker /\ cur \in DestIdx /\ Running
      /\ tracker' = relocation_match(tracker, cur)
  BY DestBlocksAssumption
     DEF IInv, TypeOK, RelocationBlock, RunningBlock, NextBlock, DestIdx
<1>2. CASE ~(is_unmatched(tracker, cur) /\ hits # {})
  BY <1>1, <1>2 DEF relocation_match, TrackerStep
<1>3. CASE is_unmatched(tracker, cur) /\ hits # {}
  <2>1. tracker' = set_match(tracker, cur, "RELOCATE", s)
    BY <1>1, <1>3 DEF relocation_match
  <2>2. hash_to_bucket(tracker.blocks[cur].crc32) \in Bucket
    <3>1. tracker.blocks[cur].crc32 \in Nat
      BY <1>1 DEF Tracker, BlockState
    <3> QED
      BY <3>1, BucketAssumption DEF hash_to_bucket, Bucket
  <2>3. chain \in Seq(Entry)
    BY <2>2, SMTT(30) DEF IInv, TypeOK, Table
  <2>4. hits \subseteq DOMAIN chain
    BY DEF RelocationHits, VisitedFrom
  <2>5. first \in hits
    <3>1. hits \in SUBSET Nat
      BY <2>3, <2>4
    <3>2. \E p \in hits : \A q \in hits : p <= q
      BY <1>3, <3>1, NatMin
    <3> QED
      BY <3>2
  <2>6. s \in SrcIdx
    BY <2>2, <2>4, <2>5, SMTT(30) DEF IInv, TableOK
  <2>7. SrcBlock(s) = DestBlock(cur)
    BY <2>5, Zenon DEF RelocationHits
  <2>8. tracker.blocks[cur].match_type = "NONE"
    BY <1>1, <1>3, UnmatchedIsNone
  <2> HIDE DEF s
  <2>9. s \in Nat /\ s < SrcBlocks
    BY <2>6, SrcBlocksFit DEF SrcIdx
  <2>10. MatchSet(tracker, tracker', cur, "RELOCATE", s)
    BY <1>1, <2>1, <2>8, <2>9, SetMatchEffect DEF MatchType
  <2>11. /\ tracker'.blocks[cur].match_type = "RELOCATE"
         /\ tracker'.blocks[cur].src_index = s
    BY <2>10 DEF MatchSet
  <2>12. Restores(tracker'.blocks[cur], cur)
    BY <2>7, <2>9, <2>11 DEF Restores, Rebuilds, SrcBlock, DestBlock
  <2>13. SharesEnough(tracker'.blocks[cur], cur)
    BY <2>11 DEF SharesEnough
  <2>14. Recorded(tracker', cur)
    BY <1>1, <2>8, <2>10, <2>11, <2>12, <2>13 DEF Recorded, MatchSet
  <2> QED
    BY <1>1, <2>14 DEF TrackerStep
<1> QED
  BY <1>2, <1>3

\* Fsmap records a partial match at a position of the source, or nothing.
LEMMA FsmapStep == IInv /\ FsmapBlock => TrackerStep
<1> SUFFICES ASSUME IInv, FsmapBlock PROVE TrackerStep
  OBVIOUS
<1> DEFINE c == fsmap_candidate(cur, hyps[cur])
<1>1. DataOK /\ cur \in DestIdx /\ Running
  BY DestBlocksAssumption
     DEF IInv, TypeOK, DataOK, FsmapBlock, FsmapRunning, RunningBlock, DestIdx
<1>2. hyps[cur] \in Nat /\ FitsAt(hyps[cur], SrcSize)
  BY DEF IInv, TypeOK, FsmapBlock
<1>3. \/ tracker' = tracker
      \/ /\ is_unmatched(tracker, cur)
         /\ c.count >= threshold_count
         /\ tracker' = record_partial(tracker, cur, c.pos)
  BY DEF FsmapBlock, NextBlock
<1>4. CASE tracker' = tracker
  BY <1>4 DEF TrackerStep
<1>5. CASE /\ is_unmatched(tracker, cur)
           /\ c.count >= threshold_count
           /\ tracker' = record_partial(tracker, cur, c.pos)
  <2>1. /\ c.pos \in Int /\ FitsAt(c.pos, SrcSize)
        /\ count_matches(BlockAt(src, c.pos), DestBlock(cur)) >= threshold_count
    BY <1>1, <1>2, <1>5, FsmapCandidateSound
  <2>2. tracker.blocks[cur].match_type = "NONE"
    BY <1>1, <1>5, UnmatchedIsNone
  <2> HIDE DEF c
  <2>3. Recorded(tracker', cur)
    BY <1>1, <1>5, <2>1, <2>2, RecordPartialEffect
  <2> QED
    BY <1>1, <2>3 DEF TrackerStep
<1> QED
  BY <1>3, <1>4, <1>5

\* The partial stage records a partial match at a position of the source.
LEMMA PartialStep == IInv /\ PartialMatch => TrackerStep
<1> SUFFICES ASSUME IInv, PartialMatch PROVE TrackerStep
  OBVIOUS
<1> DEFINE pos == partial_candidate(tracker, cur)
<1>1. DataOK /\ cur \in DestIdx /\ Running
  BY DestBlocksAssumption
     DEF IInv, TypeOK, DataOK, PartialMatch, RunningBlock, DestIdx
<1>2. /\ is_unmatched(tracker, cur)
      /\ FitsAt(pos, PartialSrcSize)
      /\ tracker' = record_partial(tracker, cur, pos)
  BY DEF PartialMatch
<1>3. /\ pos \in Int
      /\ count_matches(BlockAt(src, pos), DestBlock(cur)) >= threshold_count
  BY <1>1, <1>2, PartialCandidateSound
<1>4. FitsAt(pos, SrcSize)
  BY <1>2, <1>3, RangeFacts
<1>5. tracker.blocks[cur].match_type = "NONE"
  BY <1>1, <1>2, UnmatchedIsNone
<1> HIDE DEF pos
<1>6. Recorded(tracker', cur)
  BY <1>1, <1>2, <1>3, <1>4, <1>5, RecordPartialEffect
<1> QED
  BY <1>1, <1>6 DEF TrackerStep

\* The extension loop records a partial match at the same offset.
LEMMA ExtendStep == IInv /\ ExtendMatch => TrackerStep
<1> SUFFICES ASSUME IInv, ExtendMatch PROVE TrackerStep
  OBVIOUS
<1> DEFINE pos == ext_src_pos
<1>1. DataOK /\ ext \in DestIdx /\ Running /\ pos \in Int
  BY DestBlocksAssumption, BlockSizeAssumption
     DEF IInv, TypeOK, DataOK, ExtendMatch, Extend, ExtensionShares, Extending, DestIdx, ext_src_pos
<1>2. /\ is_unmatched(tracker, ext)
      /\ FitsAt(pos, PartialSrcSize)
      /\ count_matches(BlockAt(src, pos), DestBlock(ext)) >= threshold_count
      /\ tracker' = record_partial(tracker, ext, pos)
  BY DEF ExtendMatch, Extend, ExtensionShares
<1>3. FitsAt(pos, SrcSize)
  BY <1>1, <1>2, RangeFacts
<1>4. tracker.blocks[ext].match_type = "NONE"
  BY <1>1, <1>2, UnmatchedIsNone
<1> HIDE DEF pos
<1>5. Recorded(tracker', ext)
  BY <1>1, <1>2, <1>3, <1>4, RecordPartialEffect
<1> QED
  BY <1>1, <1>5 DEF TrackerStep

\* Counting one block of a type leaves the other counters alone.
LEMMA CountsGrow ==
  ASSUME NEW counts \in [MatchType -> Nat], NEW type \in MatchType
  PROVE  LET new == [counts EXCEPT ![type] = @ + 1]
         IN  new[type] = counts[type] + 1 /\ \A m \in MatchType : m # type => new[m] = counts[m]
OBVIOUS

\* Every step changes the tracker in one of these ways.
LEMMA StepChangesTracker == IInv /\ [Next]_vars => TrackerStep
<1> SUFFICES ASSUME IInv, [Next]_vars PROVE TrackerStep
  OBVIOUS
<1>1. CASE IdentityBlock
  BY <1>1, IdentityStep
<1>2. CASE RelocationBlock
  BY <1>2, RelocationStep
<1>3. CASE FsmapBlock
  BY <1>3, FsmapStep
<1>4. CASE PartialMatch
  BY <1>4, PartialStep
<1>5. CASE ExtendMatch
  BY <1>5, ExtendStep
<1>6. CASE Finalize
  BY <1>6 DEF TrackerStep
<1>7. CASE UNCHANGED vars
  BY <1>7, SMTT(30) DEF vars, TrackerStep
<1>8. CASE \/ Create \/ CreateRejected \/ CreateFailed \/ Cancel
           \/ SkipStage \/ EnterCancelled \/ StageDone
  BY <1>8, ZenonT(60) DEF Create, CreateRejected, CreateFailed, Cancel, SkipStage,
              EnterCancelled, StageDone, Return, TrackerStep
<1>9. CASE \/ EnterIdentity \/ EnterRelocation \/ EnterRelocationFailed
           \/ IndexBlock \/ IndexDone \/ EnterFsmap \/ EnterFsmapFailed
           \/ EnterPartial
  BY <1>9, ZenonT(60)
     DEF EnterIdentity, EnterRelocation, EnterRelocationFailed, IndexBlock,
              IndexDone, EnterFsmap, EnterFsmapFailed, EnterPartial, Begin,
              Return, TrackerStep
<1>10. CASE FsmapNoHypothesis \/ FsmapCancelled \/ PartialSkip \/ ExtendStop
  BY <1>10, ZenonT(60) DEF FsmapNoHypothesis, FsmapCancelled, PartialSkip, ExtendStop,
               NextBlock, Return, TrackerStep
<1> QED
  BY <1>1, <1>2, <1>3, <1>4, <1>5, <1>6, <1>7, <1>8, <1>9, <1>10
     DEF Next, Controller, Returned

\* No step writes an image.
LEMMA ImagesFixed == [Next]_vars => src' = src /\ dest' = dest
BY ZenonT(60)
   DEF Next, Controller, Returned, vars, Create, CreateRejected, CreateFailed, Cancel, SkipStage,
       EnterCancelled, StageDone, EnterIdentity, IdentityBlock, EnterRelocation,
       EnterRelocationFailed, IndexBlock, IndexDone, RelocationBlock, EnterFsmap,
       EnterFsmapFailed, FsmapNoHypothesis, FsmapCancelled, FsmapBlock,
       EnterPartial, PartialMatch, PartialSkip, ExtendMatch, Extend, ExtendStop,
       Finalize, Begin, Return, NextBlock

\* After a step a block has the state it had, or its first match, which is
\* sound, or no match still.
LEMMA BlockStep ==
  ASSUME IInv, [Next]_vars, NEW j \in DestIdx
  PROVE  \/ tracker'.blocks[j] = tracker.blocks[j]
         \/ /\ tracker.blocks[j].match_type = "NONE"
            /\ Restores(tracker'.blocks[j], j)
            /\ SharesEnough(tracker'.blocks[j], j)
<1>1. tracker.blocks \in [DestIdx -> BlockState]
  BY DEF IInv, TypeOK, Tracker
<1>2. TrackerStep
  BY StepChangesTracker
<1>3. CASE tracker' = tracker
  BY <1>3
<1>4. CASE \E i \in DestIdx : Recorded(tracker', i)
  <2>1. PICK i \in DestIdx : Recorded(tracker', i)
    BY <1>4
  <2>2. CASE i = j
    BY <2>1, <2>2 DEF Recorded
  <2>3. CASE i # j
    BY <2>1, <2>3, <1>1 DEF Recorded
  <2> QED
    BY <2>2, <2>3
<1>5. CASE \E i \in DestIdx, crc \in Nat :
             tracker.blocks[i].match_type = "NONE" /\ CrcSet(tracker, tracker', i, crc)
  <2>1. PICK i \in DestIdx, crc \in Nat :
          tracker.blocks[i].match_type = "NONE" /\ CrcSet(tracker, tracker', i, crc)
    BY <1>5
  <2>2. tracker'.blocks = [tracker.blocks EXCEPT ![i] = [@ EXCEPT !.crc32 = crc]]
    BY <2>1 DEF CrcSet
  <2>3. CASE i # j
    BY <2>2, <2>3, <1>1, SMTT(30)
  <2>4. CASE i = j
    <3>1. tracker'.blocks[j] = [tracker.blocks[j] EXCEPT !.crc32 = crc]
      BY <2>2, <2>4, <1>1
    <3>2. tracker'.blocks[j].match_type = "NONE"
      BY <3>1, <2>1, <2>4, <1>1, SMTT(30) DEF BlockState
    <3> QED
      BY <3>2, <2>1, <2>4, Zenon DEF Restores, Rebuilds, SharesEnough
  <2> QED
    BY <2>3, <2>4
<1>6. CASE Finalize
  BY <1>6 DEF Finalize, tracker_finalize
<1> QED
  BY <1>2, <1>3, <1>4, <1>5, <1>6 DEF TrackerStep

\* A step keeps the recorded matches sound and above the threshold.
LEMMA SoundPreserved ==
  IInv /\ [Next]_vars => MatchSound' /\ PartialMeetsThreshold'
<1> SUFFICES ASSUME IInv, [Next]_vars, NEW j \in DestIdx
             PROVE  Restores(tracker.blocks[j], j)' /\ SharesEnough(tracker.blocks[j], j)'
  BY DEF MatchSound, PartialMeetsThreshold
<1>1. src' = src /\ dest' = dest
  BY ImagesFixed
<1>2. Restores(tracker.blocks[j], j) /\ SharesEnough(tracker.blocks[j], j)
  BY DEF IInv, MatchSound, PartialMeetsThreshold
<1>3. Restores(tracker'.blocks[j], j) /\ SharesEnough(tracker'.blocks[j], j)
  BY <1>2, BlockStep
<1> QED
  BY <1>1, <1>3 DEF Restores, SharesEnough, SrcBlock, DestBlock

\* Only finalize makes the run a success, and a run that is over does not
\* touch the tracker.
LEMMA ResultStep ==
  [Next]_vars => /\ ~Finalize => (result' = "SUCCESS" <=> result = "SUCCESS")
                 /\ tracker' = tracker \/ result = "running"
<1> SUFFICES ASSUME [Next]_vars
             PROVE  /\ ~Finalize => (result' = "SUCCESS" <=> result = "SUCCESS")
                    /\ tracker' = tracker \/ result = "running"
  OBVIOUS
<1>1. CASE UNCHANGED vars
  BY <1>1, SMTT(30) DEF vars
<1>2. CASE Next
  BY <1>2, Zenon
     DEF Next, Controller, Returned, vars, Create, CreateRejected, CreateFailed, Cancel, SkipStage,
       EnterCancelled, StageDone, EnterIdentity, IdentityBlock, EnterRelocation,
       EnterRelocationFailed, IndexBlock, IndexDone, RelocationBlock, EnterFsmap,
       EnterFsmapFailed, FsmapNoHypothesis, FsmapCancelled, FsmapBlock,
       EnterPartial, PartialMatch, PartialSkip, ExtendMatch, Extend, ExtendStop,
       Finalize, Begin, Return, NextBlock, Running, AtEntry, Entering, Indexing,
       RunningBlock, FsmapRunning, Extending
<1> QED
  BY <1>1, <1>2

\* A step keeps bitmap and counters in agreement with the match types.
LEMMA StatsPreserved == IInv /\ [Next]_vars => StatsExact' /\ LiteralOK'
<1> SUFFICES ASSUME IInv, [Next]_vars PROVE StatsExact' /\ LiteralOK'
  OBVIOUS
<1>1. TrackerStep
  BY StepChangesTracker
<1>2. /\ tracker.blocks \in [DestIdx -> BlockState]
      /\ tracker.counts \in [MatchType -> Nat]
      /\ tracker.unmatched \in SUBSET DestIdx
  BY DEF IInv, TypeOK, Tracker
<1>3. IsFiniteSet(DestIdx)
  BY FS_Interval, DestBlocksAssumption DEF DestIdx
<1>4. \A m : OfType(m) \subseteq DestIdx /\ IsFiniteSet(OfType(m))
  BY <1>3, FS_Subset DEF OfType
<1>5. CASE tracker' = tracker /\ ~Finalize
  <2>1. result' = "SUCCESS" <=> result = "SUCCESS"
    BY <1>5, ResultStep
  <2> QED
    BY <1>5, <2>1 DEF IInv, StatsExact, LiteralOK, OfType
<1>6. CASE ~Finalize /\ \E i \in DestIdx : Recorded(tracker', i)
  <2>1. PICK i \in DestIdx : Recorded(tracker', i)
    BY <1>6, SMTT(30)
  <2>2. PICK type \in MatchType :
        /\ type = tracker'.blocks[i].match_type /\ type # "NONE"
        /\ tracker.blocks[i].match_type = "NONE"
        /\ tracker'.blocks = [tracker.blocks EXCEPT ![i] = tracker'.blocks[i]]
        /\ tracker'.unmatched = tracker.unmatched \ {i}
        /\ tracker'.counts = [tracker.counts EXCEPT ![type] = @ + 1]
    BY <2>1, Zenon DEF Recorded, Tracker, BlockState
  <2>3. result # "SUCCESS" /\ result' # "SUCCESS"
    BY <1>6, <2>2, ResultStep
  <2>4. \A j \in DestIdx : tracker'.blocks[j].match_type =
          IF j = i THEN type ELSE tracker.blocks[j].match_type
    BY <1>2, <2>2
  <2>5. OfType(type)' = OfType(type) \cup {i} /\ i \notin OfType(type)
    <3>1. \A j \in DestIdx : tracker'.blocks[j].match_type = type <=>
            tracker.blocks[j].match_type = type \/ j = i
      BY <2>4
    <3> QED
      BY <2>2, <3>1 DEF OfType
  <2>6. \A m : m # type /\ m # "NONE" => OfType(m)' = OfType(m)
    BY <2>2, <2>4 DEF OfType
  <2>7. OfType("NONE")' = OfType("NONE") \ {i}
    BY <2>2, <2>4 DEF OfType
  <2>8. Cardinality(OfType(type) \cup {i}) = Cardinality(OfType(type)) + 1
    BY <1>4, <2>5, FS_AddElement, Zenon
  <2>9. \A m \in MatchType \ {"NONE"} : tracker'.counts[m] = Cardinality(OfType(m)')
    <3> TAKE m \in MatchType \ {"NONE"}
    <3>1. tracker.counts[m] = Cardinality(OfType(m))
      BY DEF IInv, StatsExact
    <3>2. CASE m = type
      <4>1. tracker'.counts[type] = tracker.counts[type] + 1
        BY <1>2, <2>2, CountsGrow
      <4> QED
        BY <4>1, <2>5, <2>8, <3>1, <3>2, SMTT(30)
    <3>3. CASE m # type
      <4>1. OfType(m)' = OfType(m)
        BY <2>6, <3>3
      <4>2. tracker'.counts[m] = tracker.counts[m]
        BY <1>2, <2>2, <3>3, CountsGrow
      <4> QED
        BY <4>1, <4>2, <3>1
    <3> QED
      BY <3>2, <3>3
  <2>10. tracker'.unmatched = OfType("NONE")'
    BY <2>2, <2>3, <2>7 DEF IInv, StatsExact
  <2>11. tracker'.counts["NONE"] = 0
    BY <1>2, <2>2, <2>3 DEF IInv, LiteralOK, MatchType
  <2> QED
    BY <2>3, <2>9, <2>10, <2>11 DEF StatsExact, LiteralOK
<1>7. CASE /\ ~Finalize
           /\ \E i \in DestIdx, crc \in Nat :
                tracker.blocks[i].match_type = "NONE" /\ CrcSet(tracker, tracker', i, crc)
  <2>1. PICK i \in DestIdx, crc \in Nat : CrcSet(tracker, tracker', i, crc)
    BY <1>7
  <2>2. \A j \in DestIdx : tracker'.blocks[j].match_type = tracker.blocks[j].match_type
    <3> TAKE j \in DestIdx
    <3>1. tracker'.blocks[j] = IF j = i THEN [tracker.blocks[j] EXCEPT !.crc32 = crc]
                               ELSE tracker.blocks[j]
      BY <1>2, <2>1 DEF CrcSet
    <3> QED
      BY <1>2, <3>1 DEF BlockState
  <2>3. \A m : OfType(m)' = OfType(m)
    BY <2>2 DEF OfType
  <2>4. result' = "SUCCESS" <=> result = "SUCCESS"
    BY <1>7, ResultStep
  <2>5. tracker'.unmatched = tracker.unmatched /\ tracker'.counts = tracker.counts
    BY <2>1 DEF CrcSet
  <2> QED
    BY <2>3, <2>4, <2>5 DEF IInv, StatsExact, LiteralOK
<1>8. CASE Finalize
  <2>1. /\ result # "SUCCESS" /\ result' = "SUCCESS"
        /\ tracker'.blocks = tracker.blocks
        /\ tracker'.unmatched = {}
        /\ tracker'.counts = [tracker.counts EXCEPT !["NONE"] =
                                @ + Cardinality(tracker.unmatched)]
    BY <1>8 DEF Finalize, Running, tracker_finalize
  <2>2. \A m : OfType(m)' = OfType(m)
    BY <2>1 DEF OfType
  <2>3. /\ tracker.unmatched = OfType("NONE")
        /\ tracker.counts["NONE"] = 0
    BY <2>1 DEF IInv, StatsExact, LiteralOK
  <2>4. Cardinality(OfType("NONE")) \in Nat
    BY <1>4, FS_CardinalityType
  <2>5. tracker'.counts["NONE"] = Cardinality(OfType("NONE"))
    BY <1>2, <2>1, <2>3, <2>4 DEF MatchType
  <2>6. \A m \in MatchType \ {"NONE"} : tracker'.counts[m] = Cardinality(OfType(m))
    BY <1>2, <2>1 DEF IInv, StatsExact
  <2> QED
    BY <2>1, <2>2, <2>5, <2>6, SMTT(30) DEF StatsExact, LiteralOK
<1> QED
  BY <1>1, <1>5, <1>6, <1>7, <1>8 DEF TrackerStep

\* tracker_finalize counts the blocks that are left.
LEMMA FinalizeType ==
  ASSUME NEW t \in Tracker, Cardinality(t.unmatched) \in Nat
  PROVE  tracker_finalize(t) \in Tracker
<1>1. t.blocks \in [DestIdx -> BlockState] /\ t.counts \in [MatchType -> Nat]
  BY DEF Tracker
<1>2. [t.counts EXCEPT !["NONE"] = @ + Cardinality(t.unmatched)] \in [MatchType -> Nat]
  BY <1>1 DEF MatchType
<1> QED
  BY <1>1, <1>2 DEF tracker_finalize, Tracker

\* A step keeps the tracker well typed.
LEMMA TrackerTypePreserved == IInv /\ [Next]_vars => tracker' \in Tracker
<1> SUFFICES ASSUME IInv, [Next]_vars PROVE tracker' \in Tracker
  OBVIOUS
<1>1. tracker \in Tracker
  BY DEF IInv, TypeOK
<1>2. CASE Finalize
  <2>1. IsFiniteSet(tracker.unmatched)
    <3>1. tracker.unmatched \subseteq DestIdx
      BY <1>1 DEF Tracker
    <3>2. IsFiniteSet(DestIdx)
      BY FS_Interval, DestBlocksAssumption DEF DestIdx
    <3> QED
      BY <3>1, <3>2, FS_Subset
  <2>2. Cardinality(tracker.unmatched) \in Nat
    BY <2>1, FS_CardinalityType
  <2> QED
    BY <1>1, <1>2, <2>2, FinalizeType DEF Finalize
<1> QED
  BY <1>1, <1>2, StepChangesTracker, Zenon DEF TrackerStep, Recorded, CrcSet

\* Inserting an entry for a source block keeps the table well typed and its
\* entries in range.
LEMMA InsertEffect ==
  ASSUME NEW t \in Table, NEW crc \in Nat, NEW s \in SrcIdx,
         \A b \in Bucket : \A p \in DOMAIN t[b] : t[b][p].block_index \in SrcIdx
  PROVE  LET u == hash_table_insert(t, crc, s)
         IN /\ u \in Table
            /\ \A b \in Bucket : \A p \in DOMAIN u[b] : u[b][p].block_index \in SrcIdx
<1> DEFINE e == [crc32 |-> crc, block_index |-> s]
           h == hash_to_bucket(crc)
           u == hash_table_insert(t, crc, s)
<1>1. h \in Bucket
  BY BucketAssumption DEF hash_to_bucket, Bucket
<1>2. e \in Entry /\ e.block_index \in SrcIdx
  BY SrcBlocksFit DEF Entry, SrcIdx
<1> HIDE DEF e, h
<1>3. u = [t EXCEPT ![h] = <<e>> \o t[h]]
  BY DEF hash_table_insert, e, h
<1>4. t[h] \in Seq(Entry)
  BY <1>1 DEF Table
<1>5. <<e>> \o t[h] \in Seq(Entry)
  BY <1>2, <1>4
<1>6. \A p \in DOMAIN (<<e>> \o t[h]) : (<<e>> \o t[h])[p].block_index \in SrcIdx
  <2> TAKE p \in DOMAIN (<<e>> \o t[h])
  <2>1. (<<e>> \o t[h])[p] = e \/ \E q \in DOMAIN t[h] : (<<e>> \o t[h])[p] = t[h][q]
    <3>1. p \in 1..(1 + Len(t[h]))
      BY <1>2, <1>4
    <3>2. CASE p = 1
      BY <3>2, <1>4
    <3>3. CASE p # 1
      <4>1. p - 1 \in DOMAIN t[h] /\ (<<e>> \o t[h])[p] = t[h][p - 1]
        BY <3>1, <3>3, <1>2, <1>4
      <4> QED
        BY <4>1
    <3> QED
      BY <3>2, <3>3
  <2> QED
    BY <1>1, <1>2, <2>1
<1>7. u \in Table
  BY <1>1, <1>3, <1>5 DEF Table
<1>8. \A b \in Bucket : u[b] = IF b = h THEN <<e>> \o t[h] ELSE t[b]
  BY <1>1, <1>3 DEF Table
<1> HIDE DEF u
<1>9. \A b \in Bucket : \A p \in DOMAIN u[b] : u[b][p].block_index \in SrcIdx
  BY <1>6, <1>8, Zenon
<1> QED
  BY <1>7, <1>9 DEF u

\* An empty table is well typed.
LEMMA CreateTableEffect ==
  /\ hash_table_create \in Table
  /\ \A b \in Bucket : DOMAIN hash_table_create[b] = {}
BY DEF hash_table_create, Table

\* A step keeps the hash table well typed and its entries in range.
LEMMA TablePreserved ==
  IInv /\ [Next]_vars => table' \in Table /\ TableOK' /\ dropped' \in SUBSET SrcIdx
<1> SUFFICES ASSUME IInv, [Next]_vars
             PROVE  table' \in Table /\ TableOK' /\ dropped' \in SUBSET SrcIdx
  OBVIOUS
<1>1. table \in Table /\ TableOK /\ dropped \in SUBSET SrcIdx
  BY DEF IInv, TypeOK
<1>2. CASE UNCHANGED <<table, dropped>>
  BY <1>1, <1>2 DEF TableOK
<1>3. CASE EnterRelocation
  <2>1. table' = hash_table_create /\ dropped' = dropped
    BY <1>3 DEF EnterRelocation, Begin
  <2> QED
    BY <1>1, <2>1, CreateTableEffect DEF TableOK
<1>4. CASE IndexBlock
  <2>1. cur \in SrcIdx
    BY <1>4, SrcBlocksFit, SMTT(60) DEF IndexBlock, IInv, TypeOK, SrcIdx
  <2>2. CrcOf[SrcBlock(cur)] \in Nat
    <3>1. FitsAt(cur * BlockSize, SrcSize) /\ cur * BlockSize \in Int
      BY <2>1, SrcBlocksFit, RangeFacts DEF PartialSrcSize
    <3>2. SrcBlock(cur) \in Block
      BY <3>1, SrcBlockType DEF SrcBlock, IInv, TypeOK
    <3> QED
      BY <3>2, CrcAssumption
  <2>3. \/ UNCHANGED <<table, dropped>>
        \/ table' = hash_table_insert(table, CrcOf[SrcBlock(cur)], cur) /\ dropped' = dropped
        \/ table' = table /\ dropped' = dropped \cup {cur}
    BY <1>4 DEF IndexBlock
  <2>4. CASE table' = hash_table_insert(table, CrcOf[SrcBlock(cur)], cur) /\ dropped' = dropped
    <3>1. /\ table' \in Table
          /\ \A b \in Bucket : \A p \in DOMAIN table'[b] :
               table'[b][p].block_index \in SrcIdx
      BY <1>1, <2>1, <2>2, <2>4, InsertEffect DEF TableOK
    <3> QED
      BY <1>1, <2>4, <3>1 DEF TableOK
  <2>5. CASE table' = table /\ dropped' = dropped \cup {cur}
    BY <1>1, <2>1, <2>5 DEF TableOK
  <2> QED
    BY <1>2, <2>3, <2>4, <2>5, SMTT(30)
<1>5. CASE Next /\ ~EnterRelocation /\ ~IndexBlock
  <2>1. UNCHANGED <<table, dropped>>
    BY <1>5, Zenon
       DEF Next, Controller, Returned, vars, Create, CreateRejected, CreateFailed, Cancel, SkipStage,
       EnterCancelled, StageDone, EnterIdentity, IdentityBlock,
       EnterRelocationFailed, IndexDone, RelocationBlock, EnterFsmap,
       EnterFsmapFailed, FsmapNoHypothesis, FsmapCancelled, FsmapBlock,
       EnterPartial, PartialMatch, PartialSkip, ExtendMatch, Extend, ExtendStop,
       Finalize, Begin, Return, NextBlock
  <2> QED
    BY <2>1, <1>2, SMTT(30)
<1>6. CASE UNCHANGED vars
  BY <1>2, <1>6, SMTT(30) DEF vars
<1> QED
  BY <1>3, <1>4, <1>5, <1>6

\* After each stage comes a later one, or the final pass.
LEMMA NextStageRange ==
  \A s \in Stage : NextStage[s] \in {"relocation", "fsmap", "partial", "finalize"}
<1> SUFFICES ASSUME NEW s \in Stage
             PROVE  NextStage[s] \in {"relocation", "fsmap", "partial", "finalize"}
  OBVIOUS
<1>1. /\ NextStage["identity"] = "relocation" /\ NextStage["relocation"] = "fsmap"
      /\ NextStage["fsmap"] = "partial" /\ NextStage["partial"] = "finalize"
  BY SMT DEF NextStage
<1>2. s \in {"identity", "relocation", "fsmap", "partial"}
  BY DEF Stage
<1> QED
  BY <1>1, <1>2

\* A step keeps the hypotheses inside the images, and the other variables in
\* their types.
LEMMA TypePreserved == IInv /\ [Next]_vars => TypeOK'
<1> SUFFICES ASSUME IInv, [Next]_vars PROVE TypeOK'
  OBVIOUS
<1> USE DestBlocksAssumption, BlockSizeAssumption
<1>1. TypeOK
  BY DEF IInv
<1>2. /\ tracker' \in Tracker /\ table' \in Table /\ dropped' \in SUBSET SrcIdx
      /\ src' = src /\ dest' = dest
  BY TrackerTypePreserved, TablePreserved, ImagesFixed
<1>3. /\ DOMAIN hyps' \in SUBSET DestIdx
      /\ \A d \in DOMAIN hyps' : hyps'[d] \in Nat /\ FitsAt(hyps'[d], SrcSize)
  <2>1. CASE hyps' = hyps
    BY <1>1, <2>1 DEF TypeOK
  <2>2. CASE EnterFsmap
    <3>1. tracker.unmatched \subseteq DestIdx
      BY <1>1 DEF TypeOK, Tracker
    <3>2. PICK D \in SUBSET tracker.unmatched :
            hyps' \in [D -> {p \in 0..SrcSize-1 : FitsAt(p, SrcSize)}]
      BY <2>2 DEF EnterFsmap, Hypotheses
    <3> QED
      BY <3>1, <3>2, SrcSizeAssumption
  <2>3. CASE Next /\ ~EnterFsmap
    <3>1. hyps' = hyps
      BY <2>3, Zenon
         DEF Next, Controller, Returned, vars, Create, CreateRejected, CreateFailed, Cancel, SkipStage,
         EnterCancelled, StageDone, EnterIdentity, IdentityBlock, EnterRelocation,
         EnterRelocationFailed, IndexBlock, IndexDone, RelocationBlock,
         EnterFsmapFailed, FsmapNoHypothesis, FsmapCancelled, FsmapBlock,
         EnterPartial, PartialMatch, PartialSkip, ExtendMatch, Extend, ExtendStop,
         Finalize, Begin, Return, NextBlock
    <3> QED
      BY <3>1, <2>1, SMTT(30)
  <2> QED
    BY <2>1, <2>2, <2>3 DEF vars
<1>4. cur' \in Nat /\ ext' \in Nat /\ best_offset' \in Int /\ progress' \in Nat
  <2>1. CASE PartialMatch
    <3>1. cur \in DestIdx /\ DataOK
      BY <1>1, <2>1 DEF PartialMatch, RunningBlock, TypeOK, DataOK, DestIdx
    <3>2. partial_candidate(tracker, cur) \in Int
      BY <2>1, <3>1, PartialCandidateSound DEF PartialMatch
    <3> QED
      BY <1>1, <2>1, <3>2, SMTT(60) DEF PartialMatch, TypeOK
  <2>2. CASE StageDone
    <3>1. tracker.unmatched \subseteq DestIdx
      BY <1>1 DEF TypeOK, Tracker
    <3>2. IsFiniteSet(DestIdx) /\ Cardinality(DestIdx) = DestBlocks
      BY FS_Interval DEF DestIdx
    <3>3. /\ Cardinality(tracker.unmatched) \in Nat
          /\ Cardinality(tracker.unmatched) <= DestBlocks
      BY <3>1, <3>2, FS_Subset, FS_CardinalityType
    <3> QED
      BY <1>1, <2>2, <3>3 DEF StageDone, TypeOK
  <2>3. cur \in Nat /\ ext \in Nat /\ best_offset \in Int /\ progress \in Nat
    BY <1>1, SMTT(30) DEF TypeOK
  <2>4. CASE \/ Create \/ CreateRejected \/ CreateFailed \/ Cancel \/ SkipStage
             \/ EnterCancelled \/ EnterRelocationFailed \/ EnterFsmapFailed
             \/ FsmapCancelled \/ Finalize
    BY <2>3, <2>4, ZenonT(60)
       DEF Create, CreateRejected, CreateFailed, Cancel, SkipStage,
       EnterCancelled, EnterRelocationFailed, EnterFsmapFailed, FsmapCancelled,
       Finalize, Return
  <2>5. CASE \/ EnterIdentity \/ EnterRelocation \/ EnterFsmap \/ EnterPartial
             \/ IndexBlock \/ IndexDone \/ ExtendMatch \/ ExtendStop
    <3>1. /\ cur' = 0 \/ cur' = cur \/ cur' = cur + 1
          /\ ext' = 0 \/ ext' = ext \/ ext' = ext + 1
          /\ best_offset' = 0 \/ best_offset' = best_offset
          /\ progress' = progress
      BY <2>5, ZenonT(60)
         DEF EnterIdentity, EnterRelocation, EnterFsmap, EnterPartial,
         IndexBlock, IndexDone, ExtendMatch, Extend, ExtendStop, Begin
    <3> QED
      BY <2>3, <3>1
  <2>6. CASE \/ IdentityBlock \/ RelocationBlock \/ FsmapNoHypothesis
             \/ FsmapBlock \/ PartialSkip
    <3>1. cur' = cur + 1 /\ UNCHANGED <<ext, best_offset, progress>>
      BY <2>6, ZenonT(60)
         DEF IdentityBlock, RelocationBlock, FsmapNoHypothesis, FsmapBlock,
         PartialSkip, NextBlock
    <3> QED
      BY <2>3, <3>1
  <2> QED
    BY <2>1, <2>2, <2>3, <2>4, <2>5, <2>6, ZenonT(60) DEF vars, Next, Controller, Returned
<1>5. /\ opts' \in [Stage -> BOOLEAN]
      /\ cancelled' \in BOOLEAN
      /\ cancel_at' \in Stage \cup {"never", "outside"}
      /\ stage' \in Stage \cup {"create", "finalize", "done"}
      /\ phase' \in {"enter", "index", "run", "extend"}
      /\ result' \in {"running", "SUCCESS", "CANCELLED", "OUT_OF_MEMORY", "INVALID_ARG"}
  <2>1. CASE SkipStage \/ StageDone
    <3>1. stage \in Stage /\ stage' = NextStage[stage]
      BY <2>1 DEF SkipStage, StageDone, AtEntry
    <3>2. NextStage[stage] \in Stage \cup {"finalize"}
      BY <3>1, NextStageRange DEF Stage
    <3> QED
      BY <1>1, <2>1, <3>1, <3>2, ZenonT(60) DEF TypeOK, SkipStage, StageDone
  <2>2. CASE Cancel
    <3>1. stage # "done" /\ (phase = "enter" \/ stage \in Stage)
      BY <1>1, <2>2, ZenonT(60) DEF Cancel, Running, TypeOK, IInv, ControlOK
    <3> QED
      BY <1>1, <2>2, <3>1, SMTT(30) DEF TypeOK, Cancel
  <2>3. CASE \/ Create \/ CreateRejected \/ CreateFailed \/ EnterCancelled
             \/ EnterRelocationFailed \/ EnterFsmapFailed \/ FsmapCancelled \/ Finalize
    BY <1>1, <2>3, ZenonT(60)
       DEF TypeOK, Create, CreateRejected, CreateFailed, EnterCancelled,
       EnterRelocationFailed, EnterFsmapFailed, FsmapCancelled, Finalize, Return, Stage
  <2>4. CASE \/ EnterIdentity \/ EnterRelocation \/ EnterFsmap \/ EnterPartial
             \/ IndexBlock \/ IndexDone \/ PartialMatch \/ ExtendMatch \/ ExtendStop
    BY <1>1, <2>4, ZenonT(60)
       DEF TypeOK, EnterIdentity, EnterRelocation, EnterFsmap, EnterPartial,
       IndexBlock, IndexDone, PartialMatch, ExtendMatch, Extend, ExtendStop, Begin
  <2>5. CASE \/ IdentityBlock \/ RelocationBlock \/ FsmapNoHypothesis
             \/ FsmapBlock \/ PartialSkip
    BY <1>1, <2>5 DEF TypeOK, IdentityBlock, RelocationBlock, FsmapNoHypothesis,
       FsmapBlock, PartialSkip, NextBlock
  <2> QED
    BY <1>1, <2>1, <2>2, <2>3, <2>4, <2>5, ZenonT(60) DEF vars, TypeOK, Next, Controller, Returned
<1> QED
  BY <1>1, <1>2, <1>3, <1>4, <1>5 DEF TypeOK

\* A step keeps the control state consistent and leaves the blocks identity
\* has not looked at without a match.
LEMMA ControlPreserved == IInv /\ [Next]_vars => ControlOK' /\ FreshOK'
<1> SUFFICES ASSUME IInv, [Next]_vars PROVE ControlOK' /\ FreshOK'
  OBVIOUS
<1>1. TypeOK /\ ControlOK /\ FreshOK
  BY SMTT(30) DEF IInv
<1>2. CASE UNCHANGED vars
  BY <1>1, <1>2, ZenonT(60) DEF vars, ControlOK, FreshOK
<1>3. CASE Create \/ Cancel
  BY <1>1, <1>3, ZenonT(60) DEF Create, Cancel, Running, ControlOK, FreshOK
<1>4. CASE \/ CreateRejected \/ CreateFailed \/ EnterCancelled
           \/ EnterRelocationFailed \/ EnterFsmapFailed \/ FsmapCancelled \/ Finalize
  BY <1>1, <1>4, Zenon DEF CreateRejected, CreateFailed, EnterCancelled,
     EnterRelocationFailed, EnterFsmapFailed, FsmapCancelled, Finalize, Return,
     ControlOK, FreshOK
<1>5. CASE SkipStage \/ StageDone
  <2>1. stage \in Stage /\ stage' = NextStage[stage] /\ result' = "running" /\ phase' = "enter"
    BY <1>5, Zenon DEF SkipStage, StageDone, AtEntry, Running
  <2>2. stage' \in {"relocation", "fsmap", "partial", "finalize"}
    BY <2>1, NextStageRange
  <2> QED
    BY <2>1, <2>2, SMTT(30) DEF ControlOK, FreshOK
<1>6. CASE EnterIdentity
  BY <1>1, <1>6, DestBlocksAssumption
     DEF EnterIdentity, Begin, Entering, AtEntry, Running, ControlOK, FreshOK, DestIdx
<1>7. CASE IdentityBlock
  <2>1. /\ cur' = cur + 1 /\ phase' = "run" /\ stage' = "identity" /\ stage = "identity"
        /\ result' = "running" /\ phase = "run" /\ cur \in DestIdx
    BY <1>1, <1>7, DestBlocksAssumption
       DEF IdentityBlock, NextBlock, RunningBlock, Running, TypeOK, DestIdx
  <2>2. \A i \in DestIdx : i # cur => tracker'.blocks[i] = tracker.blocks[i]
    <3>1. tracker' = identity_match(tracker, cur)
      BY <1>7 DEF IdentityBlock, NextBlock
    <3>2. tracker.blocks \in [DestIdx -> BlockState]
      BY <1>1 DEF TypeOK, Tracker
    <3> QED
      BY <2>1, <3>1, <3>2 DEF identity_match, set_match, set_crc32
  <2>3. \A i \in DestIdx : i >= cur + 1 => i # cur /\ i >= cur
    BY <1>1, DestBlocksAssumption, SMTT(30) DEF TypeOK, DestIdx
  <2> QED
    BY <1>1, <2>1, <2>2, <2>3, SMTT(30) DEF ControlOK, FreshOK
<1>8. CASE \/ EnterRelocation \/ IndexBlock \/ IndexDone \/ RelocationBlock
  BY <1>1, <1>8, ZenonT(60)
     DEF EnterRelocation, IndexBlock, IndexDone, RelocationBlock, Begin,
     NextBlock, Entering, AtEntry, Indexing, RunningBlock, Running, ControlOK, FreshOK
<1>9. CASE \/ EnterFsmap \/ FsmapNoHypothesis \/ FsmapBlock
  BY <1>1, <1>9, ZenonT(60)
     DEF EnterFsmap, FsmapNoHypothesis, FsmapBlock, FsmapRunning, Begin,
     NextBlock, Entering, AtEntry, RunningBlock, Running, ControlOK, FreshOK
<1>10. CASE \/ EnterPartial \/ PartialMatch \/ PartialSkip \/ ExtendMatch \/ ExtendStop
  BY <1>1, <1>10, Zenon
     DEF EnterPartial, PartialMatch, PartialSkip, ExtendMatch, Extend, ExtendStop,
     Begin, NextBlock, Entering, AtEntry, RunningBlock, Extending, Running,
     ControlOK, FreshOK
<1> QED
  BY <1>2, <1>3, <1>4, <1>5, <1>6, <1>7, <1>8, <1>9, <1>10, SMTT(30)
     DEF Next, Controller, Returned

\* The initial states satisfy the invariant.
LEMMA InitIInv == Init => IInv
<1> SUFFICES ASSUME Init PROVE IInv
  OBVIOUS
<1>1. /\ tracker = tracker_create /\ tracker \in Tracker
      /\ tracker.unmatched = DestIdx
      /\ \A i \in DestIdx : tracker.blocks[i].match_type = "NONE"
      /\ \A m \in MatchType : tracker.counts[m] = 0
  BY CreateType DEF Init, tracker_create
<1>2. TypeOK
  <2>1. src \in SrcImage /\ dest \in DestImage
    BY ImagesAssumption DEF Init
  <2>2. opts \in [Stage -> BOOLEAN]
    BY OptionsAssumption DEF Init
  <2>3. cancelled \in BOOLEAN
    BY DEF Init
  <2>4. cancel_at \in Stage \cup {"never", "outside"}
    BY DEF Init
  <2>5. table \in Table
    BY CreateTableEffect DEF Init
  <2>6. /\ DOMAIN hyps \in SUBSET DestIdx
        /\ \A d \in DOMAIN hyps : hyps[d] \in Nat /\ FitsAt(hyps[d], SrcSize)
    <3>1. hyps = << >> /\ DOMAIN << >> = {}
      BY DEF Init
    <3> QED
      BY <3>1
  <2>7. /\ stage \in Stage \cup {"create", "finalize", "done"}
        /\ phase \in {"enter", "index", "run", "extend"}
        /\ cur \in Nat /\ ext \in Nat /\ best_offset \in Int
        /\ dropped \in SUBSET SrcIdx /\ progress \in Nat
        /\ result \in {"running", "SUCCESS", "CANCELLED", "OUT_OF_MEMORY",
                       "INVALID_ARG"}
    BY DEF Init
  <2> QED
    BY <1>1, <2>1, <2>2, <2>3, <2>4, <2>5, <2>6, <2>7, Zenon DEF TypeOK
<1>3. TableOK
  BY CreateTableEffect, SMTT(30) DEF Init, TableOK
<1>4. ControlOK /\ FreshOK /\ LiteralOK
  BY <1>1 DEF Init, ControlOK, FreshOK, LiteralOK, MatchType
<1>5. StatsExact
  <2>1. \A m \in MatchType \ {"NONE"} : OfType(m) = {}
    BY <1>1 DEF OfType
  <2>2. OfType("NONE") = DestIdx
    BY <1>1 DEF OfType
  <2>3. Cardinality({}) = 0
    BY FS_EmptySet
  <2>4. result # "SUCCESS"
    BY SMTT(30) DEF Init
  <2> QED
    BY <1>1, <2>1, <2>2, <2>3, <2>4, Zenon DEF StatsExact
<1>6. MatchSound /\ PartialMeetsThreshold
  BY <1>1, Zenon
     DEF MatchSound, PartialMeetsThreshold, Restores, Rebuilds, SharesEnough
<1> QED
  BY <1>2, <1>3, <1>4, <1>5, <1>6 DEF IInv

\* The invariant holds in every reachable state of the pipeline.
THEOREM InvariantHolds == Spec => []IInv
<1>1. IInv /\ [Next]_vars => IInv'
  BY TypePreserved, ControlPreserved, TablePreserved, StatsPreserved, SoundPreserved
     DEF IInv
<1> QED
  BY <1>1, InitIInv, PTL DEF Spec

\* The variables of the pipeline keep their types, indices in range.
THEOREM TypeCorrect == Spec => []TypeOK
<1>1. IInv => TypeOK
  BY DEF IInv
<1> QED
  BY <1>1, InvariantHolds, PTL

\* Every match any stage records restores its destination block, for all
\* images, block sizes, hash functions, thresholds, options, hypotheses,
\* failed allocations and cancellations.
THEOREM MatchesAreSound == Spec => []MatchSound
<1>1. IInv => MatchSound
  BY DEF IInv
<1> QED
  BY <1>1, InvariantHolds, PTL

\* Every partial match shares at least threshold_count bytes with its source
\* bytes.
THEOREM PartialsMeetThreshold == Spec => []PartialMeetsThreshold
<1>1. IInv => PartialMeetsThreshold
  BY DEF IInv
<1> QED
  BY <1>1, InvariantHolds, PTL

\* Bitmap and counters agree with the match types, and a finished run counts
\* every block once.
THEOREM StatsAreExact == Spec => []StatsExact
<1>1. IInv => StatsExact
  BY DEF IInv
<1> QED
  BY <1>1, InvariantHolds, PTL

\* A recorded match is never changed.
THEOREM MatchesAreStable == Spec => MatchStable
<1> DEFINE Stable == \A i \in DestIdx :
                       tracker.blocks[i].match_type # "NONE" =>
                         tracker'.blocks[i] = tracker.blocks[i]
<1>1. IInv /\ [Next]_vars => [Stable]_vars
  BY BlockStep
<1> QED
  BY <1>1, InvariantHolds, PTL DEF Spec, MatchStable
=============================================================================
