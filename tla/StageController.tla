-------------------------- MODULE StageController --------------------------
(***************************************************************************)
(* The matching pipeline of fsdiff: the stage controller running the       *)
(* identity, relocation, fsmap and partial stages over the block tracker,  *)
(* one action per block a stage handles, with a second thread that may     *)
(* cancel the run at any moment.  Memory allocations that the code checks  *)
(* may fail.                                                               *)
(***************************************************************************)
EXTENDS BlockTracker, BlockSearch, HashTable

CONSTANTS
  SrcImages, DestImages,    \* the image contents considered
  Options,                  \* the choices of enabled stages considered
  SearchRadius,             \* search radius in blocks
  CancelInterval            \* hypotheses between two looks at the cancel flag

Stage == {"identity", "relocation", "fsmap", "partial"}

ASSUME ImagesAssumption == SrcImages \subseteq SrcImage /\ DestImages \subseteq DestImage
ASSUME OptionsAssumption == Options \subseteq [Stage -> BOOLEAN]
ASSUME RadiusAssumption == SearchRadius \in Nat \ {0}
ASSUME IntervalAssumption == CancelInterval \in Nat \ {0}

VARIABLES
  src, dest,        \* the two images
  opts,             \* which stages are enabled
  cancelled,        \* either cancel flag is set
  cancel_at,        \* history: the stage at work when the flag was set
  stage, phase,     \* where the controller is
  cur,              \* loop index of the stage
  ext, best_offset, \* extension loop of the partial stage
  table,            \* relocation's hash table
  dropped,          \* history: source blocks whose entry was not allocated
  hyps,             \* fsmap's hypotheses: dest block -> source position
  tracker,
  progress,         \* last value given to the progress callback
  result

vars == <<src, dest, opts, cancelled, cancel_at, stage, phase, cur, ext,
          best_offset, table, dropped, hyps, tracker, progress, result>>

NextStage ==
  [identity |-> "relocation", relocation |-> "fsmap", fsmap |-> "partial",
   partial |-> "finalize"]

SearchRange == SearchRadius * BlockSize

\* The partial stage only reads whole source blocks.
PartialSrcSize == SrcBlocks * BlockSize

SrcBlock(i) == BlockAt(src, i * BlockSize)
DestBlock(i) == BlockAt(dest, i * BlockSize)

Init ==
  /\ src \in SrcImages /\ dest \in DestImages
  /\ opts \in Options
  /\ cancelled \in BOOLEAN
  /\ cancel_at = IF cancelled THEN "outside" ELSE "never"
  /\ stage = "create" /\ phase = "enter"
  /\ cur = 0 /\ ext = 0 /\ best_offset = 0
  /\ table = hash_table_create /\ dropped = {}
  /\ hyps = << >>
  /\ tracker = tracker_create
  /\ progress = 0
  /\ result = "running"

Running == result = "running"

Return(err) ==
  /\ result' = err
  /\ stage' = "done"
  /\ UNCHANGED <<src, dest, opts, cancelled, cancel_at, phase, cur, ext,
                 best_offset, table, dropped, hyps, tracker, progress>>

\* fsd_stage_controller_create: relocation needs the CRCs of identity.
Create ==
  /\ Running /\ stage = "create"
  /\ ~(opts["relocation"] /\ ~opts["identity"])
  /\ stage' = "identity"
  /\ UNCHANGED <<src, dest, opts, cancelled, cancel_at, phase, cur, ext,
                 best_offset, table, dropped, hyps, tracker, progress, result>>

CreateRejected ==
  /\ Running /\ stage = "create"
  /\ opts["relocation"] /\ ~opts["identity"]
  /\ Return("INVALID_ARG")

CreateFailed ==
  /\ Running /\ stage = "create"
  /\ ~(opts["relocation"] /\ ~opts["identity"])
  /\ Return("OUT_OF_MEMORY")

\* fsd_diff_cancel or fsd_stage_controller_cancel, from another thread.
Cancel ==
  /\ Running /\ ~cancelled
  /\ cancelled' = TRUE
  /\ cancel_at' = IF phase = "enter" THEN "outside" ELSE stage
  /\ UNCHANGED <<src, dest, opts, stage, phase, cur, ext, best_offset, table,
                 dropped, hyps, tracker, progress, result>>

AtEntry == Running /\ stage \in Stage /\ phase = "enter"

SkipStage ==
  /\ AtEntry /\ ~opts[stage]
  /\ stage' = NextStage[stage]
  /\ UNCHANGED <<src, dest, opts, cancelled, cancel_at, phase, cur, ext,
                 best_offset, table, dropped, hyps, tracker, progress, result>>

EnterCancelled == AtEntry /\ opts[stage] /\ cancelled /\ Return("CANCELLED")

\* Mutant: the flag is not looked at.
Entering_unchecked == AtEntry /\ opts[stage]

Entering == AtEntry /\ opts[stage] /\ ~cancelled

Begin(first) ==
  /\ phase' = first /\ cur' = 0
  /\ UNCHANGED <<src, dest, opts, cancelled, cancel_at, stage, ext,
                 best_offset, dropped, tracker, progress, result>>

EnterIdentity == Entering /\ stage = "identity" /\ Begin("run") /\ UNCHANGED <<table, hyps>>

EnterPartial == Entering /\ stage = "partial" /\ Begin("run") /\ UNCHANGED <<table, hyps>>

\* Mutant: the blocks left are reported, not the blocks matched.
StageDone_left ==
  /\ Running /\ stage \in Stage /\ phase = "run" /\ cur = DestBlocks
  /\ stage' = NextStage[stage] /\ phase' = "enter"
  /\ progress' = Cardinality(tracker.unmatched)
  /\ UNCHANGED <<src, dest, opts, cancelled, cancel_at, cur, ext, best_offset,
                 table, dropped, hyps, tracker, result>>

\* The end of a stage: report progress, go to the next one.
StageDone ==
  /\ Running /\ stage \in Stage /\ phase = "run" /\ cur = DestBlocks
  /\ stage' = NextStage[stage] /\ phase' = "enter"
  /\ progress' = DestBlocks - Cardinality(tracker.unmatched)
  /\ UNCHANGED <<src, dest, opts, cancelled, cancel_at, cur, ext, best_offset,
                 table, dropped, hyps, tracker, result>>

RunningBlock(s) == Running /\ stage = s /\ phase = "run" /\ cur < DestBlocks

\* The loop of a stage goes on with the next block.
NextBlock(t) ==
  /\ tracker' = t
  /\ cur' = cur + 1
  /\ UNCHANGED <<src, dest, opts, cancelled, cancel_at, stage, phase, ext,
                 best_offset, table, dropped, hyps, progress, result>>

(***************************************************************************)
(* Identity                                                                *)
(***************************************************************************)
\* Zero and one blocks first, then equality with the same source block; a
\* block that stays unmatched gets its CRC32.
identity_match(t, i) ==
  LET d == DestBlock(i)
  IN IF is_zero_block(d) THEN set_match(t, i, "ZERO", 0)
     ELSE IF is_one_block(d) THEN set_match(t, i, "ONE", 0)
     ELSE IF i < SrcBlocks /\ SrcBlock(i) = d THEN set_match(t, i, "IDENTITY", i)
     ELSE set_crc32(t, i, CrcOf[d])

IdentityBlock == RunningBlock("identity") /\ NextBlock(identity_match(tracker, cur))

(***************************************************************************)
(* Relocation                                                              *)
(***************************************************************************)
EnterRelocation ==
  /\ Entering /\ stage = "relocation"
  /\ Begin("index")
  /\ table' = hash_table_create
  /\ UNCHANGED hyps

EnterRelocationFailed ==
  Entering /\ stage = "relocation" /\ Return("OUT_OF_MEMORY")

Indexing == Running /\ stage = "relocation" /\ phase = "index"

\* One source block of build_index.  Zero blocks are not indexed, and an
\* entry that cannot be allocated is silently left out.
IndexBlock ==
  /\ Indexing /\ cur < SrcBlocks
  /\ \/ /\ is_zero_block(SrcBlock(cur))
        /\ UNCHANGED <<table, dropped>>
     \/ /\ ~is_zero_block(SrcBlock(cur))
        /\ table' = hash_table_insert(table, CrcOf[SrcBlock(cur)], cur)
        /\ UNCHANGED dropped
     \/ /\ ~is_zero_block(SrcBlock(cur))
        /\ dropped' = dropped \cup {cur}
        /\ UNCHANGED table
  /\ cur' = cur + 1
  /\ UNCHANGED <<src, dest, opts, cancelled, cancel_at, stage, phase, ext,
                 best_offset, hyps, tracker, progress, result>>

IndexDone ==
  /\ Indexing /\ cur = SrcBlocks
  /\ phase' = "run" /\ cur' = 0
  /\ UNCHANGED <<src, dest, opts, cancelled, cancel_at, stage, ext,
                 best_offset, table, dropped, hyps, tracker, progress, result>>

\* Mutant: equal CRCs are taken for equal blocks.
RelocationHits_crc(i) ==
  LET crc == tracker.blocks[i].crc32
      chain == table[hash_to_bucket(crc)]
  IN {p \in VisitedFrom(table, crc) : chain[p].block_index # i /\ chain[p].crc32 = crc}

\* Places of the chain walk that hold an equal block at another position.
RelocationHits(i) ==
  LET crc == tracker.blocks[i].crc32
      chain == table[hash_to_bucket(crc)]
  IN {p \in VisitedFrom(table, crc) :
        /\ chain[p].block_index # i
        /\ SrcBlock(chain[p].block_index) = DestBlock(i)}

relocation_match(t, i) ==
  LET hits == RelocationHits(i)
      first == CHOOSE p \in hits : \A q \in hits : p <= q
      chain == table[hash_to_bucket(t.blocks[i].crc32)]
  IN IF is_unmatched(t, i) /\ hits # {}
     THEN set_match(t, i, "RELOCATE", chain[first].block_index)
     ELSE t

RelocationBlock == RunningBlock("relocation") /\ NextBlock(relocation_match(tracker, cur))

(***************************************************************************)
(* Partial matches, recorded by fsmap and by partial                       *)
(***************************************************************************)
\* set_match then set_delta, for the source bytes at pos.
record_partial(t, i, pos) ==
  set_delta(set_match(t, i, "PARTIAL", pos \div BlockSize), i,
            pos % BlockSize, DeltaOf(DestBlock(i), BlockAt(src, pos)))

(***************************************************************************)
(* Fsmap                                                                   *)
(***************************************************************************)
\* The hypotheses two ext file systems can give for the unmatched blocks:
\* one source position per block, with a whole block of source bytes there.
\* No hypothesis at all also stands for an image that is not supported.
Hypotheses(t) ==
  UNION {[D -> {p \in 0..SrcSize-1 : FitsAt(p, SrcSize)}] : D \in SUBSET t.unmatched}

EnterFsmap ==
  /\ Entering /\ stage = "fsmap"
  /\ Begin("run")
  /\ hyps' \in Hypotheses(tracker)
  /\ UNCHANGED table

EnterFsmapFailed == Entering /\ stage = "fsmap" /\ Return("OUT_OF_MEMORY")

\* The source position fsmap takes for block i, hypothesis p: p itself when
\* the bytes agree, else the best position of the sweep around it if that
\* is better than p.  The count is below the threshold for a miss.
fsmap_candidate(i, p) ==
  LET exact == count_matches(BlockAt(src, p), DestBlock(i))
      sweep == search_best(src, SrcSize, DestBlock(i), p, -SearchRange, SearchRange)
  IN IF /\ exact < BlockSize
        /\ sweep.count > exact /\ sweep.offset # 0
        /\ FitsAt(p + sweep.offset, SrcSize)
     THEN [pos |-> p + sweep.offset, count |-> sweep.count]
     ELSE [pos |-> p, count |-> exact]

FsmapRunning == RunningBlock("fsmap")

\* h % CANCEL_CHECK_INTERVAL == 0, h being the number of hypotheses done.
AtCancelCheck == Cardinality({d \in DOMAIN hyps : d < cur}) % CancelInterval = 0

FsmapNoHypothesis ==
  FsmapRunning /\ cur \notin DOMAIN hyps /\ NextBlock(tracker)

FsmapCancelled ==
  /\ FsmapRunning /\ cur \in DOMAIN hyps
  /\ AtCancelCheck /\ cancelled
  /\ Return("CANCELLED")

\* Mutant: a candidate below the threshold is taken.
FsmapBlock_any ==
  /\ FsmapRunning /\ cur \in DOMAIN hyps
  /\ ~(AtCancelCheck /\ cancelled)
  /\ LET c == fsmap_candidate(cur, hyps[cur])
     IN NextBlock(IF is_unmatched(tracker, cur) THEN record_partial(tracker, cur, c.pos)
                  ELSE tracker)

FsmapBlock ==
  /\ FsmapRunning /\ cur \in DOMAIN hyps
  /\ ~(AtCancelCheck /\ cancelled)
  /\ LET c == fsmap_candidate(cur, hyps[cur])
     IN \* a match, or: already matched, a miss, no memory for the delta
        \/ /\ is_unmatched(tracker, cur)
           /\ c.count >= threshold_count
           /\ NextBlock(record_partial(tracker, cur, c.pos))
        \/ NextBlock(tracker)

(***************************************************************************)
(* Partial                                                                 *)
(***************************************************************************)
\* The block before i was found elsewhere in the source.
prev_was_relocated(t, i) ==
  i > 0 /\ t.blocks[i - 1].match_type \in {"RELOCATE", "PARTIAL"}

\* The source position right after the match of the block before i.
reloc_base(t, i) ==
  t.blocks[i - 1].src_index * BlockSize + t.blocks[i - 1].byte_offset + BlockSize

quick_accept ==
  LET q == (BlockSize * 9 + 9) \div 10
  IN IF q < threshold_count THEN threshold_count ELSE q

\* A probe of one position: whole block in the source, nearly all equal.
Probe(i, pos) ==
  /\ FitsAt(pos, PartialSrcSize)
  /\ count_matches(BlockAt(src, pos), DestBlock(i)) >= quick_accept

NoPos == -1

\* The source position the partial stage takes for block i: a probe that is
\* accepted, else the best of the sweep around i's own position, else the
\* best of the sweep after the match of the block before.
partial_candidate(t, i) ==
  LET pos == i * BlockSize
      base == reloc_base(t, i)
      near == search_best(src, PartialSrcSize, DestBlock(i), pos,
                          -SearchRange, SearchRange)
      after == search_best(src, PartialSrcSize, DestBlock(i), base,
                           0, SearchRange)
  IN IF prev_was_relocated(t, i) /\ Probe(i, base) THEN base
     ELSE IF Probe(i, pos) THEN pos
     ELSE IF near.count >= threshold_count THEN pos + near.offset
     ELSE IF prev_was_relocated(t, i) /\ after.count >= threshold_count
          THEN base + after.offset
     ELSE NoPos

\* A match; the extension loop follows with the same offset.
PartialMatch ==
  /\ RunningBlock("partial")
  /\ is_unmatched(tracker, cur)
  /\ LET pos == partial_candidate(tracker, cur)
     IN /\ FitsAt(pos, PartialSrcSize)
        /\ tracker' = record_partial(tracker, cur, pos)
        /\ best_offset' = pos - cur * BlockSize
  /\ ext' = cur + 1
  /\ phase' = "extend"
  /\ UNCHANGED <<src, dest, opts, cancelled, cancel_at, stage, cur, table,
                 dropped, hyps, progress, result>>

\* Already matched, no candidate, or no memory for the delta.
PartialSkip == RunningBlock("partial") /\ NextBlock(tracker)

Extending == Running /\ stage = "partial" /\ phase = "extend"

ext_src_pos == ext * BlockSize + best_offset

\* One more block with the same offset.
Extend ==
  /\ Extending /\ ext < DestBlocks /\ FitsAt(ext_src_pos, PartialSrcSize)
  /\ tracker' = record_partial(tracker, ext, ext_src_pos)
  /\ ext' = ext + 1
  /\ UNCHANGED <<src, dest, opts, cancelled, cancel_at, stage, phase, cur,
                 best_offset, table, dropped, hyps, progress, result>>

ExtensionShares ==
  count_matches(BlockAt(src, ext_src_pos), DestBlock(ext)) >= threshold_count

\* Mutant: the bitmap is not asked.
ExtendMatch_matched == Extend /\ ExtensionShares

ExtendMatch == Extend /\ is_unmatched(tracker, ext) /\ ExtensionShares

\* Mutant: the main loop goes on behind the extension, but one block too far
\* back.
ExtendStop_back ==
  /\ Extending
  /\ phase' = "run" /\ cur' = ext - 1
  /\ ext' = 0 /\ best_offset' = 0
  /\ UNCHANGED <<src, dest, opts, cancelled, cancel_at, stage, table, dropped,
                 hyps, tracker, progress, result>>

\* The extension ends (at any block, when its delta cannot be allocated).
ExtendStop ==
  /\ Extending
  /\ phase' = "run" /\ cur' = cur + 1
  /\ ext' = 0 /\ best_offset' = 0
  /\ UNCHANGED <<src, dest, opts, cancelled, cancel_at, stage, table, dropped,
                 hyps, tracker, progress, result>>

(***************************************************************************)
(* The end of the run                                                      *)
(***************************************************************************)
Finalize ==
  /\ Running /\ stage = "finalize"
  /\ tracker' = tracker_finalize(tracker)
  /\ progress' = DestBlocks
  /\ result' = "SUCCESS"
  /\ stage' = "done"
  /\ UNCHANGED <<src, dest, opts, cancelled, cancel_at, phase, cur, ext,
                 best_offset, table, dropped, hyps>>

Controller ==
  \/ Create \/ CreateRejected \/ CreateFailed
  \/ SkipStage \/ EnterCancelled \/ StageDone
  \/ EnterIdentity \/ IdentityBlock
  \/ EnterRelocation \/ EnterRelocationFailed \/ IndexBlock \/ IndexDone
  \/ RelocationBlock
  \/ EnterFsmap \/ EnterFsmapFailed \/ FsmapNoHypothesis \/ FsmapCancelled
  \/ FsmapBlock
  \/ EnterPartial \/ PartialMatch \/ PartialSkip \/ ExtendMatch \/ ExtendStop
  \/ Finalize

\* fsd_stage_controller_run has returned.
Returned == ~Running /\ UNCHANGED vars

Next == Controller \/ Cancel \/ Returned

Spec == Init /\ [][Next]_vars

(***************************************************************************)
(* Properties                                                              *)
(***************************************************************************)
\* Every variable has the type its declaration in the code gives it, and
\* every recorded index is in range.
TypeOK ==
  /\ src \in SrcImage /\ dest \in DestImage
  /\ opts \in [Stage -> BOOLEAN]
  /\ cancelled \in BOOLEAN
  /\ cancel_at \in Stage \cup {"never", "outside"}
  /\ stage \in Stage \cup {"create", "finalize", "done"}
  /\ phase \in {"enter", "index", "run", "extend"}
  /\ cur \in Nat /\ ext \in Nat /\ best_offset \in Int
  /\ table \in Table
  /\ dropped \in SUBSET SrcIdx
  /\ DOMAIN hyps \in SUBSET DestIdx
  /\ \A d \in DOMAIN hyps : hyps[d] \in Nat /\ FitsAt(hyps[d], SrcSize)
  /\ tracker \in Tracker
  /\ progress \in Nat
  /\ result \in {"running", "SUCCESS", "CANCELLED", "OUT_OF_MEMORY", "INVALID_ARG"}

\* What is recorded for block i restores it.
Restores(b, i) == Rebuilds(src, dest, b, i)

\* Whatever stage recorded a match, with whatever hash collisions, failed
\* allocations and hypotheses, the match restores the destination block.
MatchSound == \A i \in DestIdx : Restores(tracker.blocks[i], i)

SharesEnough(b, i) ==
  b.match_type = "PARTIAL" =>
    count_matches(BlockAt(src, MatchPos(b)), DestBlock(i)) >= threshold_count

\* A partial match shares at least threshold_count >= 1 bytes with its
\* source bytes: the offset -1 that the search returns for "nothing found"
\* is never taken for the real offset -1.
PartialMeetsThreshold == \A i \in DestIdx : SharesEnough(tracker.blocks[i], i)

\* Once relocation has run, a block that is still unmatched differs from
\* every source block, wherever it is, unless that block's hash entry could
\* not be allocated: collisions, chains and skipped zero blocks lose nothing.
RelocationComplete ==
  opts["relocation"] /\ stage \in {"fsmap", "partial", "finalize"} =>
    \A i \in tracker.unmatched, s \in SrcIdx \ dropped : SrcBlock(s) # DestBlock(i)

OfType(m) == {i \in DestIdx : tracker.blocks[i].match_type = m}

\* The bitmap and the counters, kept incrementally, agree with the match
\* types, and after finalize every block is counted exactly once.
StatsExact ==
  /\ \A m \in MatchType \ {"NONE"} : tracker.counts[m] = Cardinality(OfType(m))
  /\ result # "SUCCESS" => tracker.unmatched = OfType("NONE")
  /\ result = "SUCCESS" => /\ tracker.unmatched = {}
                           /\ tracker.counts["NONE"] = Cardinality(OfType("NONE"))

\* A recorded match is final: a later stage, or set_delta (which does not
\* look at the match type), never changes it.
MatchStable ==
  [][\A i \in DestIdx :
       tracker.blocks[i].match_type # "NONE" =>
         tracker'.blocks[i] = tracker.blocks[i]]_vars

\* The progress callback never sees a smaller value than before, nor one
\* above the total.
ProgressMonotone == [][progress <= progress' /\ progress' <= DestBlocks]_vars

\* After a cancel no later stage touches the tracker: only the stage at
\* work when the flag was set may still record matches.
CancelStopsLaterStages ==
  [][tracker'.blocks # tracker.blocks => cancel_at \in {"never", stage}]_vars

StageRank ==
  [create |-> 6, identity |-> 5, relocation |-> 4, fsmap |-> 3, partial |-> 2,
   finalize |-> 1, done |-> 0]
PhaseRank == [enter |-> 2, index |-> 1, run |-> 0, extend |-> 0]

\* What is left to do: stages, phases of the stage, blocks of its loop, blocks
\* of the extension, and the cancel that may come.
BlocksLeft == IF phase = "enter" THEN 0
              ELSE IF phase = "index" THEN SrcBlocks - cur ELSE DestBlocks - cur
ExtensionLeft == IF phase = "extend" THEN DestBlocks - ext ELSE DestBlocks + 1
Left == <<StageRank[stage], PhaseRank[phase], BlocksLeft, ExtensionLeft,
          IF cancelled THEN 0 ELSE 1>>

\* The lexicographic order.
Less(a, b) == \E k \in 1..5 : a[k] < b[k] /\ \A j \in 1..(k - 1) : a[j] = b[j]

\* Every step leaves less to do, and never less than nothing: no stage hands
\* back to an earlier one, no loop goes back or past its end, although the
\* extension of a partial match runs ahead of the loop it belongs to.  As no
\* state before the return is stuck, the run returns, cancelled or not.
Advances ==
  [][Less(Left', Left) /\ \A k \in 1..5 : Left'[k] >= 0]_vars
=============================================================================
