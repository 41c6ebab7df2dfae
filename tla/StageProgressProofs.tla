------------------------ MODULE StageProgressProofs ------------------------
(***************************************************************************)
(* The pipeline advances with every step, reports growing progress, stops  *)
(* after a cancel, and relocation overlooks no block.                      *)
(***************************************************************************)
EXTENDS StageControllerProofs

(***************************************************************************)
(* Every step advances                                                     *)
(***************************************************************************)
\* Every loop is inside its bounds, and belongs to the stage that has it.
LoopsOK ==
  /\ phase = "index" => stage \in {"relocation", "done"} /\ cur <= SrcBlocks
  /\ phase = "run" => cur <= DestBlocks
  /\ phase = "extend" => cur < DestBlocks /\ ext <= DestBlocks

\* A step keeps the loops inside their bounds.
LEMMA LoopsPreserved == IInv /\ LoopsOK /\ [Next]_vars => LoopsOK'
<1> SUFFICES ASSUME IInv, LoopsOK, [Next]_vars PROVE LoopsOK'
  OBVIOUS
<1> USE DestBlocksAssumption, SrcBlocksFit
<1>1. cur \in Nat /\ ext \in Nat
  BY DEF IInv, TypeOK
<1>2. CASE UNCHANGED <<stage, phase, cur, ext>>
  BY <1>2 DEF LoopsOK
<1>3. CASE \/ CreateRejected \/ CreateFailed \/ EnterCancelled
           \/ EnterRelocationFailed \/ EnterFsmapFailed \/ FsmapCancelled \/ Finalize
  <2>1. stage' = "done" /\ UNCHANGED <<phase, cur, ext>>
    BY <1>3, Zenon DEF CreateRejected, CreateFailed, EnterCancelled,
       EnterRelocationFailed, EnterFsmapFailed, FsmapCancelled, Finalize, Return
  <2> QED
    BY <2>1 DEF LoopsOK
<1>4. CASE Create \/ SkipStage \/ StageDone
  <2>1. phase' = "enter"
    BY <1>4, Zenon DEF Create, SkipStage, StageDone, AtEntry, IInv, ControlOK
  <2> QED
    BY <2>1 DEF LoopsOK
<1>5. CASE EnterIdentity \/ EnterFsmap \/ EnterPartial \/ IndexDone
  <2>1. phase' = "run" /\ cur' = 0
    BY <1>5, Zenon DEF EnterIdentity, EnterFsmap, EnterPartial, IndexDone, Begin
  <2> QED
    BY <2>1 DEF LoopsOK
<1>6. CASE EnterRelocation
  BY <1>6 DEF EnterRelocation, Begin, LoopsOK
<1>7. CASE IndexBlock
  BY <1>1, <1>7 DEF IndexBlock, Indexing, LoopsOK
<1>8. CASE IdentityBlock \/ RelocationBlock \/ FsmapNoHypothesis \/ FsmapBlock \/ PartialSkip
  <2>1. phase = "run" /\ phase' = "run" /\ cur < DestBlocks /\ cur' = cur + 1
    BY <1>8, Zenon DEF IdentityBlock, RelocationBlock, FsmapNoHypothesis, FsmapBlock,
       FsmapRunning, PartialSkip, RunningBlock, NextBlock
  <2> QED
    BY <1>1, <2>1 DEF LoopsOK
<1>9. CASE PartialMatch
  BY <1>1, <1>9 DEF PartialMatch, RunningBlock, LoopsOK
<1>10. CASE ExtendMatch
  BY <1>1, <1>10 DEF ExtendMatch, Extend, Extending, LoopsOK
<1>11. CASE ExtendStop
  BY <1>1, <1>11 DEF ExtendStop, Extending, LoopsOK
<1>12. CASE Cancel \/ Returned \/ UNCHANGED vars
  BY <1>2, <1>12, SMTT(30) DEF Cancel, Returned, vars
<1> QED
  BY <1>3, <1>4, <1>5, <1>6, <1>7, <1>8, <1>9, <1>10, <1>11, <1>12, Zenon
     DEF Next, Controller

\* The order on what is left, component by component.
LEMMA LessByComponent ==
  ASSUME NEW a1 \in Nat, NEW a2 \in Nat, NEW a3 \in Nat, NEW a4 \in Nat, NEW a5 \in Nat,
         NEW b1 \in Nat, NEW b2 \in Nat, NEW b3 \in Nat, NEW b4 \in Nat, NEW b5 \in Nat,
         \/ a1 < b1
         \/ a1 = b1 /\ a2 < b2
         \/ a1 = b1 /\ a2 = b2 /\ a3 < b3
         \/ a1 = b1 /\ a2 = b2 /\ a3 = b3 /\ a4 < b4
         \/ a1 = b1 /\ a2 = b2 /\ a3 = b3 /\ a4 = b4 /\ a5 < b5
  PROVE  Less(<<a1, a2, a3, a4, a5>>, <<b1, b2, b3, b4, b5>>)
<1> DEFINE a == <<a1, a2, a3, a4, a5>>
           b == <<b1, b2, b3, b4, b5>>
<1>1. /\ a[1] = a1 /\ a[2] = a2 /\ a[3] = a3 /\ a[4] = a4 /\ a[5] = a5
      /\ b[1] = b1 /\ b[2] = b2 /\ b[3] = b3 /\ b[4] = b4 /\ b[5] = b5
  OBVIOUS
<1> HIDE DEF a, b
<1> SUFFICES \E k \in 1..5 : a[k] < b[k] /\ \A j \in 1..(k - 1) : a[j] = b[j]
  BY DEF Less, a, b
<1>2. CASE a1 < b1
  <2> WITNESS 1 \in 1..5
  <2> QED
    BY <1>1, <1>2
<1>3. CASE a1 = b1 /\ a2 < b2
  <2> WITNESS 2 \in 1..5
  <2> QED
    BY <1>1, <1>3
<1>4. CASE a1 = b1 /\ a2 = b2 /\ a3 < b3
  <2> WITNESS 3 \in 1..5
  <2> QED
    BY <1>1, <1>4
<1>5. CASE a1 = b1 /\ a2 = b2 /\ a3 = b3 /\ a4 < b4
  <2> WITNESS 4 \in 1..5
  <2> QED
    BY <1>1, <1>5
<1>6. CASE a1 = b1 /\ a2 = b2 /\ a3 = b3 /\ a4 = b4 /\ a5 < b5
  <2> WITNESS 5 \in 1..5
  <2> QED
    BY <1>1, <1>6
<1> QED
  BY <1>2, <1>3, <1>4, <1>5, <1>6

\* The ranks of stages and phases; the next stage has a smaller one.
LEMMA Ranks ==
  /\ StageRank["create"] = 6 /\ StageRank["identity"] = 5 /\ StageRank["done"] = 0
  /\ StageRank["finalize"] = 1
  /\ \A s \in Stage : StageRank[s] \in 2..5 /\ StageRank[NextStage[s]] < StageRank[s]
                      /\ StageRank[NextStage[s]] \in 1..4
  /\ PhaseRank["enter"] = 2 /\ PhaseRank["index"] = 1 /\ PhaseRank["run"] = 0
  /\ PhaseRank["extend"] = 0
<1>1. /\ StageRank["create"] = 6 /\ StageRank["identity"] = 5 /\ StageRank["done"] = 0
      /\ StageRank["finalize"] = 1 /\ StageRank["relocation"] = 4
      /\ StageRank["fsmap"] = 3 /\ StageRank["partial"] = 2
  BY DEF StageRank
<1>2. /\ NextStage["identity"] = "relocation" /\ NextStage["relocation"] = "fsmap"
      /\ NextStage["fsmap"] = "partial" /\ NextStage["partial"] = "finalize"
  BY SMT DEF NextStage
<1>3. /\ PhaseRank["enter"] = 2 /\ PhaseRank["index"] = 1 /\ PhaseRank["run"] = 0
      /\ PhaseRank["extend"] = 0
  BY DEF PhaseRank
<1> QED
  BY <1>1, <1>2, <1>3 DEF Stage

CancelLeft == IF cancelled THEN 0 ELSE 1

LeftOK ==
  /\ StageRank[stage] \in Nat /\ PhaseRank[phase] \in Nat
  /\ BlocksLeft \in Nat /\ ExtensionLeft \in Nat /\ CancelLeft \in Nat

\* What is left to do is never less than nothing.
LEMMA LeftType == IInv /\ LoopsOK => LeftOK
<1> SUFFICES ASSUME IInv, LoopsOK PROVE LeftOK
  OBVIOUS
<1> USE DestBlocksAssumption, SrcBlocksFit
<1>1. /\ stage \in Stage \cup {"create", "finalize", "done"}
      /\ phase \in {"enter", "index", "run", "extend"}
      /\ cur \in Nat /\ ext \in Nat
  BY DEF IInv, TypeOK
<1>2. StageRank[stage] \in Nat
  BY <1>1, Ranks
<1>3. PhaseRank[phase] \in Nat
  BY <1>1, Ranks
<1>4. BlocksLeft \in Nat
  BY <1>1 DEF LoopsOK, BlocksLeft
<1>5. ExtensionLeft \in Nat
  BY <1>1 DEF LoopsOK, ExtensionLeft
<1> QED
  BY <1>2, <1>3, <1>4, <1>5 DEF LeftOK, CancelLeft

\* Nothing of what is left has changed, or one part of it has become smaller
\* and the parts before it have not changed.
LeftShrinks ==
  \/ StageRank[stage'] < StageRank[stage]
  \/ /\ stage' = stage
     /\ PhaseRank[phase'] < PhaseRank[phase]
  \/ /\ stage' = stage
     /\ PhaseRank[phase'] = PhaseRank[phase]
     /\ BlocksLeft' < BlocksLeft
  \/ /\ stage' = stage
     /\ PhaseRank[phase'] = PhaseRank[phase]
     /\ BlocksLeft' = BlocksLeft
     /\ ExtensionLeft' < ExtensionLeft
  \/ UNCHANGED <<stage, phase, cur, ext>> /\ CancelLeft' < CancelLeft

\* Every step but a stutter shrinks what is left.
LEMMA StepShrinks == IInv /\ LoopsOK /\ Next => LeftShrinks \/ UNCHANGED vars
<1> SUFFICES ASSUME IInv, LoopsOK, Next PROVE LeftShrinks \/ UNCHANGED vars
  OBVIOUS
<1> USE DestBlocksAssumption, SrcBlocksFit, Ranks
<1>1. /\ cur \in Nat /\ ext \in Nat
      /\ stage \in Stage \cup {"create", "finalize", "done"}
      /\ (stage = "done" <=> ~Running)
  BY DEF IInv, TypeOK, ControlOK, Running
<1>2. CASE \/ CreateRejected \/ CreateFailed \/ EnterCancelled
           \/ EnterRelocationFailed \/ EnterFsmapFailed \/ FsmapCancelled \/ Finalize
  <2>1. stage' = "done" /\ Running
    BY <1>2, Zenon DEF CreateRejected, CreateFailed, EnterCancelled, Entering, AtEntry,
       EnterRelocationFailed, EnterFsmapFailed, FsmapCancelled, FsmapRunning,
       RunningBlock, Finalize, Return
  <2>2. StageRank[stage] > 0
    BY <1>1, <2>1
  <2> QED
    BY <2>1, <2>2 DEF LeftShrinks
<1>3. CASE Create
  BY <1>3 DEF Create, LeftShrinks
<1>4. CASE SkipStage \/ StageDone
  <2>1. stage \in Stage /\ stage' = NextStage[stage]
    BY <1>4, Zenon DEF SkipStage, StageDone, AtEntry
  <2> QED
    BY <2>1 DEF LeftShrinks
<1>5. CASE EnterIdentity \/ EnterFsmap \/ EnterPartial \/ EnterRelocation \/ IndexDone
  <2>1. /\ stage' = stage
        /\ \/ phase = "enter" /\ phase' \in {"run", "index"}
           \/ phase = "index" /\ phase' = "run"
    BY <1>5, Zenon DEF EnterIdentity, EnterFsmap, EnterPartial, EnterRelocation,
       IndexDone, Begin, Entering, AtEntry, Indexing
  <2>2. PhaseRank[phase'] < PhaseRank[phase]
    BY <2>1
  <2> QED
    BY <2>1, <2>2 DEF LeftShrinks
<1>6. CASE IndexBlock
  <2>1. stage' = stage /\ phase = "index" /\ phase' = "index" /\ cur' = cur + 1
    BY <1>6, Zenon DEF IndexBlock, Indexing
  <2>2. BlocksLeft' < BlocksLeft
    BY <1>1, <2>1 DEF BlocksLeft
  <2> QED
    BY <2>1, <2>2 DEF LeftShrinks
<1>7. CASE IdentityBlock \/ RelocationBlock \/ FsmapNoHypothesis \/ FsmapBlock \/ PartialSkip
  <2>1. stage' = stage /\ phase = "run" /\ phase' = "run" /\ cur' = cur + 1
    BY <1>7, Zenon DEF IdentityBlock, RelocationBlock, FsmapNoHypothesis, FsmapBlock,
       FsmapRunning, PartialSkip, RunningBlock, NextBlock
  <2>2. BlocksLeft' < BlocksLeft
    BY <1>1, <2>1 DEF BlocksLeft
  <2> QED
    BY <2>1, <2>2 DEF LeftShrinks
<1>8. CASE PartialMatch
  <2>1. /\ stage' = stage /\ phase = "run" /\ phase' = "extend"
        /\ cur' = cur /\ ext' = cur + 1
    BY <1>8, Zenon DEF PartialMatch, RunningBlock
  <2>2. BlocksLeft' = BlocksLeft /\ ExtensionLeft' < ExtensionLeft
    BY <1>1, <2>1 DEF BlocksLeft, ExtensionLeft
  <2> QED
    BY <2>1, <2>2 DEF LeftShrinks
<1>9. CASE ExtendMatch
  <2>1. /\ stage' = stage /\ phase = "extend" /\ phase' = "extend"
        /\ cur' = cur /\ ext' = ext + 1
    BY <1>9, Zenon DEF ExtendMatch, Extend, Extending
  <2>2. BlocksLeft' = BlocksLeft /\ ExtensionLeft' < ExtensionLeft
    BY <1>1, <2>1 DEF BlocksLeft, ExtensionLeft
  <2> QED
    BY <2>1, <2>2 DEF LeftShrinks
<1>10. CASE ExtendStop
  <2>1. stage' = stage /\ phase = "extend" /\ phase' = "run" /\ cur' = cur + 1
    BY <1>10, Zenon DEF ExtendStop, Extending
  <2>2. BlocksLeft' < BlocksLeft
    BY <1>1, <2>1 DEF BlocksLeft
  <2> QED
    BY <2>1, <2>2 DEF LeftShrinks
<1>11. CASE Cancel
  <2>1. UNCHANGED <<stage, phase, cur, ext>> /\ ~cancelled /\ cancelled'
    BY <1>11, Zenon DEF Cancel
  <2> QED
    BY <2>1 DEF LeftShrinks, CancelLeft
<1>12. CASE Returned
  BY <1>12 DEF Returned
<1> QED
  BY <1>2, <1>3, <1>4, <1>5, <1>6, <1>7, <1>8, <1>9, <1>10, <1>11, <1>12, Zenon
     DEF Next, Controller

\* The loops stay inside their bounds.
THEOREM LoopsBounded == Spec => []LoopsOK
<1>1. Init => LoopsOK
  BY DEF Init, LoopsOK
<1> QED
  BY <1>1, InvariantHolds, LoopsPreserved, PTL DEF Spec

\* Every step leaves less to do, so a run takes a bounded number of steps,
\* whatever the images, the options and the moment of a cancel.
THEOREM StepsAdvance == Spec => Advances
<1> DEFINE Down == Less(Left', Left) /\ \A k \in 1..5 : Left'[k] >= 0
<1>1. IInv /\ LoopsOK /\ LeftOK /\ LeftOK' /\ [Next]_vars => [Down]_vars
  <2> SUFFICES ASSUME IInv, LoopsOK, LeftOK, LeftOK', Next, ~UNCHANGED vars
               PROVE  Down
    OBVIOUS
  <2> DEFINE a1 == StageRank[stage']    b1 == StageRank[stage]
             a2 == PhaseRank[phase']    b2 == PhaseRank[phase]
             a3 == BlocksLeft'          b3 == BlocksLeft
             a4 == ExtensionLeft'       b4 == ExtensionLeft
             a5 == CancelLeft'          b5 == CancelLeft
  <2>1. LeftShrinks
    BY StepShrinks
  <2>2. /\ a1 \in Nat /\ a2 \in Nat /\ a3 \in Nat /\ a4 \in Nat /\ a5 \in Nat
        /\ b1 \in Nat /\ b2 \in Nat /\ b3 \in Nat /\ b4 \in Nat /\ b5 \in Nat
    BY DEF LeftOK
  <2>3. Left = <<b1, b2, b3, b4, b5>> /\ Left' = <<a1, a2, a3, a4, a5>>
    BY DEF Left, CancelLeft
  <2>4. UNCHANGED <<stage, phase, cur, ext>> =>
          BlocksLeft' = BlocksLeft /\ ExtensionLeft' = ExtensionLeft
    BY DEF BlocksLeft, ExtensionLeft
  <2>5. \/ a1 < b1
        \/ a1 = b1 /\ a2 < b2
        \/ a1 = b1 /\ a2 = b2 /\ a3 < b3
        \/ a1 = b1 /\ a2 = b2 /\ a3 = b3 /\ a4 < b4
        \/ a1 = b1 /\ a2 = b2 /\ a3 = b3 /\ a4 = b4 /\ a5 < b5
    BY <2>1, <2>4, Zenon DEF LeftShrinks
  <2> HIDE DEF a1, a2, a3, a4, a5, b1, b2, b3, b4, b5
  <2>6. Less(<<a1, a2, a3, a4, a5>>, <<b1, b2, b3, b4, b5>>)
    BY <2>2, <2>5, LessByComponent, ZenonT(60)
  <2>7. \A k \in 1..5 : <<a1, a2, a3, a4, a5>>[k] >= 0
    BY <2>2
  <2> QED
    BY <2>3, <2>6, <2>7, Zenon
<1> QED
  BY <1>1, InvariantHolds, LoopsBounded, LeftType, PTL DEF Spec, Advances

(***************************************************************************)
(* A cancel stops the later stages                                         *)
(***************************************************************************)
\* Inside a stage, a cancel can only have come during this stage.
CancelOK ==
  /\ cancel_at = "never" <=> ~cancelled
  /\ stage # "done" /\ phase # "enter" => cancel_at \in {"never", stage}

\* A step keeps the cancel flag and its history in agreement.
LEMMA CancelPreserved == IInv /\ CancelOK /\ [Next]_vars => CancelOK'
<1> SUFFICES ASSUME IInv, CancelOK, [Next]_vars PROVE CancelOK'
  OBVIOUS
<1> DEFINE Same == UNCHANGED <<cancelled, cancel_at>>
<1>1. CASE UNCHANGED <<cancelled, cancel_at, stage, phase>>
  BY <1>1 DEF CancelOK
<1>2. CASE Same /\ (stage' = "done" \/ phase' = "enter" \/ ~cancelled)
  BY <1>2, SMTT(30) DEF CancelOK
<1>3. CASE Same /\ stage' = stage /\ stage # "done" /\ phase # "enter"
  BY <1>3, SMTT(30) DEF CancelOK
<1>4. CASE \/ CreateRejected \/ CreateFailed \/ EnterCancelled
           \/ EnterRelocationFailed \/ EnterFsmapFailed \/ FsmapCancelled \/ Finalize
  <2>1. Same /\ stage' = "done"
    BY <1>4, Zenon DEF CreateRejected, CreateFailed, EnterCancelled,
       EnterRelocationFailed, EnterFsmapFailed, FsmapCancelled, Finalize, Return
  <2> QED
    BY <2>1, <1>2
<1>5. CASE Create \/ SkipStage \/ StageDone
  <2>1. Same /\ phase' = "enter"
    BY <1>5, Zenon DEF Create, SkipStage, StageDone, AtEntry, IInv, ControlOK
  <2> QED
    BY <2>1, <1>2
<1>6. CASE EnterIdentity \/ EnterFsmap \/ EnterPartial \/ EnterRelocation
  <2>1. Same /\ ~cancelled
    BY <1>6, Zenon DEF EnterIdentity, EnterFsmap, EnterPartial, EnterRelocation, Begin,
       Entering
  <2> QED
    BY <2>1, <1>2
<1>7. CASE \/ IndexBlock \/ IndexDone \/ IdentityBlock \/ RelocationBlock
           \/ FsmapNoHypothesis \/ FsmapBlock \/ PartialSkip \/ PartialMatch
           \/ ExtendMatch \/ ExtendStop
  <2>1. /\ Same /\ stage' = stage /\ phase \in {"index", "run", "extend"}
        /\ stage \in {"identity", "relocation", "fsmap", "partial"}
    BY <1>7, Zenon DEF IndexBlock, IndexDone, Indexing, IdentityBlock, RelocationBlock,
       FsmapNoHypothesis, FsmapBlock, FsmapRunning, PartialSkip, RunningBlock, NextBlock,
       PartialMatch, ExtendMatch, Extend, ExtendStop, Extending
  <2>2. stage # "done" /\ phase # "enter"
    BY <2>1
  <2> QED
    BY <2>1, <2>2, <1>3
<1>8. CASE Cancel
  <2>1. stage \notin {"never", "outside"}
    BY DEF IInv, TypeOK, Stage
  <2>2. /\ cancelled' = TRUE /\ UNCHANGED <<stage, phase>>
        /\ cancel_at' = IF phase = "enter" THEN "outside" ELSE stage
    BY <1>8 DEF Cancel
  <2> QED
    BY <2>1, <2>2 DEF CancelOK
<1>9. CASE UNCHANGED vars \/ Returned
  BY <1>1, <1>9 DEF vars, Returned
<1> QED
  BY <1>4, <1>5, <1>6, <1>7, <1>8, <1>9, Zenon DEF Next, Controller

\* Block states change only inside a stage.
LEMMA BlocksChangeInStage ==
  [Next]_vars /\ tracker'.blocks # tracker.blocks => stage # "done" /\ phase # "enter"
<1> SUFFICES ASSUME [Next]_vars, tracker'.blocks # tracker.blocks
             PROVE  stage # "done" /\ phase # "enter"
  OBVIOUS
<1>1. ~UNCHANGED tracker /\ ~Finalize
  BY DEF Finalize, tracker_finalize
<1>2. \/ IdentityBlock \/ RelocationBlock \/ FsmapBlock \/ PartialMatch \/ ExtendMatch
  BY <1>1, Zenon
     DEF Next, Controller, Returned, vars, Create, CreateRejected, CreateFailed, Cancel,
       SkipStage, EnterCancelled, StageDone, EnterIdentity, EnterRelocation,
       EnterRelocationFailed, IndexBlock, IndexDone, EnterFsmap,
       EnterFsmapFailed, FsmapNoHypothesis, FsmapCancelled,
       EnterPartial, PartialSkip, ExtendStop, Begin, Return, NextBlock
<1>3. /\ phase \in {"run", "extend"}
      /\ stage \in {"identity", "relocation", "fsmap", "partial"}
  BY <1>2, Zenon DEF IdentityBlock, RelocationBlock, FsmapBlock, FsmapRunning,
     PartialMatch, RunningBlock, ExtendMatch, Extend, Extending
<1> QED
  BY <1>3

\* After a cancel only the stage at work when it came records matches.
THEOREM CancelStops == Spec => CancelStopsLaterStages
<1> DEFINE Kept == tracker'.blocks # tracker.blocks => cancel_at \in {"never", stage}
<1>1. Init => CancelOK
  BY DEF Init, CancelOK
<1>2. CancelOK /\ [Next]_vars => [Kept]_vars
  BY BlocksChangeInStage DEF CancelOK
<1> QED
  BY <1>1, <1>2, CancelPreserved, InvariantHolds, PTL DEF Spec, CancelStopsLaterStages

(***************************************************************************)
(* Progress grows                                                          *)
(***************************************************************************)
\* No more has been reported than is matched now.
ProgressOK == progress + Cardinality(tracker.unmatched) <= DestBlocks

\* The unmatched blocks are finitely many, at most all.
LEMMA UnmatchedCount ==
  ASSUME NEW t \in Tracker
  PROVE  /\ IsFiniteSet(t.unmatched) /\ Cardinality(t.unmatched) \in Nat
         /\ Cardinality(t.unmatched) <= DestBlocks
<1>1. t.unmatched \subseteq DestIdx
  BY DEF Tracker
<1>2. IsFiniteSet(DestIdx) /\ Cardinality(DestIdx) = DestBlocks
  BY FS_Interval, DestBlocksAssumption DEF DestIdx
<1> QED
  BY <1>1, <1>2, FS_Subset, FS_CardinalityType

\* No step makes a matched block unmatched, and outside identity a block that
\* stays unmatched keeps its CRC.
LEMMA UnmatchedStep ==
  IInv /\ [Next]_vars =>
    /\ tracker'.unmatched \subseteq tracker.unmatched
    /\ ~IdentityBlock => \A j \in tracker'.unmatched :
                           tracker'.blocks[j] = tracker.blocks[j]
<1> SUFFICES ASSUME IInv, [Next]_vars
             PROVE  /\ tracker'.unmatched \subseteq tracker.unmatched
                    /\ ~IdentityBlock => \A j \in tracker'.unmatched :
                                           tracker'.blocks[j] = tracker.blocks[j]
  OBVIOUS
<1>1. tracker.blocks \in [DestIdx -> BlockState] /\ tracker.unmatched \subseteq DestIdx
  BY DEF IInv, TypeOK, Tracker
<1>2. CASE tracker' = tracker
  BY <1>2
<1>3. CASE \E i \in DestIdx : Recorded(tracker', i)
  <2>1. PICK i \in DestIdx : Recorded(tracker', i)
    BY <1>3
  <2>2. /\ tracker'.unmatched = tracker.unmatched \ {i}
        /\ tracker'.blocks = [tracker.blocks EXCEPT ![i] = tracker'.blocks[i]]
    BY <2>1 DEF Recorded
  <2> QED
    BY <1>1, <2>2
<1>4. CASE IdentityBlock /\ \E i \in DestIdx, crc \in Nat : CrcSet(tracker, tracker', i, crc)
  BY <1>4 DEF CrcSet
<1>5. CASE Finalize
  BY <1>5 DEF Finalize, tracker_finalize
<1> QED
  BY <1>2, <1>3, <1>4, <1>5, StepChangesTracker DEF TrackerStep

\* Only the end of a stage and finalize report progress.
LEMMA ProgressStep ==
  [Next]_vars => progress' = progress \/ StageDone \/ Finalize
BY ZenonT(60)
   DEF Next, Controller, Returned, vars, Create, CreateRejected, CreateFailed, Cancel,
       SkipStage, EnterCancelled, EnterIdentity, IdentityBlock, EnterRelocation,
       EnterRelocationFailed, IndexBlock, IndexDone, RelocationBlock, EnterFsmap,
       EnterFsmapFailed, FsmapNoHypothesis, FsmapCancelled, FsmapBlock,
       EnterPartial, PartialMatch, PartialSkip, ExtendMatch, Extend, ExtendStop,
       Begin, Return, NextBlock

\* A step reports no less than before, and no more than is matched.
LEMMA ProgressPreserved ==
  IInv /\ ProgressOK /\ [Next]_vars =>
    ProgressOK' /\ progress <= progress' /\ progress' <= DestBlocks
<1> SUFFICES ASSUME IInv, ProgressOK, [Next]_vars
             PROVE  ProgressOK' /\ progress <= progress' /\ progress' <= DestBlocks
  OBVIOUS
<1> DEFINE n == Cardinality(tracker.unmatched)
           m == Cardinality(tracker'.unmatched)
<1>1. tracker \in Tracker /\ tracker' \in Tracker /\ progress \in Nat
  BY TrackerTypePreserved DEF IInv, TypeOK
<1>2. /\ IsFiniteSet(tracker.unmatched) /\ n \in Nat /\ m \in Nat
      /\ n <= DestBlocks /\ m <= DestBlocks
  BY <1>1, UnmatchedCount
<1>3. m <= n
  BY <1>2, UnmatchedStep, FS_Subset
<1>4. CASE progress' = progress
  BY <1>1, <1>2, <1>3, <1>4, DestBlocksAssumption DEF ProgressOK
<1>5. CASE StageDone
  <2>1. progress' = DestBlocks - n /\ tracker' = tracker
    BY <1>5 DEF StageDone
  <2> QED
    BY <1>1, <1>2, <2>1, DestBlocksAssumption DEF ProgressOK
<1>6. CASE Finalize
  <2>1. progress' = DestBlocks /\ tracker'.unmatched = {}
    BY <1>6 DEF Finalize, tracker_finalize
  <2>2. m = 0
    BY <2>1, FS_EmptySet
  <2> QED
    BY <1>1, <1>2, <2>1, <2>2, DestBlocksAssumption DEF ProgressOK
<1> QED
  BY <1>4, <1>5, <1>6, ProgressStep

\* The progress callback never sees a smaller value than before.
THEOREM ProgressGrows == Spec => ProgressMonotone
<1>1. Init => ProgressOK
  <2> SUFFICES ASSUME Init PROVE ProgressOK
    OBVIOUS
  <2>1. tracker \in Tracker /\ progress = 0
    BY CreateType DEF Init
  <2> QED
    BY <2>1, UnmatchedCount, DestBlocksAssumption DEF ProgressOK
<1>2. IInv /\ ProgressOK /\ [Next]_vars =>
        [progress <= progress' /\ progress' <= DestBlocks]_vars
  BY ProgressPreserved
<1> QED
  BY <1>1, <1>2, ProgressPreserved, InvariantHolds, PTL DEF Spec, ProgressMonotone

(***************************************************************************)
(* Relocation overlooks no block                                           *)
(***************************************************************************)
\* What identity found out about a block it left unmatched.
Scanned(i) ==
  /\ ~is_zero_block(DestBlock(i))
  /\ tracker.blocks[i].crc32 = CrcOf[DestBlock(i)]
  /\ i \in SrcIdx => SrcBlock(i) # DestBlock(i)

Chain(crc) == table[hash_to_bucket(crc)]

\* The chain of its CRC has an entry for source block s.
Indexed(s) ==
  LET crc == CrcOf[SrcBlock(s)]
  IN \E p \in DOMAIN Chain(crc) :
       Chain(crc)[p].crc32 = crc /\ Chain(crc)[p].block_index = s

\* No source block that got an entry equals destination block i.
Distinct(i) == \A s \in SrcIdx \ dropped : SrcBlock(s) # DestBlock(i)

ToIndex == {s \in SrcIdx \ dropped : ~is_zero_block(SrcBlock(s))}

\* What is known while and after relocation runs: its premises about identity,
\* about the entries made so far and about the blocks already looked up.
RelocationOK ==
  opts["relocation"] =>
    /\ stage \in {"identity", "relocation", "fsmap", "partial", "finalize"} =>
         opts["identity"]
    /\ stage = "identity" /\ phase # "enter" =>
         \A i \in tracker.unmatched : i < cur => Scanned(i)
    /\ stage \in {"relocation", "fsmap", "partial", "finalize"} =>
         \A i \in tracker.unmatched : Scanned(i)
    /\ stage = "relocation" /\ phase = "index" =>
         \A s \in ToIndex : s < cur => Indexed(s)
    /\ stage = "relocation" /\ phase = "run" =>
         /\ \A s \in ToIndex : Indexed(s)
         /\ \A i \in tracker.unmatched : i < cur => Distinct(i)
    /\ stage \in {"fsmap", "partial", "finalize"} =>
         \A i \in tracker.unmatched : Distinct(i)

\* A lookup that finds nothing proves that nothing is there: the chain walk
\* from the first entry with the CRC meets every entry with it.
LEMMA NoHitNoBlock ==
  ASSUME IInv, NEW i \in DestIdx, Scanned(i), \A s \in ToIndex : Indexed(s),
         RelocationHits(i) = {}
  PROVE  Distinct(i)
<1> SUFFICES ASSUME NEW s \in SrcIdx \ dropped, SrcBlock(s) = DestBlock(i)
             PROVE  FALSE
  BY DEF Distinct
<1> DEFINE crc == CrcOf[DestBlock(i)]
<1>1. s \in ToIndex /\ s # i /\ tracker.blocks[i].crc32 = crc
  BY DEF Scanned, ToIndex
<1>2. PICK p \in DOMAIN Chain(crc) :
        Chain(crc)[p].crc32 = crc /\ Chain(crc)[p].block_index = s
  BY <1>1 DEF Indexed
<1>3. p \in VisitedFrom(table, crc) => p \in RelocationHits(i)
  BY <1>1, <1>2, Zenon DEF RelocationHits, Chain
<1>4. Chain(crc) \in Seq(Entry)
  <2>1. crc \in Nat
    BY DestBlockType, CrcAssumption DEF IInv, TypeOK, DestBlock
  <2>2. hash_to_bucket(crc) \in Bucket
    BY <2>1, BucketAssumption DEF hash_to_bucket, Bucket
  <2> QED
    BY <2>2, SMTT(30) DEF IInv, TypeOK, Table, Chain
<1>5. p \in 1..p
  BY <1>4, <1>2
<1>6. p \in VisitedFrom(table, crc)
  BY <1>2, <1>5, Zenon DEF VisitedFrom, Chain
<1> QED
  BY <1>3, <1>6

\* What is known of images, options and table is kept by a step that leaves
\* the table alone.
LEMMA FactsKept ==
  ASSUME IInv, [Next]_vars, ~IdentityBlock, UNCHANGED <<opts, table, dropped>>
  PROVE  /\ \A i \in tracker'.unmatched : i \in tracker.unmatched
         /\ \A i \in tracker'.unmatched : Scanned(i) => Scanned(i)'
         /\ \A i : Distinct(i) => Distinct(i)'
         /\ \A s : Indexed(s) => Indexed(s)'
         /\ ToIndex' = ToIndex
<1>1. src' = src /\ dest' = dest
  BY ImagesFixed
<1>2. /\ tracker'.unmatched \subseteq tracker.unmatched
      /\ \A j \in tracker'.unmatched : tracker'.blocks[j] = tracker.blocks[j]
  BY UnmatchedStep
<1>3. \A i : SrcBlock(i)' = SrcBlock(i) /\ DestBlock(i)' = DestBlock(i)
  BY <1>1 DEF SrcBlock, DestBlock
<1>4. \A i \in tracker'.unmatched : Scanned(i) => Scanned(i)'
  BY <1>2, <1>3 DEF Scanned
<1>5. \A i : Distinct(i) => Distinct(i)'
  BY <1>3 DEF Distinct
<1>6. \A s : Indexed(s) => Indexed(s)'
  BY <1>3 DEF Indexed, Chain
<1>7. ToIndex' = ToIndex
  BY <1>3 DEF ToIndex
<1> QED
  BY <1>2, <1>4, <1>5, <1>6, <1>7

\* Identity leaves a block unmatched only after it has looked at it.
LEMMA IdentityScans ==
  ASSUME IInv, IdentityBlock, \A i \in tracker.unmatched : i < cur => Scanned(i)
  PROVE  \A i \in tracker'.unmatched : i < cur' => Scanned(i)'
<1> SUFFICES ASSUME NEW i \in tracker'.unmatched, i < cur' PROVE Scanned(i)'
  OBVIOUS
<1>1. /\ tracker \in Tracker /\ cur \in DestIdx /\ cur \in Nat
      /\ tracker' = identity_match(tracker, cur) /\ cur' = cur + 1
      /\ src' = src /\ dest' = dest
      /\ tracker.blocks[cur].match_type = "NONE"
  BY DestBlocksAssumption
     DEF IInv, TypeOK, FreshOK, IdentityBlock, RunningBlock, NextBlock, DestIdx
<1>2. tracker.blocks \in [DestIdx -> BlockState] /\ tracker.unmatched \subseteq DestIdx
  BY <1>1 DEF Tracker
<1>3. \A j : SrcBlock(j)' = SrcBlock(j) /\ DestBlock(j)' = DestBlock(j)
  BY <1>1 DEF SrcBlock, DestBlock
<1>4. tracker'.unmatched \subseteq tracker.unmatched
  BY UnmatchedStep DEF Next, Controller
<1>5. CASE i # cur
  <2>1. i < cur
    BY <1>1, <1>2, <1>4, <1>5, DestBlocksAssumption DEF DestIdx
  <2>2. tracker'.blocks[i] = tracker.blocks[i]
    BY <1>1, <1>2, <1>4, <1>5 DEF identity_match, set_match, set_crc32
  <2> QED
    BY <1>3, <1>4, <2>1, <2>2 DEF Scanned
<1>6. CASE i = cur
  <2> DEFINE d == DestBlock(cur)
  <2>1. \A type, x : cur \notin set_match(tracker, cur, type, x).unmatched
    BY <1>1 DEF set_match
  <2>2. /\ ~is_zero_block(d) /\ ~is_one_block(d)
        /\ ~(cur < SrcBlocks /\ SrcBlock(cur) = d)
        /\ tracker' = set_crc32(tracker, cur, CrcOf[d])
    BY <1>1, <1>6, <2>1, Zenon DEF identity_match
  <2>3. tracker'.blocks[cur].crc32 = CrcOf[d]
    <3>1. tracker'.blocks[cur] = [tracker.blocks[cur] EXCEPT !.crc32 = CrcOf[d]]
      BY <1>1, <1>2, <2>2 DEF set_crc32
    <3> QED
      BY <1>1, <1>2, <3>1 DEF BlockState
  <2>4. cur \in SrcIdx => cur < SrcBlocks
    BY SrcBlocksFit DEF SrcIdx
  <2> QED
    BY <1>3, <1>6, <2>2, <2>3, <2>4, Zenon DEF Scanned
<1> QED
  BY <1>5, <1>6

\* An indexing step gives the current source block an entry, unless it is a
\* zero block or the entry cannot be allocated, and keeps the others.
LEMMA IndexAdds ==
  ASSUME IInv, IndexBlock, \A s \in ToIndex : s < cur => Indexed(s)
  PROVE  \A s \in ToIndex' : s < cur' => Indexed(s)'
<1> SUFFICES ASSUME NEW s \in ToIndex', s < cur' PROVE Indexed(s)'
  OBVIOUS
<1>1. src' = src /\ cur' = cur + 1 /\ cur \in Nat /\ cur < SrcBlocks /\ table \in Table
  BY DEF IndexBlock, IInv, TypeOK
<1>2. \A j : SrcBlock(j)' = SrcBlock(j)
  BY <1>1 DEF SrcBlock
<1>3. s \in ToIndex /\ s \in SrcIdx /\ ~is_zero_block(SrcBlock(s)) /\ s \notin dropped'
  BY <1>2 DEF ToIndex, IndexBlock
<1>4. s \in Nat /\ (s < cur \/ s = cur)
  BY <1>1, <1>3, SrcBlocksFit DEF SrcIdx
<1>5. \A j \in SrcIdx : CrcOf[SrcBlock(j)] \in Nat
  <2> TAKE j \in SrcIdx
  <2>1. FitsAt(j * BlockSize, SrcSize) /\ j * BlockSize \in Int
    BY SrcBlocksFit, RangeFacts DEF PartialSrcSize
  <2>2. SrcBlock(j) \in Block
    BY <2>1, SrcBlockType DEF SrcBlock, IInv, TypeOK
  <2> QED
    BY <2>2, CrcAssumption
<1> DEFINE crc == CrcOf[SrcBlock(s)]
<1>6. CASE table' = table /\ (is_zero_block(SrcBlock(cur)) \/ cur \in dropped')
  <2>1. s < cur
    BY <1>3, <1>4, <1>6
  <2> QED
    BY <1>2, <1>3, <1>6, <2>1 DEF Indexed, Chain
<1>7. CASE table' = hash_table_insert(table, CrcOf[SrcBlock(cur)], cur)
  <2> DEFINE new == CrcOf[SrcBlock(cur)]
             e == [crc32 |-> new, block_index |-> cur]
             h == hash_to_bucket(new)
             g == hash_to_bucket(crc)
  <2>1. cur \in SrcIdx /\ new \in Nat /\ crc \in Nat
    BY <1>1, <1>3, <1>5, SrcBlocksFit DEF SrcIdx
  <2>2. g \in Bucket /\ h \in Bucket
    BY <2>1, BucketAssumption DEF hash_to_bucket, Bucket
  <2>3. table[g] \in Seq(Entry) /\ table[h] \in Seq(Entry)
    BY <1>1, <2>2 DEF Table
  <2>4. e \in Entry
    BY <1>1, <2>1 DEF Entry
  <2> HIDE DEF crc, new, g, h
  <2>5. table'[g] = IF g = h THEN <<e>> \o table[h] ELSE table[g]
    BY <1>1, <1>7, <2>2 DEF hash_table_insert, Table, h, new
  <2>6. s = cur => g = h /\ crc = new
    BY DEF g, h, crc, new
  <2>7. CASE s = cur
    <3>1. table'[g] = <<e>> \o table[h]
      BY <2>5, <2>6, <2>7
    <3>2. 1 \in DOMAIN table'[g] /\ table'[g][1] = e
      BY <2>3, <2>4, <3>1
    <3>3. e.crc32 = crc /\ e.block_index = s
      BY <2>6, <2>7
    <3> QED
      BY <1>2, <3>2, <3>3, ZenonT(60) DEF Indexed, Chain, crc, g
  <2>8. CASE s < cur
    <3>1. PICK p \in DOMAIN table[g] : table[g][p].crc32 = crc /\ table[g][p].block_index = s
      BY <1>3, <2>8 DEF Indexed, Chain, crc, g
    <3>2. CASE g # h
      BY <1>2, <2>5, <3>1, <3>2 DEF Indexed, Chain, crc, g
    <3>3. CASE g = h
      <4>1. p + 1 \in DOMAIN table'[g] /\ table'[g][p + 1] = table[g][p]
        BY <2>3, <2>4, <2>5, <3>1, <3>3
      <4> QED
        BY <1>2, <3>1, <4>1 DEF Indexed, Chain, crc, g
    <3> QED
      BY <3>2, <3>3
  <2> QED
    BY <1>4, <2>7, <2>8
<1> QED
  BY <1>6, <1>7 DEF IndexBlock

\* A block that relocation has looked up and left unmatched has no equal.
LEMMA RelocationLooksUp ==
  ASSUME IInv, RelocationBlock,
         \A i \in tracker.unmatched : Scanned(i),
         \A s \in ToIndex : Indexed(s),
         \A i \in tracker.unmatched : i < cur => Distinct(i)
  PROVE  \A i \in tracker'.unmatched : i < cur' => Distinct(i)
<1> SUFFICES ASSUME NEW i \in tracker'.unmatched, i < cur' PROVE Distinct(i)
  OBVIOUS
<1>1. /\ tracker' = relocation_match(tracker, cur) /\ cur' = cur + 1
      /\ cur \in Nat /\ cur \in DestIdx /\ tracker.unmatched \subseteq DestIdx
  <2>1. tracker' = relocation_match(tracker, cur) /\ cur' = cur + 1 /\ cur < DestBlocks
    BY Zenon DEF RelocationBlock, RunningBlock, NextBlock
  <2>2. cur \in Nat /\ tracker \in Tracker
    BY DEF IInv, TypeOK
  <2>3. tracker.unmatched \subseteq DestIdx
    BY <2>2 DEF Tracker
  <2> QED
    BY <2>1, <2>2, <2>3, DestBlocksAssumption DEF DestIdx
<1>2. i \in tracker.unmatched
  BY UnmatchedStep DEF Next, Controller
<1>3. i \in Nat
  BY <1>1, <1>2, DestBlocksAssumption DEF DestIdx
<1>4. CASE i < cur
  BY <1>2, <1>4
<1>5. CASE i = cur
  <2>1. tracker.blocks[cur].match_type = "NONE"
    BY <1>2, <1>5, UnmatchedIsNone
       DEF RelocationBlock, RunningBlock, is_unmatched
  <2>2. \A type, x : cur \notin set_match(tracker, cur, type, x).unmatched
    BY <1>1, <2>1 DEF set_match
  <2>3. RelocationHits(cur) = {}
    BY <1>1, <1>2, <1>5, <2>2, Zenon DEF relocation_match, is_unmatched
  <2> QED
    BY <1>1, <1>2, <1>5, <2>3, NoHitNoBlock
<1> QED
  BY <1>1, <1>3, <1>4, <1>5

\* A step keeps what is known about relocation.
LEMMA RelocationPreserved ==
  IInv /\ LoopsOK /\ RelocationOK /\ [Next]_vars => RelocationOK'
<1> SUFFICES ASSUME IInv, LoopsOK, RelocationOK, [Next]_vars, opts'["relocation"]
             PROVE  RelocationOK'
  BY DEF RelocationOK
<1>1. opts' = opts
  BY ZenonT(60)
     DEF Next, Controller, Returned, vars, Create, CreateRejected, CreateFailed, Cancel,
       SkipStage, EnterCancelled, StageDone, EnterIdentity, IdentityBlock, EnterRelocation,
       EnterRelocationFailed, IndexBlock, IndexDone, RelocationBlock, EnterFsmap,
       EnterFsmapFailed, FsmapNoHypothesis, FsmapCancelled, FsmapBlock,
       EnterPartial, PartialMatch, PartialSkip, ExtendMatch, Extend, ExtendStop,
       Finalize, Begin, Return, NextBlock
<1>2. /\ tracker.unmatched \subseteq DestIdx /\ cur \in Nat
      /\ stage \in Stage \cup {"create", "finalize", "done"}
      /\ opts["relocation"]
  BY <1>1 DEF IInv, TypeOK, Tracker
<1>3. CASE stage' = "done"
  BY <1>3 DEF RelocationOK
<1>4. CASE Create
  <2>1. stage' = "identity" /\ phase' = "enter" /\ opts["identity"]
    BY <1>2, <1>4, Zenon DEF Create, IInv, ControlOK
  <2> QED
    BY <1>1, <2>1 DEF RelocationOK
<1>5. CASE IdentityBlock
  <2>1. /\ stage = "identity" /\ phase = "run"
        /\ stage' = "identity" /\ phase' = "run"
    BY <1>5, Zenon DEF IdentityBlock, RunningBlock, NextBlock
  <2>2. opts["identity"] /\ \A i \in tracker.unmatched : i < cur => Scanned(i)
    BY <1>2, <2>1 DEF RelocationOK
  <2>3. \A i \in tracker'.unmatched : i < cur' => Scanned(i)'
    BY <1>5, <2>2, IdentityScans
  <2> QED
    BY <1>1, <2>1, <2>2, <2>3 DEF RelocationOK
<1>6. CASE IndexBlock
  <2>1. /\ stage = "relocation" /\ phase = "index" /\ stage' = "relocation"
        /\ phase' = "index" /\ tracker' = tracker /\ src' = src /\ dest' = dest
    BY <1>6, Zenon DEF IndexBlock, Indexing
  <2>2. /\ opts["identity"] /\ \A i \in tracker.unmatched : Scanned(i)
        /\ \A s \in ToIndex : s < cur => Indexed(s)
    BY <1>2, <2>1 DEF RelocationOK
  <2>3. \A i \in tracker'.unmatched : Scanned(i)'
    BY <2>1, <2>2 DEF Scanned, SrcBlock, DestBlock
  <2>4. \A s \in ToIndex' : s < cur' => Indexed(s)'
    BY <1>6, <2>2, IndexAdds
  <2> QED
    BY <1>1, <2>1, <2>2, <2>3, <2>4 DEF RelocationOK
<1>7. CASE EnterRelocation
  <2>1. /\ stage = "relocation" /\ stage' = "relocation" /\ phase' = "index" /\ cur' = 0
        /\ tracker' = tracker /\ src' = src /\ dest' = dest
    BY <1>7, Zenon DEF EnterRelocation, Begin
  <2>2. opts["identity"] /\ \A i \in tracker.unmatched : Scanned(i)
    BY <1>2, <2>1 DEF RelocationOK
  <2>3. \A i \in tracker'.unmatched : Scanned(i)'
    BY <2>1, <2>2 DEF Scanned, SrcBlock, DestBlock
  <2>4. \A s \in ToIndex' : ~(s < cur')
    BY <2>1, SrcBlocksFit DEF ToIndex, SrcIdx
  <2> QED
    BY <1>1, <2>1, <2>2, <2>3, <2>4 DEF RelocationOK
<1>8. CASE ~IdentityBlock /\ ~IndexBlock /\ ~EnterRelocation
  <2>1. UNCHANGED <<table, dropped>>
    BY <1>8, ZenonT(60)
       DEF Next, Controller, Returned, vars, Create, CreateRejected, CreateFailed, Cancel,
       SkipStage, EnterCancelled, StageDone, EnterIdentity,
       EnterRelocationFailed, IndexDone, RelocationBlock, EnterFsmap,
       EnterFsmapFailed, FsmapNoHypothesis, FsmapCancelled, FsmapBlock,
       EnterPartial, PartialMatch, PartialSkip, ExtendMatch, Extend, ExtendStop,
       Finalize, Begin, Return, NextBlock
  <2>2. /\ \A i \in tracker'.unmatched : i \in tracker.unmatched
        /\ \A i \in tracker'.unmatched : Scanned(i) => Scanned(i)'
        /\ \A i : Distinct(i) => Distinct(i)'
        /\ \A s : Indexed(s) => Indexed(s)'
        /\ ToIndex' = ToIndex
    BY <1>1, <1>8, <2>1, FactsKept
  <2>3. CASE RelocationBlock
    <3>1. /\ stage = "relocation" /\ phase = "run"
          /\ stage' = "relocation" /\ phase' = "run"
      BY <2>3, Zenon DEF RelocationBlock, RunningBlock, NextBlock
    <3>2. /\ opts["identity"] /\ \A i \in tracker.unmatched : Scanned(i)
          /\ \A s \in ToIndex : Indexed(s)
          /\ \A i \in tracker.unmatched : i < cur => Distinct(i)
      BY <1>2, <3>1 DEF RelocationOK
    <3>3. \A i \in tracker'.unmatched : i < cur' => Distinct(i)
      BY <2>3, <3>2, RelocationLooksUp
    <3> QED
      BY <1>1, <2>2, <3>1, <3>2, <3>3 DEF RelocationOK
  <2>4. CASE IndexDone
    <3>1. /\ stage = "relocation" /\ phase = "index" /\ cur = SrcBlocks
          /\ stage' = "relocation" /\ phase' = "run" /\ cur' = 0
      BY <2>4, Zenon DEF IndexDone, Indexing
    <3>2. /\ opts["identity"] /\ \A i \in tracker.unmatched : Scanned(i)
          /\ \A s \in ToIndex : s < cur => Indexed(s)
      BY <1>2, <3>1 DEF RelocationOK
    <3>3. \A s \in ToIndex : s < cur
      BY <3>1, SrcBlocksFit DEF ToIndex, SrcIdx
    <3>4. \A i \in tracker'.unmatched : ~(i < cur')
      BY <1>2, <2>2, <3>1, DestBlocksAssumption, SMTT(60) DEF DestIdx
    <3> QED
      BY <1>1, <2>2, <3>1, <3>2, <3>3, <3>4 DEF RelocationOK
  <2>5. CASE StageDone
    <3>1. /\ stage \in Stage /\ stage' = NextStage[stage] /\ phase = "run"
          /\ phase' = "enter" /\ cur = DestBlocks
      BY <2>5, Zenon DEF StageDone
    <3>2. \A i \in tracker.unmatched : i < cur
      BY <1>2, <3>1, DestBlocksAssumption DEF DestIdx
    <3>3. CASE stage = "identity"
      <4>1. stage' = "relocation"
        BY <3>1, <3>3 DEF NextStage
      <4>2. opts["identity"] /\ \A i \in tracker.unmatched : Scanned(i)
        BY <1>2, <3>1, <3>2, <3>3 DEF RelocationOK
      <4> QED
        BY <1>1, <2>2, <3>1, <4>1, <4>2 DEF RelocationOK
    <3>4. CASE stage # "identity"
      <4>1. /\ stage \in {"relocation", "fsmap", "partial"}
            /\ stage' \in {"fsmap", "partial", "finalize"}
        BY <3>1, <3>4 DEF NextStage, Stage
      <4>2. /\ opts["identity"] /\ \A i \in tracker.unmatched : Scanned(i)
            /\ \A i \in tracker.unmatched : Distinct(i)
        BY <1>2, <3>1, <3>2, <4>1 DEF RelocationOK
      <4> QED
        BY <1>1, <2>2, <3>1, <4>1, <4>2 DEF RelocationOK
    <3> QED
      BY <3>3, <3>4
  <2>6. CASE SkipStage
    <3>1. /\ stage \in Stage /\ ~opts[stage] /\ stage' = NextStage[stage]
      BY <2>6, Zenon DEF SkipStage, AtEntry
    <3>2. stage # "relocation" /\ stage # "identity"
      BY <1>2, <3>1 DEF RelocationOK
    <3>3. stage \in {"fsmap", "partial"} /\ stage' \in {"partial", "finalize"}
      BY <3>1, <3>2 DEF NextStage, Stage
    <3>4. /\ opts["identity"] /\ \A i \in tracker.unmatched : Scanned(i)
          /\ \A i \in tracker.unmatched : Distinct(i)
      BY <1>2, <3>3 DEF RelocationOK
    <3> QED
      BY <1>1, <2>2, <3>3, <3>4 DEF RelocationOK
  <2>7. CASE EnterIdentity
    <3>1. stage = "identity" /\ stage' = "identity" /\ cur' = 0
      BY <2>7, Zenon DEF EnterIdentity, Begin
    <3>2. opts["identity"] /\ \A i \in tracker'.unmatched : ~(i < cur')
      BY <1>2, <2>2, <3>1, DestBlocksAssumption DEF RelocationOK, DestIdx
    <3> QED
      BY <1>1, <3>1, <3>2 DEF RelocationOK
  <2>8. CASE \/ EnterFsmap \/ EnterPartial \/ FsmapNoHypothesis \/ FsmapBlock
             \/ PartialMatch \/ PartialSkip \/ ExtendMatch \/ ExtendStop
    <3>1. stage \in {"fsmap", "partial"} /\ stage' = stage
      BY <2>8, Zenon DEF EnterFsmap, EnterPartial, FsmapNoHypothesis, FsmapBlock,
         FsmapRunning, PartialMatch, PartialSkip, ExtendMatch, Extend, Extending,
         ExtendStop, RunningBlock, Begin, NextBlock
    <3>2. /\ opts["identity"] /\ \A i \in tracker.unmatched : Scanned(i)
          /\ \A i \in tracker.unmatched : Distinct(i)
      BY <1>2, <3>1 DEF RelocationOK
    <3> QED
      BY <1>1, <2>2, <3>1, <3>2 DEF RelocationOK
  <2>9. CASE Cancel \/ Returned \/ UNCHANGED vars
    <3>1. UNCHANGED <<stage, phase, cur>>
      BY <2>9 DEF Cancel, Returned, vars
    <3> QED
      BY <1>1, <1>2, <2>2, <3>1 DEF RelocationOK
  <2>10. CASE \/ CreateRejected \/ CreateFailed \/ EnterCancelled
              \/ EnterRelocationFailed \/ EnterFsmapFailed \/ FsmapCancelled \/ Finalize
    <3>1. stage' = "done"
      BY <2>10, Zenon DEF CreateRejected, CreateFailed, EnterCancelled,
         EnterRelocationFailed, EnterFsmapFailed, FsmapCancelled, Finalize, Return
    <3> QED
      BY <1>3, <3>1
  <2> QED
    BY <1>4, <1>8, <2>3, <2>4, <2>5, <2>6, <2>7, <2>8, <2>9, <2>10, Zenon
       DEF Next, Controller
<1> QED
  BY <1>5, <1>6, <1>7, <1>8

\* Once relocation has run, a block that is still unmatched differs from every
\* source block whose hash entry could be allocated.
THEOREM RelocationIsComplete == Spec => []RelocationComplete
<1>1. Init => RelocationOK
  BY DEF Init, RelocationOK
<1>2. RelocationOK => RelocationComplete
  BY DEF RelocationOK, RelocationComplete, Distinct
<1> QED
  BY <1>1, <1>2, RelocationPreserved, InvariantHolds, LoopsBounded, PTL DEF Spec
=============================================================================
