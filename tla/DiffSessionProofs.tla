------------------------- MODULE DiffSessionProofs -------------------------
(***************************************************************************)
(* fsd_diff_files, called any number of times with streams of any length   *)
(* and any number of looks at the cancel flag, while another thread may    *)
(* cancel.                                                                 *)
(***************************************************************************)
EXTENDS DiffSession, TLAPS

Opening == {"source", "dest", "controller"}
Before == Opening \cup {"match"}
After == {"fdopen", "writers", "encoder", "encode", "output", "copy", "close", "cleanup"}
Places == {"idle", "cancelled"} \cup Before \cup After

(***************************************************************************)
(* What is given back                                                      *)
(***************************************************************************)
\* What a run holds at each place.
HeldAt ==
  /\ pc \in Places
  /\ pc \in {"idle", "source", "cancelled"} => held = {}
  /\ pc = "dest" => held = {"src_reader"}
  /\ pc = "controller" => held = Reader
  /\ pc \in {"match", "fdopen", "writers", "encoder"} => held = Reader \cup {"controller"}
  /\ pc \in {"encode", "output", "cleanup"} => held \subseteq Reader \cup {"controller", "encoder"}
  /\ pc \in {"copy", "close"} => held \subseteq Reader \cup {"controller", "encoder", "output"}
  /\ pc \in {"idle", "cancelled"} \cup Before => temp = {} /\ file = NoFile
  /\ pc \in {"idle", "cancelled", "fdopen", "writers"} \cup Before => writer = {}

\* Every return path of a run gives back what the path took.
THEOREM EverythingReleased == Spec => []AllReleased
<1>1. Init => HeldAt
  BY DEF Init, HeldAt, Places
<1>2. HeldAt /\ [Next]_vars => HeldAt'
  <2> SUFFICES ASSUME HeldAt, [Next]_vars PROVE HeldAt'
    OBVIOUS
  <2> USE DEF HeldAt, Places, Before, After, Opening, Reader
  <2>1. CASE UNCHANGED vars
    BY <2>1 DEF vars, streamVars
  <2>2. CASE Start
    BY <2>2 DEF Start
  <2>3. CASE Cancel
    BY <2>3 DEF Cancel, streamVars
  <2>4. CASE OpenSource \/ MapDest \/ CreateController \/ CreateEncoder
    BY <2>4 DEF OpenSource, MapDest, CreateController, CreateEncoder, Acquire, streamVars
  <2>5. CASE OpenSourceFailed \/ MapDestFailed \/ InputRejected \/ StageFailed
    BY <2>5 DEF OpenSourceFailed, MapDestFailed, InputRejected, StageFailed, Return
  <2>6. CASE StageRuns \/ StageCancelled \/ CancelledReturn
    BY <2>6 DEF StageRuns, StageCancelled, CancelledReturn, streamVars
  <2>7. CASE CreateTemps \/ FdOpen \/ CreateWriters
    BY <2>7 DEF CreateTemps, FdOpen, CreateWriters
  <2>8. CASE TempsFailed \/ FdOpenFailed
    BY <2>8 DEF TempsFailed, FdOpenFailed, Return
  <2>9. CASE EncoderFailed \/ EncodeRefused \/ EncodeFailed \/ OpenOutputFailed
    BY <2>9 DEF EncoderFailed, EncodeRefused, EncodeFailed, OpenOutputFailed, GotoCleanup, streamVars
  <2>10. CASE EncodeAndFlush \/ OpenOutput \/ CopyStreams \/ CopyFailed \/ CloseOutput
    BY <2>10 DEF EncodeAndFlush, OpenOutput, CopyStreams, CopyFailed, CloseOutput, streamVars
  <2>11. CASE Cleanup
    BY <2>11 DEF Cleanup
  <2> QED
    BY <2>1, <2>2, <2>3, <2>4, <2>5, <2>6, <2>7, <2>8, <2>9, <2>10, <2>11 DEF Next, DiffFiles
<1>3. HeldAt => AllReleased
  BY DEF HeldAt, AllReleased, Reader
<1> QED
  BY <1>1, <1>2, <1>3, PTL DEF Spec

(***************************************************************************)
(* The patch                                                               *)
(***************************************************************************)
\* Success is what a run carries until something fails; at the end it means
\* that the lengths of the header are the lengths of the streams copied.
PatchAt ==
  /\ pc \in Places
  /\ out \in [kind : OutputKind, data : {"none", "old", "partial", "patch"}]
  /\ pc \in {"copy", "close"} => header = len
  /\ pc = "close" /\ err = "SUCCESS" => copied = len
  /\ pc \in {"cleanup", "idle"} /\ err = "SUCCESS" =>
       /\ out.data = "patch" /\ header = len /\ copied = len
       /\ stats = len["op"] + len["diff"] + len["lit"]

\* A run returns success only with a whole patch behind the header.
THEOREM SuccessIsComplete == Spec => []PatchComplete
<1>1. Init => PatchAt
  BY DEF Init, PatchAt, Places, OutputKind
<1>2. PatchAt /\ [Next]_vars => PatchAt'
  <2> SUFFICES ASSUME PatchAt, [Next]_vars PROVE PatchAt'
    OBVIOUS
  <2> USE DEF PatchAt, Places, Before, After, Opening, OutputKind
  <2>1. CASE UNCHANGED vars
    BY <2>1 DEF vars, ctxVars, streamVars, outVars
  <2>2. CASE Start
    BY <2>2 DEF Start
  <2>3. CASE Cancel
    BY <2>3 DEF Cancel, ctxVars, streamVars, outVars
  <2>4. CASE OpenSource \/ MapDest \/ CreateController \/ CreateEncoder
    BY <2>4 DEF OpenSource, MapDest, CreateController, CreateEncoder, Acquire, ctxVars, streamVars, outVars
  <2>5. CASE OpenSourceFailed \/ MapDestFailed \/ InputRejected \/ StageFailed
    BY <2>5 DEF OpenSourceFailed, MapDestFailed, InputRejected, StageFailed, Return, ctxVars, streamVars, outVars
  <2>6. CASE StageRuns \/ StageCancelled \/ CancelledReturn
    BY <2>6 DEF StageRuns, StageCancelled, CancelledReturn, ctxVars, streamVars, outVars
  <2>7. CASE CreateTemps \/ FdOpen \/ CreateWriters
    BY <2>7 DEF CreateTemps, FdOpen, CreateWriters, ctxVars, streamVars, outVars
  <2>8. CASE TempsFailed \/ FdOpenFailed
    BY <2>8 DEF TempsFailed, FdOpenFailed, Return, ctxVars, streamVars, outVars
  <2>9. CASE EncoderFailed \/ EncodeRefused \/ EncodeFailed \/ OpenOutputFailed
    BY <2>9 DEF EncoderFailed, EncodeRefused, EncodeFailed, OpenOutputFailed, GotoCleanup, ctxVars, streamVars, outVars
  <2>10. CASE EncodeAndFlush
    BY <2>10 DEF EncodeAndFlush, ctxVars, streamVars, outVars
  <2>11. CASE OpenOutput
    BY <2>11 DEF OpenOutput, ctxVars, streamVars, outVars
  <2>12. CASE CopyStreams \/ CopyFailed
    BY <2>12 DEF CopyStreams, CopyFailed, ctxVars, streamVars, outVars
  <2>13. CASE CloseOutput
    BY <2>13 DEF CloseOutput, ctxVars, streamVars, outVars
  <2>14. CASE Cleanup
    BY <2>14 DEF Cleanup, ctxVars, streamVars, outVars
  <2> QED
    BY <2>1, <2>2, <2>3, <2>4, <2>5, <2>6, <2>7, <2>8, <2>9, <2>10, <2>11, <2>12, <2>13, <2>14
    DEF Next, DiffFiles
<1>3. PatchAt => PatchComplete
  BY DEF PatchAt, PatchComplete
<1> QED
  BY <1>1, <1>2, <1>3, PTL DEF Spec

(***************************************************************************)
(* The output path                                                         *)
(***************************************************************************)
\* Part of a patch is at a regular path only while the run that wrote it is
\* going to remove it, and only such a path is ever removed.
OutputAt ==
  /\ pc \in Places
  /\ out \in [kind : OutputKind, data : {"none", "old", "partial", "patch"}]
  /\ unlink_output_on_error => out.kind # "special"
  /\ out.kind = "regular" /\ out.data = "partial" =>
       /\ pc \in {"copy", "close", "cleanup"} /\ unlink_output_on_error
       /\ pc = "cleanup" => err # "SUCCESS"

\* The output path is never left with part of a patch, and a device node at
\* it stays what it is.
THEOREM OutputIsSafe == Spec => OutputSafe
<1>1. Init => OutputAt
  BY DEF Init, OutputAt, Places, OutputKind
<1>2. OutputAt /\ [Next]_vars => OutputAt'
  <2> SUFFICES ASSUME OutputAt, [Next]_vars PROVE OutputAt'
    OBVIOUS
  <2> USE DEF OutputAt, Places, Before, After, Opening, OutputKind
  <2>1. CASE UNCHANGED vars
    BY <2>1 DEF vars, ctxVars, streamVars, outVars
  <2>2. CASE Start
    BY <2>2 DEF Start
  <2>3. CASE Cancel
    BY <2>3 DEF Cancel, ctxVars, streamVars, outVars
  <2>4. CASE OpenSource \/ MapDest \/ CreateController \/ CreateEncoder
    BY <2>4 DEF OpenSource, MapDest, CreateController, CreateEncoder, Acquire, ctxVars, streamVars, outVars
  <2>5. CASE OpenSourceFailed \/ MapDestFailed \/ InputRejected \/ StageFailed
    BY <2>5 DEF OpenSourceFailed, MapDestFailed, InputRejected, StageFailed, Return, ctxVars, streamVars, outVars
  <2>6. CASE StageRuns \/ StageCancelled \/ CancelledReturn
    BY <2>6 DEF StageRuns, StageCancelled, CancelledReturn, ctxVars, streamVars, outVars
  <2>7. CASE CreateTemps \/ FdOpen \/ CreateWriters
    BY <2>7 DEF CreateTemps, FdOpen, CreateWriters, ctxVars, streamVars, outVars
  <2>8. CASE TempsFailed \/ FdOpenFailed
    BY <2>8 DEF TempsFailed, FdOpenFailed, Return, ctxVars, streamVars, outVars
  <2>9. CASE EncoderFailed \/ EncodeRefused \/ EncodeFailed \/ OpenOutputFailed
    BY <2>9 DEF EncoderFailed, EncodeRefused, EncodeFailed, OpenOutputFailed, GotoCleanup, ctxVars, streamVars, outVars
  <2>10. CASE EncodeAndFlush
    BY <2>10 DEF EncodeAndFlush, ctxVars, streamVars, outVars
  <2>11. CASE OpenOutput
    BY <2>11 DEF OpenOutput, ctxVars, streamVars, outVars
  <2>12. CASE CopyStreams \/ CopyFailed
    BY <2>12 DEF CopyStreams, CopyFailed, ctxVars, streamVars, outVars
  <2>13. CASE CloseOutput
    BY <2>13 DEF CloseOutput, ctxVars, streamVars, outVars
  <2>14. CASE Cleanup
    BY <2>14 DEF Cleanup, ctxVars, streamVars, outVars
  <2> QED
    BY <2>1, <2>2, <2>3, <2>4, <2>5, <2>6, <2>7, <2>8, <2>9, <2>10, <2>11, <2>12, <2>13, <2>14
    DEF Next, DiffFiles
<1>3. OutputAt /\ OutputAt' /\ [Next]_vars =>
        [/\ pc' = "idle" => ~(out'.kind = "regular" /\ out'.data = "partial")
         /\ out.kind = "special" => out'.kind = "special"]_vars
  <2> SUFFICES ASSUME OutputAt, OutputAt', Next
               PROVE  /\ pc' = "idle" => ~(out'.kind = "regular" /\ out'.data = "partial")
                      /\ out.kind = "special" => out'.kind = "special"
    OBVIOUS
  <2>1. pc' = "idle" => ~(out'.kind = "regular" /\ out'.data = "partial")
    BY DEF OutputAt
  <2>2. CASE OpenOutput
    BY <2>2 DEF OpenOutput
  <2>3. CASE CloseOutput
    BY <2>3 DEF CloseOutput, OutputAt
  <2>4. CASE Cleanup
    BY <2>4 DEF Cleanup, OutputAt
  <2>5. CASE ~OpenOutput /\ ~CloseOutput /\ ~Cleanup
    <3>1. out' = out
      BY <2>5 DEF Next, DiffFiles, Start, Cancel, Acquire, OpenSource, MapDest, CreateController,
        CreateEncoder, Return, OpenSourceFailed, MapDestFailed, InputRejected, StageFailed,
        StageRuns, StageCancelled, CancelledReturn, CreateTemps, FdOpen, CreateWriters,
        TempsFailed, FdOpenFailed, GotoCleanup, EncoderFailed, EncodeRefused, EncodeFailed,
        OpenOutputFailed, EncodeAndFlush, CopyStreams, CopyFailed, outVars
    <3> QED
      BY <2>1, <3>1
  <2> QED
    BY <2>1, <2>2, <2>3, <2>4, <2>5
<1> QED
  BY <1>1, <1>2, <1>3, PTL DEF Spec, OutputSafe

(***************************************************************************)
(* Cancellation                                                            *)
(***************************************************************************)
\* An early cancel keeps the flag set until the controller looks at it, and
\* no run gets past its last look with the flag set early.
CancelAt ==
  /\ pc \in Places /\ checks \in Nat
  /\ pc \in Before /\ early => cancelled /\ checks > 0
  /\ pc \in After => checks = 0 /\ ~early
  /\ pc = "idle" /\ early => err # "SUCCESS"

\* A cancel before the last look at the flag keeps the run from success.
THEOREM EarlyCancelHonoured == Spec => []CancelHonoured
<1>1. Init => CancelAt
  BY DEF Init, CancelAt, Places, Before, After, Opening
<1>2. CancelAt /\ [Next]_vars => CancelAt'
  <2> SUFFICES ASSUME CancelAt, [Next]_vars PROVE CancelAt'
    OBVIOUS
  <2> USE SessionAssumption DEF CancelAt, Places, Before, After, Opening
  <2>1. CASE UNCHANGED vars
    BY <2>1 DEF vars, ctxVars
  <2>2. CASE Start
    <3>1. checks' \in Nat /\ pc' = "source"
      BY <2>2 DEF Start
    <3>2. early' => cancelled' /\ checks' > 0
      BY <2>2, Zenon DEF Start
    <3> QED
      BY <3>1, <3>2
  <2>3. CASE Cancel
    <3>1. UNCHANGED <<pc, err, checks>> /\ cancelled'
      BY <2>3, Zenon DEF Cancel
    <3>2. early' => early \/ (pc # "idle" /\ checks > 0)
      BY <2>3, Zenon DEF Cancel
    <3> QED
      BY <3>1, <3>2
  <2>4. CASE OpenSource \/ MapDest \/ CreateController \/ CreateEncoder
    BY <2>4 DEF OpenSource, MapDest, CreateController, CreateEncoder, Acquire, ctxVars
  <2>5. CASE OpenSourceFailed \/ MapDestFailed \/ InputRejected \/ StageFailed
    BY <2>5 DEF OpenSourceFailed, MapDestFailed, InputRejected, StageFailed, Return, ctxVars
  <2>6. CASE StageRuns
    <3>1. checks' \in Nat /\ pc' = "match" /\ ~early'
      BY <2>6 DEF StageRuns, ctxVars
    <3> QED
      BY <3>1
  <2>7. CASE CreateTemps \/ FdOpen \/ CreateWriters
    BY <2>7 DEF CreateTemps, FdOpen, CreateWriters, ctxVars
  <2>8. CASE TempsFailed \/ FdOpenFailed
    BY <2>8 DEF TempsFailed, FdOpenFailed, Return, ctxVars
  <2>9. CASE EncoderFailed \/ EncodeRefused \/ EncodeFailed \/ OpenOutputFailed
    BY <2>9 DEF EncoderFailed, EncodeRefused, EncodeFailed, OpenOutputFailed, GotoCleanup, ctxVars
  <2>10. CASE EncodeAndFlush
    BY <2>10 DEF EncodeAndFlush, ctxVars
  <2>11. CASE OpenOutput
    BY <2>11 DEF OpenOutput, ctxVars
  <2>12. CASE CopyStreams \/ CopyFailed
    BY <2>12 DEF CopyStreams, CopyFailed, ctxVars
  <2>13. CASE CloseOutput
    BY <2>13 DEF CloseOutput, ctxVars
  <2>14. CASE Cleanup
    BY <2>14 DEF Cleanup, ctxVars
  <2>15. CASE StageCancelled \/ CancelledReturn
    BY <2>15 DEF StageCancelled, CancelledReturn, ctxVars
  <2> QED
    BY <2>1, <2>2, <2>3, <2>4, <2>5, <2>6, <2>7, <2>8, <2>9, <2>10, <2>11, <2>12, <2>13, <2>14, <2>15
    DEF Next, DiffFiles
<1>3. CancelAt => CancelHonoured
  BY DEF CancelAt, CancelHonoured
<1> QED
  BY <1>1, <1>2, <1>3, PTL DEF Spec
=============================================================================
