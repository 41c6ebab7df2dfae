---------------------------- MODULE DiffSession ----------------------------
(***************************************************************************)
(* fsd_diff_files on one context, called several times, while another      *)
(* thread may call fsd_diff_cancel: what is opened, created and written,   *)
(* what every return path gives back, and what the output path holds       *)
(* afterwards.  What the stages record and the encoder writes is in        *)
(* StageController and OpEncoder; here a stream is its length.             *)
(***************************************************************************)
EXTENDS Integers, FiniteSets

CONSTANTS
  MaxRuns,        \* calls of fsd_diff_files
  MaxChecks,      \* looks at the cancel flag in one run of the controller
  MaxLen          \* longest stream

ASSUME SessionAssumption == MaxRuns \in Nat /\ MaxChecks \in Nat /\ MaxLen \in Nat

Stream == {"op", "diff", "lit"}
Reader == {"src_reader", "dest_reader"}
Lengths == [Stream -> 0..MaxLen]
OutputKind == {"missing", "regular", "special"}

VARIABLES
  runs,           \* calls made so far
  cancelled,      \* ctx->cancelled
  stats,          \* ctx->stats.patch_size, without the header
  pc, err,        \* where the call is, and what it returned last
  checks,         \* looks at the cancel flag still to come
  len,            \* the streams that this run's tracker encodes to
  held,           \* readers, controller, encoder, output file
  file,           \* per stream: no file, a descriptor, or a FILE
  temp,           \* streams whose temporary file exists
  writer,         \* streams that have a writer
  temp_len,       \* bytes in the temporary files
  header, copied, \* stream lengths in the patch header, bytes that followed
  out,            \* the output path: its kind and what it holds
  unlink_output_on_error,
  early,          \* history: a cancel before this run's last look at the flag
  leaked          \* history: FILEs nobody closes any more

ctxVars == <<runs, cancelled, stats, early, leaked>>
streamVars == <<len, file, temp, writer, temp_len>>
outVars == <<header, copied, out, unlink_output_on_error>>
vars == <<ctxVars, pc, err, checks, held, streamVars, outVars>>

NoLength == [s \in Stream |-> 0]
NoFile == [s \in Stream |-> "none"]

Init ==
  /\ runs = 0 /\ cancelled = FALSE /\ stats = 0
  /\ pc = "idle" /\ err = "none" /\ checks = 0
  /\ len = NoLength /\ held = {}
  /\ file = NoFile /\ temp = {} /\ writer = {} /\ temp_len = NoLength
  /\ header = NoLength /\ copied = NoLength
  /\ out \in {[kind |-> "missing", data |-> "none"], [kind |-> "regular", data |-> "old"],
              [kind |-> "special", data |-> "old"]}
  /\ unlink_output_on_error = FALSE
  /\ early = FALSE /\ leaked = {}

\* Mutant: the flag is cleared when a run starts.
Start_clears ==
  /\ pc = "idle" /\ runs < MaxRuns
  /\ runs' = runs + 1
  /\ len' \in Lengths /\ checks' \in 0..MaxChecks
  /\ early' = (cancelled /\ checks' > 0)
  /\ cancelled' = FALSE
  /\ pc' = "source" /\ err' = "SUCCESS"
  /\ unlink_output_on_error' = FALSE
  /\ UNCHANGED <<stats, leaked, held, file, temp, writer, temp_len,
                 header, copied, out>>

\* The flag is not cleared when a run starts.
Start ==
  /\ pc = "idle" /\ runs < MaxRuns
  /\ runs' = runs + 1
  /\ len' \in Lengths /\ checks' \in 0..MaxChecks
  /\ early' = (cancelled /\ checks' > 0)
  /\ pc' = "source" /\ err' = "SUCCESS"
  /\ unlink_output_on_error' = FALSE
  /\ UNCHANGED <<cancelled, stats, leaked, held, file, temp, writer, temp_len,
                 header, copied, out>>

\* fsd_diff_cancel, from any thread, at any moment; a second call before the
\* run returns changes nothing.
Cancel ==
  /\ cancelled' = TRUE
  /\ early' = (early \/ (pc # "idle" /\ checks > 0))
  /\ UNCHANGED <<runs, stats, leaked, pc, err, checks, held, streamVars, outVars>>

\* A return before the temporary files are open, which closes what it names.
Return(e, released) ==
  /\ pc' = "idle" /\ err' = e /\ checks' = 0
  /\ held' = held \ released
  /\ UNCHANGED <<runs, cancelled, stats, early, leaked, len, writer, temp_len, outVars>>

\* A step that succeeds and takes hold of r.
Acquire(at, r, next) ==
  /\ pc = at /\ pc' = next
  /\ held' = held \cup r
  /\ UNCHANGED <<ctxVars, err, checks, streamVars, outVars>>

(***************************************************************************)
(* The images and the stages                                               *)
(***************************************************************************)
OpenSource == Acquire("source", {"src_reader"}, "dest")

OpenSourceFailed ==
  pc = "source" /\ (\E e \in {"IO", "OUT_OF_MEMORY"} : Return(e, {})) /\ UNCHANGED <<file, temp>>

MapDest == Acquire("dest", {"dest_reader"}, "controller")

\* Mutant: the source stays open.
MapDestFailed_leaks ==
  pc = "dest" /\ (\E e \in {"IO", "OUT_OF_MEMORY"} : Return(e, {})) /\ UNCHANGED <<file, temp>>

MapDestFailed ==
  /\ pc = "dest" /\ (\E e \in {"IO", "OUT_OF_MEMORY"} : Return(e, {"src_reader"}))
  /\ UNCHANGED <<file, temp>>

CreateController == Acquire("controller", {"controller"}, "match")

\* No source data, a destination that is not a whole number of blocks, or no
\* controller.
InputRejected ==
  /\ pc = "controller"
  /\ \E e \in {"IO", "OUT_OF_MEMORY", "SIZE_MISMATCH", "INVALID_ARG"} : Return(e, Reader)
  /\ UNCHANGED <<file, temp>>

StageRuns ==
  /\ pc = "match" /\ checks > 0 /\ ~cancelled
  /\ checks' = checks - 1
  /\ UNCHANGED <<ctxVars, pc, err, held, streamVars, outVars>>

StageCancelled ==
  /\ pc = "match" /\ checks > 0 /\ cancelled
  /\ pc' = "cancelled"
  /\ held' = held \ (Reader \cup {"controller"})
  /\ UNCHANGED <<ctxVars, err, checks, streamVars, outVars>>

\* The request was honoured: the flag is cleared for the next run.
CancelledReturn ==
  /\ pc = "cancelled"
  /\ pc' = "idle" /\ err' = "CANCELLED" /\ checks' = 0
  /\ cancelled' = FALSE
  /\ UNCHANGED <<runs, stats, early, leaked, held, streamVars, outVars>>

StageFailed ==
  /\ pc = "match" /\ Return("OUT_OF_MEMORY", Reader \cup {"controller"})
  /\ UNCHANGED <<file, temp>>

(***************************************************************************)
(* Temporary files, writers, encoding                                      *)
(***************************************************************************)
CreateTemps ==
  /\ pc = "match" /\ checks = 0
  /\ \E made \in SUBSET Stream :
       /\ file' = [s \in Stream |-> IF s \in made THEN "fd" ELSE "none"]
       /\ temp' = made
  /\ pc' = "fdopen"
  /\ UNCHANGED <<ctxVars, err, checks, held, len, writer, temp_len, outVars>>

\* Close and unlink the ones that were made.
TempsFailed ==
  /\ pc = "fdopen" /\ temp # Stream
  /\ file' = NoFile /\ temp' = {}
  /\ Return("IO", Reader \cup {"controller"})

FdOpen ==
  /\ pc = "fdopen" /\ temp = Stream
  /\ \E opened \in SUBSET Stream :
       file' = [s \in Stream |-> IF s \in opened THEN "FILE" ELSE "fd"]
  /\ pc' = "writers"
  /\ UNCHANGED <<ctxVars, err, checks, held, len, temp, writer, temp_len, outVars>>

\* A descriptor without a FILE is closed as a descriptor.
FdOpenFailed ==
  /\ pc = "writers" /\ \E s \in Stream : file[s] # "FILE"
  /\ file' = NoFile /\ temp' = {}
  /\ Return("IO", Reader \cup {"controller"})

\* The three results are not looked at: any writer may be missing.
CreateWriters ==
  /\ pc = "writers" /\ \A s \in Stream : file[s] = "FILE"
  /\ writer' \in SUBSET Stream
  /\ pc' = "encoder"
  /\ UNCHANGED <<ctxVars, err, checks, held, len, file, temp, temp_len, outVars>>

GotoCleanup(e) ==
  /\ pc' = "cleanup" /\ err' = e
  /\ UNCHANGED <<ctxVars, checks, held, streamVars, outVars>>

CreateEncoder == Acquire("encoder", {"encoder"}, "encode")

EncoderFailed == pc = "encoder" /\ GotoCleanup("OUT_OF_MEMORY")

EncodeRefused == pc = "encode" /\ writer # Stream /\ GotoCleanup("INVALID_ARG")

EncodeFailed ==
  /\ pc = "encode" /\ writer = Stream
  /\ \E e \in {"IO", "OUT_OF_MEMORY"} : GotoCleanup(e)

\* Encoded, flushed and fflushed; even so a file may have lost its end.
EncodeAndFlush ==
  /\ pc = "encode" /\ writer = Stream
  /\ temp_len' \in {f \in Lengths : \A s \in Stream : f[s] <= len[s]}
  /\ pc' = "output"
  /\ UNCHANGED <<ctxVars, err, checks, held, len, file, temp, writer, outVars>>

(***************************************************************************)
(* The patch file                                                          *)
(***************************************************************************)
OpenOutputFailed == pc = "output" /\ GotoCleanup("IO")

\* fopen "wb" cuts what was there; only a path that was regular or missing
\* may be unlinked later.  The header takes the lengths from the writers.
OpenOutput ==
  /\ pc = "output" /\ pc' = "copy"
  /\ unlink_output_on_error' = (out.kind # "special")
  /\ out' = [kind |-> IF out.kind = "missing" THEN "regular" ELSE out.kind,
             data |-> "partial"]
  /\ header' = len /\ copied' = NoLength
  /\ held' = held \cup {"output"}
  /\ UNCHANGED <<ctxVars, err, checks, streamVars>>

\* Mutant: the bytes that come back are not counted.
CopyStreams_uncounted ==
  /\ pc = "copy"
  /\ copied' = temp_len
  /\ pc' = "close"
  /\ UNCHANGED <<ctxVars, err, checks, held, streamVars, header, out, unlink_output_on_error>>

\* fsd_copy_stream, three times: the bytes that come back are counted.
CopyStreams ==
  /\ pc = "copy" /\ temp_len = header
  /\ copied' = temp_len
  /\ pc' = "close"
  /\ UNCHANGED <<ctxVars, err, checks, held, streamVars, header, out, unlink_output_on_error>>

\* Reading or writing fails, or a stream is shorter than the header says.
CopyFailed ==
  /\ pc = "copy"
  /\ copied' \in {f \in Lengths : \A s \in Stream : f[s] <= temp_len[s]}
  /\ pc' = "close" /\ err' = "IO"
  /\ UNCHANGED <<ctxVars, checks, held, streamVars, header, out, unlink_output_on_error>>

\* fclose writes what stdio still holds, and may fail.
CloseOutput ==
  /\ pc = "close" /\ pc' = "cleanup"
  /\ held' = held \ {"output"}
  /\ \/ /\ err = "SUCCESS" /\ UNCHANGED err
        /\ out' = [out EXCEPT !.data = "patch"]
        /\ stats' = copied["op"] + copied["diff"] + copied["lit"]
     \/ err' = "IO" /\ UNCHANGED <<out, stats>>
  /\ UNCHANGED <<runs, cancelled, early, leaked, checks, streamVars, header, copied,
                 unlink_output_on_error>>

\* Mutant: the output is left as it is.
Cleanup_keeps ==
  /\ pc = "cleanup" /\ pc' = "idle"
  /\ file' = NoFile /\ temp' = {} /\ writer' = {} /\ temp_len' = NoLength
  /\ leaked' = leaked \cup (Stream \ writer)
  /\ held' = held \ (Reader \cup {"controller", "encoder"})
  /\ UNCHANGED <<runs, cancelled, stats, early, err, checks, len, header, copied, out,
                 unlink_output_on_error>>

\* The label cleanup: a FILE is closed by its writer.
Cleanup ==
  /\ pc = "cleanup" /\ pc' = "idle"
  /\ file' = NoFile /\ temp' = {} /\ writer' = {} /\ temp_len' = NoLength
  /\ leaked' = leaked \cup (Stream \ writer)
  /\ out' = IF err # "SUCCESS" /\ unlink_output_on_error
            THEN [kind |-> "missing", data |-> "none"] ELSE out
  /\ held' = held \ (Reader \cup {"controller", "encoder"})
  /\ UNCHANGED <<runs, cancelled, stats, early, err, checks, len, header, copied,
                 unlink_output_on_error>>

DiffFiles ==
  \/ OpenSource \/ OpenSourceFailed \/ MapDest \/ MapDestFailed
  \/ CreateController \/ InputRejected
  \/ StageRuns \/ StageCancelled \/ CancelledReturn \/ StageFailed
  \/ CreateTemps \/ TempsFailed \/ FdOpen \/ FdOpenFailed \/ CreateWriters
  \/ CreateEncoder \/ EncoderFailed \/ EncodeRefused \/ EncodeFailed \/ EncodeAndFlush
  \/ OpenOutputFailed \/ OpenOutput \/ CopyStreams \/ CopyFailed \/ CloseOutput \/ Cleanup

Next == Start \/ Cancel \/ DiffFiles

Spec == Init /\ [][Next]_vars

(***************************************************************************)
(* Properties                                                              *)
(***************************************************************************)
\* A run that returns success leaves a whole patch: the three streams follow
\* the header with the lengths it gives, although a temporary file may lose
\* its end and a disk may only be found full when the patch is closed.
PatchComplete ==
  pc = "idle" /\ err = "SUCCESS" =>
    /\ out.data = "patch"
    /\ header = len /\ copied = len
    /\ stats = len["op"] + len["diff"] + len["lit"]

\* Whichever return is taken, readers, controller, encoder, descriptors and
\* temporary files of the run are given back; FILEs that no writer owns are
\* what FilesClosed is about.
AllReleased == pc = "idle" => held = {} /\ temp = {} /\ writer = {} /\ file = NoFile

\* No return leaves part of a patch at a regular output path, and no step,
\* the removal of a failed output included, removes or replaces a device node
\* or the like.
OutputSafe ==
  [][/\ pc' = "idle" => ~(out'.kind = "regular" /\ out'.data = "partial")
     /\ out.kind = "special" => out'.kind = "special"]_vars

\* A cancel that comes before the last look at the flag, be it before the
\* run starts, is honoured: the run does not return success.
CancelHonoured == pc = "idle" /\ early => err # "SUCCESS"

\* diff.c hands the FILEs over "so fsd_writer_close handles fclose": every
\* FILE is closed.
FilesClosed == leaked = {}
=============================================================================
