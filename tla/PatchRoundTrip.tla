-------------------------- MODULE PatchRoundTrip --------------------------
(***************************************************************************)
(* A patch from the encoder to the output of fsd_patch_apply.  In between  *)
(* the file may lose its end or have a damaged byte.                       *)
(***************************************************************************)
EXTENDS OpEncoder, PatchApply

CONSTANTS
  Faults,             \* what may happen to a patch file
  DamagedOpBytes,     \* what a byte of the operation stream may be damaged to
  DamagedDiffBytes    \* what a byte of the diff stream may be damaged to

ASSUME DamageAssumption ==
  /\ Faults \subseteq {"cut", "damaged"}
  /\ DamagedOpBytes \subseteq 0..255 /\ DamagedDiffBytes \subseteq Nat

VARIABLE stored   \* history: what happened to the patch file

vars == <<encVars, applyVars, stored>>

Init ==
  /\ InitEncoder
  /\ InitApply
  /\ source = in.src
  /\ patch = Patch("SUCCESS", 0, 0, 0, << >>)
  /\ stored = "no"

\* fsd_diff_files writes the header and the three streams.
WrittenPatch ==
  Patch("SUCCESS", DestBlocks, Len(op_stream), Len(diff_stream),
        op_stream \o diff_stream \o lit_stream)

\* What fsd_header_read_memory finds wrong with a header, or with a file that
\* ends inside it.
HeaderErrors ==
  {"INVALID_ARG", "BAD_MAGIC", "BAD_VERSION", "BAD_BLOCK_SIZE", "CORRUPT_DATA"}

\* Everything that one damaged part leaves of patch p: a header field, or a
\* byte of a stream.
Damaged(p) ==
  {[p EXCEPT !.hdr_err = e] : e \in HeaderErrors}
  \cup {[p EXCEPT !.dest_blocks = n] : n \in {DestBlocks - 1, DestBlocks + 1}}
  \cup {[p EXCEPT !.op_len = n] : n \in 0..Len(p.data)+1}
  \cup {[p EXCEPT !.diff_len = n] : n \in 0..Len(p.data)+1}
  \cup {[p EXCEPT !.data[k] = v] : k \in 1..p.op_len, v \in DamagedOpBytes}
  \cup {[p EXCEPT !.data[k] = v] :
           k \in p.op_len+1..p.op_len+p.diff_len, v \in DamagedDiffBytes}

\* The patch file reaches the reader as it was written, or not.  A file that
\* is cut loses its last bytes, those of the header too.
Store ==
  /\ enc_result = "SUCCESS" /\ pc = "waiting"
  /\ \/ stored' = "intact" /\ patch' = WrittenPatch
     \/ /\ "cut" \in Faults /\ stored' = "cut"
        /\ \/ patch' = [WrittenPatch EXCEPT !.hdr_err = "INVALID_ARG", !.data = << >>]
           \/ \E k \in 0..Len(WrittenPatch.data)-1 :
                patch' = [WrittenPatch EXCEPT !.data = SubSeq(@, 1, k)]
     \/ /\ "damaged" \in Faults /\ stored' = "damaged"
        /\ patch' \in Damaged(WrittenPatch)
  /\ pc' = "open"
  /\ UNCHANGED <<source, special, op_ptr, diff_ptr, lit_ptr, dest_block, cur, blk,
                 diff_cursor, out_pos, block_buf, output, outfile, result>>

Encode == Encoder /\ UNCHANGED <<applyVars, stored>>
ApplyStep == Apply /\ UNCHANGED <<encVars, stored>>
Next == Encode \/ (Store /\ UNCHANGED encVars) \/ ApplyStep

\* The call that encodes, and the one that applies, keep running; nobody has
\* to apply a patch.
Spec == Init /\ [][Next]_vars /\ WF_vars(Encode) /\ WF_vars(ApplyStep)

(***************************************************************************)
(* Properties                                                              *)
(***************************************************************************)
\* The count of a run of B4 blocks (2^32) or more is cut to its 4-byte field.
\* PATCH_FORMAT_SPEC.md names no such limit.
LongRun == \E j \in 0..DestBlocks-B4 : \A k \in j..j+B4-1 : Continues(j, k)

\* An intact patch without such a run is never taken for a damaged one, and
\* what is written from it is the destination image, block for block, in every
\* state of the decoder: encoder and decoder agree on every count, offset and
\* diff, whichever field widths they take.  Whatever the length of its runs,
\* a success means the whole destination: a cut count is refused, never
\* applied as something else.
RoundTrip ==
  stored = "intact" =>
    LET Restored == \A k \in DOMAIN output : output[k] = BlockAt(in.dest, (k - 1) * BlockSize)
    IN /\ result = "SUCCESS" => Restored /\ Len(output) = DestBlocks
       /\ ~LongRun => Restored /\ result \in {"running", "SUCCESS", "IO", "OUT_OF_MEMORY"}

\* Every operation took exactly its share of the three streams: nothing of
\* any is left over.
StreamsConsumed ==
  stored = "intact" /\ result = "SUCCESS" =>
    /\ op_ptr = op_end /\ diff_ptr = diff_end /\ lit_ptr = lit_end
    /\ cur.sparse => diff_cursor = cur.end

\* The diff of a run fits the buffer of 2 bytes per byte that is allocated
\* for it, and its length fits the 4-byte field, so the explicit check of
\* the length never fails.
DiffFits ==
  Encoding /\ type(i) = "PARTIAL" /\ add_fits(byte_offset(i)) =>
    LET n == run_count(i)
    IN Len(diff_buf(i, n)) <= n * BlockSize * 2 /\ n * BlockSize * 2 <= B4 - 1

\* A patch that lost its end is never applied with success, wherever it was
\* cut.
CutDetected == stored = "cut" => result # "SUCCESS"

\* Whatever one damaged byte or header field makes of the patch, also when it
\* moves every later field or stream, the reader stays inside the three
\* streams as the header has them and inside the block, writes no more blocks
\* than the header says, and a success means exactly that number.
DamageContained ==
  /\ pc \notin {"waiting", "open"} /\ header_error = "SUCCESS" =>
       /\ op_ptr <= op_end /\ diff_ptr <= diff_end /\ diff_end <= lit_end
       /\ lit_ptr <= lit_end
       /\ diff_cursor <= cur.end /\ cur.end <= diff_end
  /\ pc # "done" => Len(output) = dest_block + (IF pc \in {"waiting", "open", "op"} THEN 0 ELSE blk)
  /\ out_pos <= BlockSize
  /\ Len(output) <= patch.dest_blocks
  /\ result = "SUCCESS" => Len(output) = patch.dest_blocks

\* A special output path is never unlinked, and a regular one never keeps a
\* partial image once applying it failed (except where NoBuffer returns).
OutputCleanedUp ==
  /\ special => outfile # "removed"
  /\ ~special /\ result \notin {"running", "SUCCESS", "OUT_OF_MEMORY"} =>
       outfile \in {"untouched", "removed"}

\* patch.c says of a patch with too few blocks: "fail rather than write a
\* short output file and report success".
SuccessMeansComplete == result = "SUCCESS" => outfile = "complete"

\* Encoding ends, and applying ends whatever the patch holds.
Termination == <>(enc_result # "running") /\ (pc = "open" ~> pc = "done")
=============================================================================
