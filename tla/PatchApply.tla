---------------------------- MODULE PatchApply ----------------------------
(***************************************************************************)
(* fsd_patch_apply: reads a patch file and rebuilds the destination block  *)
(* by block into an output file.  One action per operation read, per block *)
(* written and per pair of runs of a sparse diff; opens, allocations,      *)
(* reads, writes and the final close may fail.                             *)
(***************************************************************************)
EXTENDS PatchFormat

VARIABLES
  source,                         \* the reference image
  patch,                          \* the patch file: header fields, and its bytes
  special,                        \* the output path is a device or the like
  pc,                             \* where fsd_patch_apply is
  op_ptr, diff_ptr, lit_ptr,      \* next unread byte of each stream, from 1
  dest_block,                     \* blocks written by whole operations
  cur,                            \* the operation being executed
  blk,                            \* its next block
  diff_cursor,                    \* next unread place of its diff
  out_pos, block_buf,             \* the block a sparse diff is applied to
  output,                         \* blocks handed to stdio
  outfile,                        \* what the output path holds
  result

applyVars == <<source, patch, special, pc, op_ptr, diff_ptr, lit_ptr, dest_block,
               cur, blk, diff_cursor, out_pos, block_buf, output, outfile, result>>

\* hdr_err is what fsd_header_read_memory finds wrong; data is the file behind
\* the header, the three streams one after the other.
Patch(hdr_err, dest_blocks, op_len, diff_len, data) ==
  [hdr_err |-> hdr_err, dest_blocks |-> dest_blocks, op_len |-> op_len,
   diff_len |-> diff_len, data |-> data]

\* The streams lie where the header says; literals go on to the end of file.
op_end == patch.op_len + 1
diff_end == op_end + patch.diff_len
lit_end == Len(patch.data) + 1

NoOp == [op |-> "none", count |-> 0, offset |-> 0, sparse |-> FALSE, end |-> 1]

InitApply ==
  /\ special \in BOOLEAN
  /\ pc = "waiting"
  /\ op_ptr = 1 /\ diff_ptr = 1 /\ lit_ptr = 1 /\ dest_block = 0
  /\ cur = NoOp /\ blk = 0 /\ diff_cursor = 1 /\ out_pos = 0 /\ block_buf = ZeroBlock
  /\ output = << >> /\ outfile = "untouched" /\ result = "running"

(***************************************************************************)
(* Opening                                                                 *)
(***************************************************************************)
\* The header, then the stream lengths against the size of the file.
header_error ==
  IF patch.hdr_err # "SUCCESS" THEN patch.hdr_err
  ELSE IF patch.op_len > Len(patch.data) THEN "CORRUPT_DATA"
  ELSE IF patch.diff_len > Len(patch.data) - patch.op_len THEN "CORRUPT_DATA"
  ELSE "SUCCESS"

\* Nothing of the output path has been touched.
ReturnEarly(err) ==
  /\ pc' = "done" /\ result' = err
  /\ UNCHANGED <<source, patch, special, op_ptr, diff_ptr, lit_ptr, dest_block, cur,
                 blk, diff_cursor, out_pos, block_buf, output, outfile>>

\* The source or the patch cannot be opened, or the output cannot be created.
OpenFailed == pc = "open" /\ ReturnEarly("IO")

HeaderRejected ==
  pc = "open" /\ header_error # "SUCCESS" /\ ReturnEarly(header_error)

Opened ==
  /\ pc = "open" /\ header_error = "SUCCESS"
  /\ pc' = "op" /\ outfile' = "partial"
  /\ op_ptr' = 1 /\ diff_ptr' = op_end /\ lit_ptr' = diff_end
  /\ UNCHANGED <<source, patch, special, dest_block, cur, blk, diff_cursor, out_pos, block_buf, output, result>>

\* The output exists, but there is no memory for the block buffer: this path
\* closes the file and does not unlink it.
NoBuffer ==
  /\ pc = "open" /\ header_error = "SUCCESS"
  /\ pc' = "done" /\ outfile' = "partial" /\ result' = "OUT_OF_MEMORY"
  /\ UNCHANGED <<source, patch, special, op_ptr, diff_ptr, lit_ptr, dest_block, cur,
                 blk, diff_cursor, out_pos, block_buf, output>>

\* Mutant: special files are unlinked too.
Fail_unlinks(err) ==
  /\ pc' = "done" /\ result' = err
  /\ outfile' = "removed"
  /\ UNCHANGED <<source, patch, special, op_ptr, diff_ptr, lit_ptr, dest_block, cur,
                 blk, diff_cursor, out_pos, block_buf, output>>

\* The label error: close the output and unlink it, unless it is special.
Fail(err) ==
  /\ pc' = "done" /\ result' = err
  /\ outfile' = IF special THEN outfile ELSE "removed"
  /\ UNCHANGED <<source, patch, special, op_ptr, diff_ptr, lit_ptr, dest_block, cur,
                 blk, diff_cursor, out_pos, block_buf, output>>

(***************************************************************************)
(* Operations                                                              *)
(***************************************************************************)
ReadingOp == pc = "op" /\ dest_block < patch.dest_blocks /\ op_ptr < op_end

\* The operation at op_ptr.  COPY_ADD has its offset before its count and its
\* diff length behind it; COPY_RELOCATE has its offset behind its count.
first_byte == patch.data[op_ptr]
IsAdd == op_type(first_byte) = "COPY_ADD"
IsRelocate == op_type(first_byte) = "COPY_RELOCATE"
add_offset == read_add_offset(patch.data, op_ptr + 1, op_end, first_byte)
op_count ==
  read_count(patch.data, IF IsAdd THEN add_offset.next ELSE op_ptr + 1, op_end, first_byte)
reloc_offset == read_reloc_offset(patch.data, op_count.next, op_end, first_byte)
diff_len == read_field(patch.data, op_count.next, 4, op_end)

\* Mutant: the count is compared with the size of the image, not with what is
\* left of it.
op_error_total ==
  IF IsAdd /\ enc_bits(first_byte) = 3 THEN "CORRUPT_DATA"
  ELSE IF IsAdd /\ add_offset.err # "SUCCESS" THEN add_offset.err
  ELSE IF op_count.err # "SUCCESS" THEN op_count.err
  ELSE IF op_count.value > patch.dest_blocks THEN "CORRUPT_DATA"
  ELSE IF op_type(first_byte) = "RESERVED" THEN "BAD_OPERATION"
  ELSE IF IsRelocate THEN reloc_offset.err
  ELSE IF IsAdd /\ diff_len.err # "SUCCESS" THEN diff_len.err
  ELSE IF IsAdd /\ diff_ptr + diff_len.value > diff_end THEN "TRUNCATED"
  ELSE "SUCCESS"

\* What is wrong with the operation before its first block, in the order in
\* which its bytes are read: every field must end inside the stream.
op_error ==
  IF IsAdd /\ enc_bits(first_byte) = 3 THEN "CORRUPT_DATA"
  ELSE IF IsAdd /\ add_offset.err # "SUCCESS" THEN add_offset.err
  ELSE IF op_count.err # "SUCCESS" THEN op_count.err
  ELSE IF op_count.value > patch.dest_blocks - dest_block THEN "CORRUPT_DATA"
  ELSE IF op_type(first_byte) = "RESERVED" THEN "BAD_OPERATION"
  ELSE IF IsRelocate THEN reloc_offset.err
  ELSE IF IsAdd /\ diff_len.err # "SUCCESS" THEN diff_len.err
  ELSE IF IsAdd /\ diff_ptr + diff_len.value > diff_end THEN "TRUNCATED"
  ELSE "SUCCESS"

OpRejected == ReadingOp /\ op_error # "SUCCESS" /\ Fail(op_error)

ReadOp ==
  /\ ReadingOp /\ op_error = "SUCCESS"
  /\ cur' = [op |-> op_type(first_byte), count |-> op_count.value,
             offset |-> IF IsRelocate THEN reloc_offset.value
                        ELSE IF IsAdd THEN add_offset.value ELSE 0,
             sparse |-> IsAdd /\ first_byte % 2 = 1,
             end |-> IF IsAdd THEN diff_ptr + diff_len.value ELSE diff_ptr]
  /\ diff_ptr' = cur'.end
  /\ op_ptr' = IF IsRelocate THEN reloc_offset.next
               ELSE IF IsAdd THEN diff_len.next ELSE op_count.next
  /\ blk' = 0 /\ diff_cursor' = diff_ptr
  /\ pc' = "block"
  /\ UNCHANGED <<source, patch, special, lit_ptr, dest_block, out_pos, block_buf,
                 output, outfile, result>>

OpDone ==
  /\ pc = "block" /\ blk = cur.count
  /\ dest_block' = dest_block + cur.count
  /\ pc' = "op"
  /\ UNCHANGED <<source, patch, special, op_ptr, diff_ptr, lit_ptr, cur, blk,
                 diff_cursor, out_pos, block_buf, output, outfile, result>>

(***************************************************************************)
(* Blocks                                                                  *)
(***************************************************************************)
AtBlock(ops) == pc = "block" /\ cur.op \in ops /\ blk < cur.count

\* The source position the block is copied from, in bytes.
src_pos ==
  IF cur.op = "COPY_ADD" THEN (dest_block + blk) * BlockSize + cur.offset
  ELSE (dest_block + blk + cur.offset) * BlockSize

\* The block is complete and handed to stdio.
WriteBlock(block) ==
  /\ output' = Append(output, block)
  /\ blk' = blk + 1
  /\ pc' = "block"

OutOfSource ==
  /\ AtBlock({"COPY_IDENTITY", "COPY_RELOCATE", "COPY_ADD"})
  /\ ~FitsAt(src_pos, SrcSize)
  /\ Fail("CORRUPT_DATA")

CopyBlock ==
  /\ AtBlock({"COPY_IDENTITY", "COPY_RELOCATE"})
  /\ FitsAt(src_pos, SrcSize)
  /\ WriteBlock(BlockAt(source, src_pos))
  /\ UNCHANGED <<source, patch, special, op_ptr, diff_ptr, lit_ptr, dest_block, cur,
                 diff_cursor, out_pos, block_buf, outfile, result>>

FillBlock ==
  /\ AtBlock({"ZERO", "ONE"})
  /\ WriteBlock(IF cur.op = "ZERO" THEN ZeroBlock ELSE OneBlock)
  /\ UNCHANGED <<source, patch, special, op_ptr, diff_ptr, lit_ptr, dest_block, cur,
                 diff_cursor, out_pos, block_buf, outfile, result>>

LiteralLeft == lit_ptr + BlockSize <= lit_end

\* Mutant: the last literal block may be short, the rest of it is zeros.
LiteralBlock_short ==
  /\ AtBlock({"LITERAL"})
  /\ WriteBlock([k \in BlockPos |-> IF lit_ptr + k < lit_end THEN patch.data[lit_ptr + k] ELSE 0])
  /\ lit_ptr' = IF LiteralLeft THEN lit_ptr + BlockSize ELSE lit_end
  /\ UNCHANGED <<source, patch, special, op_ptr, diff_ptr, dest_block, cur,
                 diff_cursor, out_pos, block_buf, outfile, result>>

LiteralBlock ==
  /\ AtBlock({"LITERAL"}) /\ LiteralLeft
  /\ WriteBlock([k \in BlockPos |-> patch.data[lit_ptr + k]])
  /\ lit_ptr' = lit_ptr + BlockSize
  /\ UNCHANGED <<source, patch, special, op_ptr, diff_ptr, dest_block, cur,
                 diff_cursor, out_pos, block_buf, outfile, result>>

\* Mutant: only an empty stream is short; part of a block is waited for.
LiteralShort_waits ==
  AtBlock({"LITERAL"}) /\ lit_ptr = lit_end /\ Fail("TRUNCATED")

LiteralShort == AtBlock({"LITERAL"}) /\ ~LiteralLeft /\ Fail("TRUNCATED")

Adding == AtBlock({"COPY_ADD"}) /\ FitsAt(src_pos, SrcSize)

DenseLeft == diff_cursor + (blk + 1) * BlockSize <= cur.end

\* Mutant: every block of the run takes the first block's diff.
DenseBlock_first ==
  /\ Adding /\ ~cur.sparse /\ DenseLeft
  /\ WriteBlock(AddDelta(BlockAt(source, src_pos),
                         [k \in BlockPos |-> patch.data[diff_cursor + k]]))
  /\ UNCHANGED <<source, patch, special, op_ptr, diff_ptr, lit_ptr, dest_block, cur,
                 diff_cursor, out_pos, block_buf, outfile, result>>

DenseBlock ==
  /\ Adding /\ ~cur.sparse /\ DenseLeft
  /\ WriteBlock(AddDelta(BlockAt(source, src_pos),
                         [k \in BlockPos |-> patch.data[diff_cursor + blk * BlockSize + k]]))
  /\ UNCHANGED <<source, patch, special, op_ptr, diff_ptr, lit_ptr, dest_block, cur,
                 diff_cursor, out_pos, block_buf, outfile, result>>

DenseShort == Adding /\ ~cur.sparse /\ ~DenseLeft /\ Fail("TRUNCATED")

SparseBlock ==
  /\ Adding /\ cur.sparse
  /\ block_buf' = BlockAt(source, src_pos)
  /\ out_pos' = 0
  /\ pc' = "sparse"
  /\ UNCHANGED <<source, patch, special, op_ptr, diff_ptr, lit_ptr, dest_block, cur,
                 blk, diff_cursor, output, outfile, result>>

\* The length that the sparse loop reads next.
run_len == read_varint(patch.data, diff_cursor, cur.end)

\* A run to add must be in the stream; one to leave as it is must end in the
\* block, and not be empty after an empty one.
sparse_error ==
  IF run_len.err # "SUCCESS" THEN run_len.err
  ELSE IF pc = "sparse"
       THEN IF run_len.value > cur.end - run_len.next THEN "TRUNCATED" ELSE "SUCCESS"
  ELSE IF run_len.value > BlockSize - out_pos \/ (pc = "copy_only" /\ run_len.value = 0)
       THEN "CORRUPT_DATA" ELSE "SUCCESS"

\* Bytes of the run behind the end of the block are read and dropped.
add_end ==
  IF out_pos + run_len.value < BlockSize THEN out_pos + run_len.value ELSE BlockSize

InSparseLoop == pc \in {"copy", "copy_only"} \/ (pc = "sparse" /\ out_pos < BlockSize)

SparseAdd ==
  /\ InSparseLoop /\ pc = "sparse" /\ sparse_error = "SUCCESS"
  /\ block_buf' = [k \in BlockPos |->
       IF k \in out_pos..add_end-1
       THEN (block_buf[k] + patch.data[run_len.next + k - out_pos]) % ByteMod
       ELSE block_buf[k]]
  /\ out_pos' = add_end
  /\ diff_cursor' = run_len.next + run_len.value
  /\ pc' = IF add_end >= BlockSize THEN "sparse"
           ELSE IF run_len.value = 0 THEN "copy_only" ELSE "copy"
  /\ UNCHANGED <<source, patch, special, op_ptr, diff_ptr, lit_ptr, dest_block, cur,
                 blk, output, outfile, result>>

SparseCopy ==
  /\ pc \in {"copy", "copy_only"} /\ sparse_error = "SUCCESS"
  /\ out_pos' = out_pos + run_len.value
  /\ diff_cursor' = run_len.next
  /\ pc' = "sparse"
  /\ UNCHANGED <<source, patch, special, op_ptr, diff_ptr, lit_ptr, dest_block, cur,
                 blk, block_buf, output, outfile, result>>

SparseRejected == InSparseLoop /\ sparse_error # "SUCCESS" /\ Fail(sparse_error)

SparseWritten ==
  /\ pc = "sparse" /\ ~InSparseLoop
  /\ WriteBlock(block_buf)
  /\ UNCHANGED <<source, patch, special, op_ptr, diff_ptr, lit_ptr, dest_block, cur,
                 diff_cursor, out_pos, block_buf, outfile, result>>

\* Reading the source or writing the output fails.
BlockIOFailed ==
  /\ \/ AtBlock({"COPY_IDENTITY", "COPY_RELOCATE", "COPY_ADD"}) /\ FitsAt(src_pos, SrcSize)
     \/ AtBlock({"ZERO", "ONE"})
     \/ AtBlock({"LITERAL"}) /\ LiteralLeft
     \/ pc = "sparse" /\ ~InSparseLoop
  /\ Fail("IO")

(***************************************************************************)
(* The end                                                                 *)
(***************************************************************************)
Finished == pc = "op" /\ ~ReadingOp

\* The operations ended before the last block.
ShortOfBlocks == Finished /\ dest_block # patch.dest_blocks /\ Fail("TRUNCATED")

\* fclose writes what stdio still holds; its result is not looked at, so the
\* file may stay short.
ApplyDone ==
  /\ Finished /\ dest_block = patch.dest_blocks
  /\ outfile' \in {"complete", "short"}
  /\ pc' = "done" /\ result' = "SUCCESS"
  /\ UNCHANGED <<source, patch, special, op_ptr, diff_ptr, lit_ptr, dest_block, cur,
                 blk, diff_cursor, out_pos, block_buf, output>>

Apply ==
  \/ OpenFailed \/ HeaderRejected \/ Opened \/ NoBuffer
  \/ OpRejected \/ ReadOp \/ OpDone
  \/ OutOfSource \/ CopyBlock \/ FillBlock
  \/ LiteralBlock \/ LiteralShort \/ DenseBlock \/ DenseShort
  \/ SparseBlock \/ SparseAdd \/ SparseCopy \/ SparseRejected \/ SparseWritten
  \/ BlockIOFailed \/ ShortOfBlocks \/ ApplyDone
=============================================================================
