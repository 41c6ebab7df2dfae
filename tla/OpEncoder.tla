----------------------------- MODULE OpEncoder -----------------------------
(***************************************************************************)
(* fsd_op_encoder_encode: the tracker of a finished run becomes a stream   *)
(* of operations, a stream of diffs and a stream of literal blocks, each a *)
(* sequence of bytes.  One action per operation written.                   *)
(***************************************************************************)
EXTENDS BlockTracker, PatchFormat

CONSTANTS
  Inputs,             \* the pairs of images with a tracker of their blocks
  SparseThreshold     \* changed bytes per block from which a diff is dense (512)

\* What the pipeline hands to the encoder: any block states that restore the
\* destination, whichever of them the stages chose.
ASSUME InputsAssumption ==
  \A in \in Inputs :
    /\ in.src \in SrcImage /\ in.dest \in DestImage
    /\ in.blocks \in [DestIdx -> BlockState]
    /\ \A i \in DestIdx : Rebuilds(in.src, in.dest, in.blocks[i], i)
ASSUME SparseAssumption == SparseThreshold \in Nat
\* Blocks have at most 2^24 bytes, so one block's diff has a length field.
ASSUME DiffLenAssumption == 2 * BlockSize <= B4 - 1

VARIABLES
  in,           \* the images and the tracker, never changed
  i,            \* the next block to encode
  op_stream, diff_stream, lit_stream,
  enc_result

encVars == <<in, i, op_stream, diff_stream, lit_stream, enc_result>>

InitEncoder ==
  /\ in \in Inputs
  /\ i = 0
  /\ op_stream = << >> /\ diff_stream = << >> /\ lit_stream = << >>
  /\ enc_result = "running"

type(k) == in.blocks[k].match_type

\* Distance in blocks of a relocation, in bytes of a partial match.
block_offset(k) == in.blocks[k].src_index - k
byte_offset(k) ==
  in.blocks[k].src_index * BlockSize + in.blocks[k].byte_offset - k * BlockSize

\* Mutant: the diff is taken to have 1 byte per byte.
max_run_for_format_dense ==
  LET m == (B4 - 1) \div BlockSize IN IF m = 0 THEN 1 ELSE m

\* A COPY_ADD's diff of 2 bytes per byte must have a length field.
max_run_for_format ==
  LET m == (B4 - 1) \div (BlockSize * 2) IN IF m = 0 THEN 1 ELSE m

\* Block k continues the run that starts at block j.
Continues(j, k) ==
  /\ type(k) = type(j)
  /\ type(j) = "RELOCATE" => block_offset(k) = block_offset(j)
  /\ type(j) = "PARTIAL" => byte_offset(k) = byte_offset(j) /\ k - j < max_run_for_format

run_count(j) ==
  CHOOSE n \in 1..DestBlocks-j :
    /\ \A k \in j..j+n-1 : Continues(j, k)
    /\ j + n = DestBlocks \/ ~Continues(j, j + n)

\* The blocks j, .., j+n-1 of the destination, byte by byte.
LiteralBytes(j, n) == [k \in 1..n*BlockSize |-> in.dest[j * BlockSize + k - 1]]

Encoding == enc_result = "running" /\ i < DestBlocks

\* One operation written, with its share of the other streams.
Emit(op, diff, lit, n) ==
  /\ op_stream' = op_stream \o op
  /\ diff_stream' = diff_stream \o diff
  /\ lit_stream' = lit_stream \o lit
  /\ i' = i + n
  /\ UNCHANGED <<in, enc_result>>

emit_literal_run(n) == Emit(encode_count("LITERAL", n), << >>, LiteralBytes(i, n), n)

EncodeIdentity ==
  /\ Encoding /\ type(i) = "IDENTITY"
  /\ Emit(encode_count("COPY_IDENTITY", run_count(i)), << >>, << >>, run_count(i))

EncodeZero ==
  /\ Encoding /\ type(i) = "ZERO"
  /\ Emit(encode_count("ZERO", run_count(i)), << >>, << >>, run_count(i))

EncodeOne ==
  /\ Encoding /\ type(i) = "ONE"
  /\ Emit(encode_count("ONE", run_count(i)), << >>, << >>, run_count(i))

\* A distance that has no field goes in literally.
EncodeRelocate ==
  /\ Encoding /\ type(i) = "RELOCATE"
  /\ IF reloc_fits(block_offset(i))
     THEN Emit(encode_relocate(run_count(i), block_offset(i)), << >>, << >>, run_count(i))
     ELSE emit_literal_run(run_count(i))

\* A missing delta counts as no change.
delta(k) == IF in.blocks[k].delta = NoDelta THEN ZeroBlock ELSE in.blocks[k].delta

nonzero_count(j, n) ==
  Cardinality({x \in (j..j+n-1) \X BlockPos : delta(x[1])[x[2]] # 0})

\* 1 for sparse: few changed bytes per block on average.
diff_fmt(j, n) == IF nonzero_count(j, n) < n * SparseThreshold THEN 1 ELSE 0

diff_buf(j, n) ==
  LET encoded(k) ==
        IF diff_fmt(j, n) = 1 THEN sparse_encode(delta(k)) ELSE dense_encode(delta(k))
      upto[k \in j-1..j+n-1] == IF k < j THEN << >> ELSE upto[k - 1] \o encoded(k)
  IN upto[j + n - 1]

EncodePartial ==
  /\ Encoding /\ type(i) = "PARTIAL"
  /\ LET n == run_count(i)
         buf == diff_buf(i, n)
     IN IF add_fits(byte_offset(i))
        THEN /\ Len(buf) <= B4 - 1
             /\ Emit(encode_add(n, byte_offset(i), diff_fmt(i, n), Len(buf)), buf, << >>, n)
        ELSE emit_literal_run(n)

\* No memory for the diff buffer, or a diff too long for its length field.
EncodePartialFailed ==
  /\ Encoding /\ type(i) = "PARTIAL" /\ add_fits(byte_offset(i))
  /\ enc_result' = "OUT_OF_MEMORY"
  /\ UNCHANGED <<in, i, op_stream, diff_stream, lit_stream>>

EncodeLiteral ==
  /\ Encoding /\ type(i) = "NONE"
  /\ emit_literal_run(run_count(i))

\* A writer fails: its buffer could not be flushed.
EncodeIOFailed ==
  /\ Encoding
  /\ enc_result' = "IO"
  /\ UNCHANGED <<in, i, op_stream, diff_stream, lit_stream>>

\* Mutant: the streams are padded at the end.
EncodeDone_padded ==
  /\ enc_result = "running" /\ i = DestBlocks
  /\ enc_result' = "SUCCESS"
  /\ diff_stream' = Append(diff_stream, 0)
  /\ lit_stream' = Append(lit_stream, 0)
  /\ UNCHANGED <<in, i, op_stream>>

EncodeDone ==
  /\ enc_result = "running" /\ i = DestBlocks
  /\ enc_result' = "SUCCESS"
  /\ UNCHANGED <<in, i, op_stream, diff_stream, lit_stream>>

Encoder ==
  \/ EncodeIdentity \/ EncodeRelocate \/ EncodeZero \/ EncodeOne
  \/ EncodePartial \/ EncodePartialFailed \/ EncodeLiteral
  \/ EncodeIOFailed \/ EncodeDone
=============================================================================
