---------------------------- MODULE ImageBlocks ----------------------------
(***************************************************************************)
(* Disk images seen as bytes and as blocks.  An image is a function from   *)
(* byte positions to bytes; a block is BlockSize consecutive bytes.        *)
(* Bytes are kept modulo ByteMod (256 in the code) because the deltas of   *)
(* partial matches are 8-bit differences that wrap around.                 *)
(***************************************************************************)
EXTENDS Integers, FiniteSets

CONSTANTS
  BlockSize,      \* bytes per block (1 << block_size_log2)
  ByteMod,        \* number of byte values (256 in the code)
  SrcSize,        \* bytes in the source image, any size
  DestBlocks,     \* blocks in the destination image
  CrcOf           \* the CRC32 of a block; any function will do

Byte == 0..ByteMod-1
BlockPos == 0..BlockSize-1
Block == [BlockPos -> Byte]

ASSUME BlockSizeAssumption == BlockSize \in Nat \ {0}
ASSUME ByteModAssumption == ByteMod \in Nat \ {0, 1}
ASSUME SrcSizeAssumption == SrcSize \in Nat \ {0}
ASSUME DestBlocksAssumption == DestBlocks \in Nat \ {0}
ASSUME CrcAssumption == CrcOf \in [Block -> Nat]

\* src_size / block_size: a trailing partial block is not a source block.
SrcBlocks == SrcSize \div BlockSize
DestIdx == 0..DestBlocks-1
SrcIdx == 0..SrcBlocks-1

SrcImage == [0..SrcSize-1 -> Byte]
DestImage == [0..DestBlocks*BlockSize-1 -> Byte]

\* The block whose first byte is at position pos of an image.
BlockAt(img, pos) == [k \in BlockPos |-> img[pos + k]]

ZeroBlock == [k \in BlockPos |-> 0]
OneBlock == [k \in BlockPos |-> ByteMod - 1]
is_zero_block(b) == b = ZeroBlock
is_one_block(b) == b = OneBlock

\* The number of equal bytes of two blocks (every SIMD variant computes it).
count_matches(a, b) == Cardinality({k \in BlockPos : a[k] = b[k]})

\* delta[i] = dest_block[i] - src_block[i], in uint8_t arithmetic.
DeltaOf(d, s) == [k \in BlockPos |-> (d[k] - s[k]) % ByteMod]

\* block_buf[k] += diff[k], in uint8_t arithmetic.
AddDelta(s, delta) == [k \in BlockPos |-> (s[k] + delta[k]) % ByteMod]

\* A whole block fits at byte position pos of a buffer of size bytes.
FitsAt(pos, size) == pos >= 0 /\ pos + BlockSize <= size
=============================================================================
