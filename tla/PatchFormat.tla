---------------------------- MODULE PatchFormat ----------------------------
(***************************************************************************)
(* The encodings of the patch format, byte by byte.  The first byte of an  *)
(* operation has its three parts as in the code; the bytes of the counts,  *)
(* offsets and lengths behind it are digits in base FieldBase, so a value  *)
(* that does not fit is cut off as the casts of the code cut it off.       *)
(***************************************************************************)
EXTENDS ImageBlocks, Sequences

CONSTANTS
  FieldBase,      \* values of one byte of a field (256)
  InlineMax,      \* largest count kept in the low bits of the first byte (8)
  VarintBase,     \* values of the data bits of a varint byte (128)
  VarintMaxLen,   \* bytes after which read_varint gives up (10)
  SizeMod         \* values of a size_t (2^64)

ASSUME FormatAssumption ==
  /\ FieldBase \in Nat /\ FieldBase >= 2 /\ FieldBase % 2 = 0
  /\ InlineMax \in 1..8 /\ InlineMax <= FieldBase
  /\ VarintBase \in Nat /\ VarintBase >= 2
  /\ VarintMaxLen \in Nat \ {0}
  /\ SizeMod \in Nat /\ SizeMod > BlockSize

\* The number of values of a field of 1, 2, 3 and 4 bytes.
B1 == FieldBase
B2 == B1 * B1
B3 == B2 * B1
B4 == B2 * B2

\* fsd_op_type_t, from 0; 6 and 7 are reserved.
OpType == <<"COPY_IDENTITY", "COPY_RELOCATE", "ZERO", "ONE", "COPY_ADD", "LITERAL">>

Abs(v) == IF v < 0 THEN -v ELSE v

(***************************************************************************)
(* The first byte: operation, count encoding, low three bits               *)
(***************************************************************************)
op_byte(op, enc, low) ==
  32 * ((CHOOSE c \in DOMAIN OpType : OpType[c] = op) - 1) + 8 * enc + low

op_type(b) == IF b \div 32 < Len(OpType) THEN OpType[b \div 32 + 1] ELSE "RESERVED"
enc_bits(b) == (b \div 8) % 4
low_bits(b) == b % 8

(***************************************************************************)
(* Fields: n bytes, the least significant first                            *)
(***************************************************************************)
field(v, n) ==
  SubSeq(<<v % B1, (v \div B1) % B1, (v \div B2) % B1, (v \div B3) % B1>>, 1, n)

\* The n bytes at place p of s, unless the stream ends before them.
read_field(s, p, n, end) ==
  LET byte(k) == IF k < n THEN s[p + k] % B1 ELSE 0
  IN IF p + n > end THEN [err |-> "TRUNCATED", value |-> 0, next |-> p]
     ELSE [err |-> "SUCCESS", next |-> p + n,
           value |-> byte(0) + B1 * byte(1) + B2 * byte(2) + B3 * byte(3)]

(***************************************************************************)
(* Counts                                                                  *)
(***************************************************************************)
count_enc(n) == IF n <= B1 THEN 0 ELSE IF n <= B2 THEN 1 ELSE 2

count_width(enc) == <<1, 2, 4, 0>>[enc + 1]

\* Counts are stored less one, except in the 4-byte field.
count_field(n) ==
  IF count_enc(n) = 2 THEN field(n, 4) ELSE field(n - 1, count_width(count_enc(n)))

\* An operation with no other fields: a small count goes in the low bits.
encode_count(op, n) ==
  IF n <= InlineMax THEN <<op_byte(op, 3, n - 1)>>
  ELSE <<op_byte(op, count_enc(n), 0)>> \o count_field(n)

\* The count of the operation with first byte b.
read_count(s, p, end, b) ==
  LET f == read_field(s, p, count_width(enc_bits(b)), end)
  IN IF enc_bits(b) = 3 THEN [f EXCEPT !.value = low_bits(b) + 1]
     ELSE IF enc_bits(b) = 2 THEN f
     ELSE [f EXCEPT !.value = @ + 1]

(***************************************************************************)
(* Block offsets of COPY_RELOCATE: magnitude and sign                      *)
(***************************************************************************)
reloc_fits(v) == Abs(v) <= B4 - 1

reloc_enc(v) == IF Abs(v) <= B1 - 1 THEN 0 ELSE IF Abs(v) <= B2 - 1 THEN 1 ELSE 2

\* No field is read when offset_enc is 3.
reloc_width(enc) == <<1, 2, 4, 0>>[enc + 1]

encode_relocate(n, v) ==
  <<op_byte("COPY_RELOCATE", count_enc(n), 2 * reloc_enc(v) + (IF v < 0 THEN 1 ELSE 0))>>
    \o count_field(n) \o field(Abs(v), reloc_width(reloc_enc(v)))

\* Mutant: the sign bit is not applied.
read_reloc_offset_unsigned(s, p, end, b) ==
  read_field(s, p, reloc_width(low_bits(b) \div 2), end)

read_reloc_offset(s, p, end, b) ==
  LET f == read_field(s, p, reloc_width(low_bits(b) \div 2), end)
  IN [f EXCEPT !.value = IF b % 2 = 1 THEN -@ ELSE @]

(***************************************************************************)
(* Byte offsets of COPY_ADD: two's complement in 2, 3 or 4 bytes           *)
(***************************************************************************)
add_fits(v) == -(B4 \div 2) <= v /\ v <= (B4 \div 2) - 1

add_enc(v) ==
  IF Abs(v) <= (B2 \div 2) - 1 THEN 0 ELSE IF Abs(v) <= (B3 \div 2) - 1 THEN 1 ELSE 2

\* No field is read when offset_enc is 3.
add_width(enc) == <<2, 3, 4, 0>>[enc + 1]

\* sparse is 0 or 1, len the bytes the operation takes from the diff stream.
encode_add(n, v, sparse, len) ==
  <<op_byte("COPY_ADD", count_enc(n), 2 * add_enc(v) + sparse)>>
    \o field(v % B4, add_width(add_enc(v))) \o count_field(n) \o field(len, 4)

read_add_offset(s, p, end, b) ==
  LET enc == low_bits(b) \div 2
      m == <<B2, B3, B4, 1>>[enc + 1]
      f == read_field(s, p, add_width(enc), end)
  IN [f EXCEPT !.value = IF enc # 3 /\ @ >= m \div 2 THEN @ - m ELSE @]

(***************************************************************************)
(* Diffs: dense, or runs of changed and unchanged bytes with varint        *)
(* lengths                                                                 *)
(***************************************************************************)
encode_varint[v \in Nat] ==
  IF v >= VarintBase
  THEN <<VarintBase + (v % VarintBase)>> \o encode_varint[v \div VarintBase]
  ELSE <<v>>

\* The runs of a block have lengths whose varints fit the buffer of ten
\* bytes they are encoded in.
ASSUME VarintAssumption ==
  \A v \in 0..BlockSize : Len(encode_varint[v]) <= VarintMaxLen

\* The value of the varint in the places p, .., q of s.
varint_value(s, p, q) ==
  LET value[k \in p..q] ==
        IF k = q THEN s[k] ELSE (s[k] % VarintBase) + VarintBase * value[k + 1]
  IN value[p]

\* The varint at place p of s, read up to place end (exclusive).  Bits that
\* do not fit a size_t are shifted out.
read_varint(s, p, end) ==
  LET last == {q \in p..end-1 : s[q] < VarintBase}
      q == CHOOSE q \in last : \A r \in last : q <= r
      long == end - p >= VarintMaxLen /\ \A r \in p..p+VarintMaxLen-1 : s[r] >= VarintBase
  IN IF long THEN [err |-> "CORRUPT_DATA", value |-> 0, next |-> p + VarintMaxLen]
     ELSE IF last = {} THEN [err |-> "TRUNCATED", value |-> 0, next |-> end]
     ELSE [err |-> "SUCCESS", value |-> varint_value(s, p, q) % SizeMod,
           next |-> q + 1]

\* The bytes p, .., q-1 of a block.
Bytes(block, p, q) == [k \in 1..q-p |-> block[p + k - 1]]

dense_encode(delta) == Bytes(delta, 0, BlockSize)

\* What is behind the end of the block counts as zero.
ZeroAt(delta, p) == p >= BlockSize \/ delta[p] = 0
TwoZeros(delta, p) == ZeroAt(delta, p) /\ ZeroAt(delta, p + 1)

\* A changed run from p ends before two zero bytes, or before a zero at the
\* end of the block.
changed_end(delta, p) ==
  CHOOSE q \in p..BlockSize :
    /\ q = BlockSize \/ TwoZeros(delta, q)
    /\ \A r \in p..q-1 : ~TwoZeros(delta, r)

\* An unchanged run from p ends before the next byte that is not zero.
unchanged_end(delta, p) ==
  CHOOSE q \in p..BlockSize :
    /\ q = BlockSize \/ ~ZeroAt(delta, q)
    /\ \A r \in p..q-1 : ZeroAt(delta, r)

\* The encoding of the bytes from each place p on at which a pair of runs
\* starts.
sparse_runs(delta) ==
  LET from[p \in 0..BlockSize] ==
        LET a == changed_end(delta, p)
            c == unchanged_end(delta, a)
            add == encode_varint[a - p] \o Bytes(delta, p, a)
        IN IF p = BlockSize THEN << >>
           ELSE IF a = BlockSize THEN add
           ELSE add \o encode_varint[c - a] \o from[c]
  IN from

sparse_encode(delta) == sparse_runs(delta)[0]
=============================================================================
