------------------------- MODULE SourceReaderProofs -------------------------
(***************************************************************************)
(* That direct reads are exact is not inductive: what a call has copied so *)
(* far comes from the cache, the cache from a refill that may have stopped *)
(* half way, and both must agree with the source up to its size at open.   *)
(***************************************************************************)
EXTENDS SourceReader, TLAPS

\* Before the reader is open there is nothing to be right or wrong.
OpenOK == pc = "opening" => /\ err = "none" /\ backend = "none"
                            /\ scratch_valid = 0 /\ slurp_ptr = "null"

\* The read under way: in range, and right as far as it came.
LoopOK ==
  pc = "loop" \/ (pc = "fill" /\ fill.into = "scratch") =>
    /\ done <= req.len /\ req.offset + req.len <= file_size
    /\ \A i \in 0..(done - 1) : out[i] = Byte(req.offset + i)

\* What pread_full has put into a buffer that starts at the given offset.
Right(buf, base, total) ==
  \A i \in 0..(total - 1) : base + i < file_size => buf[i] = Byte(base + i)

\* The refill under way: the cache is invalid until it is whole.
ScratchOK ==
  pc = "fill" /\ fill.into = "scratch" =>
    /\ fill.total <= fill.len /\ fill.len <= ScratchSize /\ scratch_valid = 0
    /\ Right(scratch, fill.base, fill.total)

\* The image under way: it is not handed out until it is whole.
SlurpOK ==
  pc = "fill" /\ fill.into = "slurp" =>
    /\ fill.total <= fill.len /\ fill.base = 0 /\ fill.len >= file_size
    /\ DOMAIN slurp = 0..(fill.len - 1)
    /\ slurp_ptr = "null" /\ req.offset = 0 /\ req.len = file_size
    /\ Right(slurp, 0, fill.total)

FillOK == pc = "fill" => fill.into \in {"scratch", "slurp"}

\* The image that was handed out.
ImageOK ==
  /\ slurp_ptr = "dummy" => file_size = 0
  /\ slurp_ptr = "buffer" => Right(slurp, 0, file_size)

IInv ==
  /\ TypeOK /\ OpenOK /\ LoopOK /\ FillOK /\ ScratchOK /\ SlurpOK /\ ImageOK
  /\ CacheCoherent /\ DirectReadsExact

(***************************************************************************)
(* Arithmetic of the alignment                                             *)
(***************************************************************************)
\* The constants the arithmetic is about.
LEMMA Constants ==
  /\ Align \in Nat \ {0} /\ ScratchSize \in Nat \ {0}
  /\ SrcSizes \subseteq Nat /\ Offsets \subseteq Nat /\ Lengths \subseteq Nat
BY ReaderAssumption

\* Rounding an offset down gives one at most as large.
LEMMA AlignDown ==
  ASSUME NEW o \in Nat
  PROVE  align_down(o) \in Nat /\ align_down(o) <= o /\ o < align_down(o) + Align
BY Constants DEF align_down

\* Rounding a size up gives one at least as large.
LEMMA RoundUp ==
  ASSUME NEW v \in Nat
  PROVE  round_up_pow2(v) \in Nat /\ round_up_pow2(v) >= v
<1>1. v + Align - 1 \in Nat
  BY Constants
<1> DEFINE d == align_down(v + Align - 1)
<1>2. d \in Nat /\ v + Align - 1 < d + Align
  BY <1>1, AlignDown
<1> HIDE DEF d
<1>3. d >= v
  BY <1>2, Constants
<1> QED
  BY <1>2, <1>3 DEF round_up_pow2, d

\* A refill of an offset inside the source has a length, at most the cache's.
LEMMA RefillLen ==
  ASSUME file_size \in Nat, NEW o \in Nat, o < file_size
  PROVE  /\ refill_len(align_down(o)) \in Nat
         /\ refill_len(align_down(o)) <= ScratchSize
<1> DEFINE a == align_down(o)
           r == round_up_pow2(file_size)
<1>1. a \in Nat /\ a <= o
  BY AlignDown
<1>2. r \in Nat /\ r >= file_size
  BY RoundUp
<1> HIDE DEF a, r
<1>3. r - a \in Nat
  BY <1>1, <1>2
<1>4. MinOf(ScratchSize, r - a) \in Nat /\ MinOf(ScratchSize, r - a) <= ScratchSize
  BY <1>3, Constants DEF MinOf
<1> QED
  BY <1>4 DEF refill_len, a, r

(***************************************************************************)
(* Opening, closing, and calls that read nothing                           *)
(***************************************************************************)
\* What opening learns of the size is a size.
LEMMA SizesSeen ==
  ASSUME TypeOK, NEW s
  PROVE  sizes_seen(s) \subseteq Nat
BY DEF sizes_seen, TypeOK

\* Opening keeps the invariant.
LEMMA OpenKeeps == IInv /\ (OpenStep \/ OpenFail) => IInv'
<1> SUFFICES ASSUME IInv, OpenStep \/ OpenFail PROVE IInv'
  OBVIOUS
<1>1. /\ pc = "opening" /\ err = "none" /\ scratch_valid = 0 /\ slurp_ptr = "null"
      /\ UNCHANGED <<env, cache, image, call, fill, interrupts>>
  BY DEF IInv, OpenOK, OpenStep, OpenFail
<1>2. pc' \in {"opening", "idle", "failed"}
  BY DEF OpenStep, OpenFail
<1>3. file_size' \in Nat
  BY SizesSeen DEF IInv, TypeOK, OpenStep, OpenFail, setup
<1>4. /\ backend' \in {"none", "mmap", "direct"}
      /\ pc' = "opening" => backend' = "none"
  BY <1>1 DEF IInv, TypeOK, OpenOK, OpenStep, OpenFail, setup, resolved
<1>5. TypeOK'
  BY <1>1, <1>2, <1>3, <1>4 DEF IInv, TypeOK, env, cache, image, call
<1>6. /\ OpenOK' /\ LoopOK' /\ FillOK' /\ ScratchOK' /\ SlurpOK' /\ ImageOK'
      /\ CacheCoherent' /\ DirectReadsExact'
  BY <1>1, <1>2, <1>4
     DEF IInv, OpenOK, LoopOK, FillOK, ScratchOK, SlurpOK, ImageOK, CacheCoherent,
         DirectReadsExact, answered, cache, image, call
<1> QED
  BY <1>5, <1>6 DEF IInv

\* Closing and cutting the source keep the invariant: it speaks of neither.
LEMMA EnvironmentKeeps == IInv /\ (Close \/ Shrink) => IInv'
<1> SUFFICES ASSUME IInv, Close \/ Shrink PROVE IInv'
  OBVIOUS
<1>1. /\ pc # "opening" /\ pc' # "opening"
      /\ pc' = pc \/ (pc = "idle" /\ pc' = "closed")
      /\ UNCHANGED <<mode, cache, image, call, setup, fill, interrupts>>
  BY DEF Close, Shrink, env
<1>2. size' \in Nat
  BY DEF Close, Shrink, env, IInv, TypeOK
<1>3. TypeOK'
  BY <1>1, <1>2 DEF IInv, TypeOK, cache, image, call, setup
<1>4. /\ OpenOK' /\ LoopOK' /\ FillOK' /\ ScratchOK' /\ SlurpOK' /\ ImageOK'
      /\ CacheCoherent' /\ DirectReadsExact'
  BY <1>1 DEF IInv, OpenOK, LoopOK, FillOK, ScratchOK, SlurpOK, ImageOK, CacheCoherent,
              DirectReadsExact, answered, Right, cache, image, call, setup
<1> QED
  BY <1>3, <1>4 DEF IInv

\* A call that begins has a request of the right type.
LEMMA RequestType ==
  ASSUME NEW op \in {"read", "data"}, NEW offset \in Nat, NEW len \in Nat,
         Begin(op, offset, len)
  PROVE  /\ req' \in [op : {"none", "read", "data"}, offset : Nat, len : Nat]
         /\ req'.op = op /\ req'.offset = offset /\ req'.len = len
         /\ pc = "idle"
BY DEF Begin

\* A read that is answered at once, or only begins, keeps the invariant.
LEMMA ReadBeginKeeps ==
  ASSUME IInv, NEW o \in Offsets, NEW n \in Lengths,
         ReadRefused(o, n) \/ ReadMapped(o, n) \/ ReadDirect(o, n)
  PROVE  IInv'
<1> USE Constants
<1>1. o \in Nat /\ n \in Nat
  OBVIOUS
<1>2. Begin("read", o, n)
  BY DEF ReadRefused, ReadMapped, ReadDirect
<1>3. /\ req' \in [op : {"none", "read", "data"}, offset : Nat, len : Nat]
      /\ req'.offset = o /\ req'.len = n /\ pc = "idle"
  BY <1>1, <1>2, RequestType
<1>4. UNCHANGED <<env, cache, image, setup, fill>>
  BY DEF ReadRefused, ReadMapped, ReadDirect
<1>5. pc' \in {"idle", "killed", "loop"} /\ done' \in {0, n}
  BY <1>3 DEF ReadRefused, ReadMapped, ReadDirect
<1>6. TypeOK'
  BY <1>1, <1>3, <1>4, <1>5 DEF IInv, TypeOK, env, cache, image, setup
<1>7. LoopOK'
  <2>1. CASE pc' = "loop"
    <3>1. done' = 0 /\ in_range(o, n)
      BY <1>3, <2>1 DEF ReadRefused, ReadMapped, ReadDirect
    <3>2. o + n <= file_size
      BY <1>1, <3>1 DEF in_range, IInv, TypeOK
    <3> QED
      BY <1>1, <1>3, <1>4, <1>5, <3>1, <3>2 DEF LoopOK, setup
  <2> QED
    BY <1>5, <2>1 DEF LoopOK
<1>8. DirectReadsExact'
  <2>1. CASE ReadRefused(o, n)
    <3>1. done' = 0 /\ err' = IF n = 0 THEN "SUCCESS" ELSE "TRUNCATED"
      BY <2>1 DEF ReadRefused
    <3> QED
      BY <1>1, <1>3, <3>1 DEF DirectReadsExact, answered
  <2>2. CASE ReadMapped(o, n)
    BY <1>4, <2>2 DEF ReadMapped, DirectReadsExact, setup
  <2>3. CASE ReadDirect(o, n)
    BY <2>3 DEF ReadDirect, DirectReadsExact, answered
  <2> QED
    BY <2>1, <2>2, <2>3
<1>9. OpenOK' /\ FillOK' /\ ScratchOK' /\ SlurpOK' /\ ImageOK' /\ CacheCoherent'
  BY <1>4, <1>5 DEF IInv, OpenOK, FillOK, ScratchOK, SlurpOK, ImageOK, CacheCoherent,
                    Right, cache, image, setup
<1> QED
  BY <1>6, <1>7, <1>8, <1>9 DEF IInv

\* Handing out the image that is there keeps the invariant.
LEMMA DataAtHandKeeps == IInv /\ DataAtHand => IInv'
<1> SUFFICES ASSUME IInv, DataAtHand PROVE IInv'
  OBVIOUS
<1>1. file_size \in Nat /\ 0 \in Nat /\ Begin("data", 0, file_size)
  BY DEF IInv, TypeOK, DataAtHand
<1>2. /\ req' \in [op : {"none", "read", "data"}, offset : Nat, len : Nat]
      /\ req'.offset = 0 /\ req'.len = file_size /\ pc = "idle"
  BY <1>1, RequestType
<1>3. UNCHANGED <<env, cache, slurp, setup, pc, held, fill>>
  BY DEF DataAtHand
<1>4. /\ slurp_ptr' = IF backend = "direct" /\ slurp_ptr = "null" THEN "dummy" ELSE slurp_ptr
      /\ backend = "mmap" \/ slurp_ptr # "null" \/ file_size = 0
      /\ done' = IF backend = "mmap" THEN 0 ELSE file_size
      /\ out' = [i \in 0..(done' - 1) |-> slurp[i]]
  BY DEF DataAtHand
<1>5. TypeOK'
  BY <1>1, <1>2, <1>3, <1>4 DEF IInv, TypeOK, env, cache, setup
<1>6. OpenOK' /\ LoopOK' /\ FillOK' /\ ScratchOK' /\ SlurpOK' /\ CacheCoherent'
  BY <1>2, <1>3 DEF IInv, OpenOK, LoopOK, FillOK, ScratchOK, SlurpOK, CacheCoherent,
                    cache, setup
<1>7. ImageOK'
  BY <1>3, <1>4 DEF IInv, ImageOK, Right, setup
<1>8. DirectReadsExact'
  <2>1. CASE backend = "direct" /\ slurp_ptr = "buffer"
    <3>1. /\ \A i \in 0..(file_size - 1) : 0 + i < file_size => slurp[i] = Byte(0 + i)
          /\ done' = file_size
      BY <1>4, <2>1 DEF IInv, ImageOK, Right
    <3>2. \A i \in 0..(done' - 1) : out'[i] = Byte(0 + i) /\ 0 + i < file_size
      BY <1>1, <1>4, <3>1
    <3> QED
      BY <1>2, <1>3, <3>1, <3>2 DEF DirectReadsExact, setup
  <2>2. CASE backend = "direct" /\ slurp_ptr # "buffer"
    <3>1. file_size = 0 /\ done' = 0
      BY <1>4, <2>2 DEF IInv, ImageOK, TypeOK
    <3> QED
      BY <1>2, <3>1 DEF DirectReadsExact
  <2>3. CASE backend # "direct"
    BY <1>3, <2>3 DEF DirectReadsExact, setup
  <2> QED
    BY <2>1, <2>2, <2>3
<1> QED
  BY <1>5, <1>6, <1>7, <1>8 DEF IInv

\* Beginning to read the whole image keeps the invariant.
LEMMA DataBeginKeeps == IInv /\ DataBegin => IInv'
<1> SUFFICES ASSUME IInv, DataBegin PROVE IInv'
  OBVIOUS
<1> DEFINE n == round_up_pow2(file_size)
<1>1. file_size \in Nat /\ 0 \in Nat /\ Begin("data", 0, file_size)
  BY DEF IInv, TypeOK, DataBegin
<1>2. /\ req' \in [op : {"none", "read", "data"}, offset : Nat, len : Nat]
      /\ req'.offset = 0 /\ req'.len = file_size /\ pc = "idle"
  BY <1>1, RequestType
<1>3. n \in Nat /\ n >= file_size
  BY <1>1, RoundUp
<1>4. /\ UNCHANGED <<env, cache, slurp_ptr, setup>> /\ slurp_ptr = "null" /\ done' = 0
      /\ \/ /\ pc' = "fill" /\ slurp' = [i \in 0..(n - 1) |-> Zero]
            /\ fill' = [into |-> "slurp", base |-> 0, len |-> n, total |-> 0]
         \/ pc' = "idle" /\ err' = "OUT_OF_MEMORY" /\ fill' = fill
  BY DEF DataBegin
<1> HIDE DEF n
<1>5. TypeOK'
  <2>1. fill' \in [into : {"none", "scratch", "slurp"}, base : Nat, len : Nat, total : Nat]
    BY <1>3, <1>4 DEF IInv, TypeOK
  <2> QED
    BY <1>2, <1>4, <2>1 DEF IInv, TypeOK, env, cache, setup
<1>6. SlurpOK'
  BY <1>1, <1>2, <1>3, <1>4 DEF SlurpOK, Right, setup
<1>7. OpenOK' /\ LoopOK' /\ FillOK' /\ ScratchOK' /\ ImageOK' /\ CacheCoherent'
  BY <1>4, SMTT(30) DEF IInv, OpenOK, LoopOK, FillOK, ScratchOK, ImageOK, CacheCoherent, cache, setup
<1>8. DirectReadsExact'
  BY <1>4 DEF DirectReadsExact, answered
<1> QED
  BY <1>5, <1>6, <1>7, <1>8 DEF IInv

(***************************************************************************)
(* The loop of direct_read_at                                              *)
(***************************************************************************)
\* What one hit copies fits the request and the cache.
LEMMA CopyFits ==
  ASSUME NEW len \in Nat, NEW d \in Nat, NEW valid \in Nat, NEW c \in Nat, d < len, c < valid
  PROVE  LET copy == MinOf(len - d, valid - c)
         IN  copy \in Nat /\ d + copy <= len /\ c + copy <= valid
BY DEF MinOf

\* The i-th byte of the request lies in the cache where it is copied from.
LEMMA CopyPlace ==
  ASSUME NEW d \in Nat, NEW c \in Nat, NEW copy \in Nat, NEW valid \in Nat, NEW i \in Nat,
         NEW from \in Nat, NEW to \in Nat,
         d <= i, i < d + copy, c + copy <= valid, from + c = to + d
  PROVE  c + i - d \in 0..(valid - 1) /\ from + (c + i - d) = to + i
OBVIOUS

\* Copying from the cache keeps what was copied right.
LEMMA HitKeeps == IInv /\ Hit => IInv'
<1> SUFFICES ASSUME IInv, Hit PROVE IInv'
  OBVIOUS
<1> DEFINE cached_off == offset_now - scratch_off
           copy == MinOf(req.len - done, scratch_valid - cached_off)
<1>1. /\ pc = "loop" /\ done < req.len /\ hit
      /\ out' = [i \in 0..(done + copy - 1) |->
                   IF i < done THEN out[i] ELSE scratch[cached_off + i - done]]
      /\ done' = done + copy
      /\ UNCHANGED <<env, cache, image, setup, req, err, calls, pc, held, fill, interrupts>>
  BY DEF Hit
<1>2. /\ done \in Nat /\ req.len \in Nat /\ req.offset \in Nat /\ file_size \in Nat
      /\ scratch_off \in Nat /\ scratch_valid \in Nat
  BY DEF IInv, TypeOK
<1>3. offset_now = req.offset + done /\ cached_off \in Nat /\ cached_off < scratch_valid
  <2>1. offset_now = req.offset + done
    BY DEF offset_now
  <2>2. offset_now >= scratch_off /\ offset_now < scratch_off + scratch_valid
    BY <1>1, Zenon DEF hit
  <2> QED
    BY <1>2, <2>1, <2>2
<1>4. scratch_off + cached_off = req.offset + done
  BY <1>2, <1>3
<1> HIDE DEF cached_off
<1>5. /\ copy \in Nat /\ done + copy <= req.len /\ cached_off + copy <= scratch_valid
  <2>1. done < req.len
    BY <1>1
  <2> QED
    BY <1>2, <1>3, <2>1, CopyFits
<1> HIDE DEF copy
<1>6. TypeOK'
  BY <1>1, <1>2, <1>5 DEF IInv, TypeOK, env, cache, image, setup
<1>7. /\ req.offset + req.len <= file_size
      /\ \A i \in 0..(done - 1) : out[i] = Byte(req.offset + i)
  BY <1>1 DEF IInv, LoopOK
<1>8. ASSUME NEW i \in 0..(done' - 1) PROVE out'[i] = Byte(req.offset + i)
  <2>1. i \in 0..(done + copy - 1) /\ i \in Nat
    BY <1>1, <1>2, <1>5
  <2>2. CASE i < done
    BY <1>1, <1>2, <1>7, <2>1, <2>2
  <2>3. CASE ~(i < done)
    <3> DEFINE j == cached_off + i - done
    <3>1. j \in 0..(scratch_valid - 1) /\ scratch_off + j = req.offset + i
      <4>1. done <= i /\ i < done + copy
        BY <1>2, <1>5, <2>1, <2>3
      <4> QED
        BY <1>2, <1>3, <1>4, <1>5, <2>1, <4>1, CopyPlace
    <3>2. scratch_off + j < file_size
      BY <1>2, <1>5, <1>7, <2>1, <3>1
    <3>3. out'[i] = scratch[j]
      BY <1>1, <2>1, <2>3
    <3> HIDE DEF j
    <3> QED
      BY <3>1, <3>2, <3>3 DEF IInv, CacheCoherent
  <2> QED
    BY <2>2, <2>3
<1>9. LoopOK'
  BY <1>1, <1>5, <1>7, <1>8 DEF LoopOK, setup
<1>10. OpenOK' /\ FillOK' /\ ScratchOK' /\ SlurpOK' /\ ImageOK' /\ CacheCoherent'
  BY <1>1 DEF IInv, OpenOK, FillOK, ScratchOK, SlurpOK, ImageOK, CacheCoherent, Right,
              cache, image, setup
<1>11. DirectReadsExact'
  BY <1>1 DEF DirectReadsExact, answered
<1> QED
  BY <1>6, <1>9, <1>10, <1>11 DEF IInv

\* A read is answered when all of it is copied.
LEMMA ReadDoneKeeps == IInv /\ ReadDone => IInv'
<1> SUFFICES ASSUME IInv, ReadDone PROVE IInv'
  OBVIOUS
<1>1. /\ pc = "loop" /\ done = req.len /\ pc' = "idle" /\ err' = "SUCCESS"
      /\ UNCHANGED <<env, cache, image, setup, req, done, out, calls, held, fill, interrupts>>
  BY DEF ReadDone
<1>2. TypeOK'
  BY <1>1 DEF IInv, TypeOK, env, cache, image, setup
<1>3. /\ req.offset + req.len <= file_size
      /\ \A i \in 0..(done - 1) : out[i] = Byte(req.offset + i)
  BY <1>1 DEF IInv, LoopOK
<1>4. req.offset \in Nat /\ req.len \in Nat /\ file_size \in Nat
  BY DEF IInv, TypeOK
<1>5. DirectReadsExact'
  BY <1>1, <1>3, <1>4 DEF DirectReadsExact, setup
<1>6. OpenOK' /\ LoopOK' /\ FillOK' /\ ScratchOK' /\ SlurpOK' /\ ImageOK' /\ CacheCoherent'
  BY <1>1 DEF IInv, OpenOK, LoopOK, FillOK, ScratchOK, SlurpOK, ImageOK, CacheCoherent,
              Right, cache, image, setup
<1> QED
  BY <1>2, <1>5, <1>6 DEF IInv

\* A miss invalidates the cache and begins a refill.
LEMMA MissKeeps == IInv /\ Miss => IInv'
<1> SUFFICES ASSUME IInv, Miss PROVE IInv'
  OBVIOUS
<1> DEFINE a == align_down(offset_now)
           n == refill_len(a)
<1>1. /\ pc = "loop" /\ done < req.len /\ pc' = "fill" /\ scratch_valid' = 0
      /\ fill' = [into |-> "scratch", base |-> a, len |-> n, total |-> 0]
      /\ UNCHANGED <<env, scratch, scratch_off, image, setup, call, held, interrupts>>
  BY DEF Miss
<1>2. /\ done \in Nat /\ req.len \in Nat /\ req.offset \in Nat /\ file_size \in Nat
      /\ req.offset + req.len <= file_size
  BY <1>1 DEF IInv, TypeOK, LoopOK
<1>3. offset_now \in Nat /\ offset_now < file_size
  BY <1>1, <1>2 DEF offset_now
<1>4. a \in Nat /\ n \in Nat /\ n <= ScratchSize
  BY <1>2, <1>3, AlignDown, RefillLen
<1> HIDE DEF a, n
<1>5. TypeOK'
  BY <1>1, <1>4, Constants DEF IInv, TypeOK, env, image, setup, call
<1>6. ScratchOK'
  BY <1>1, <1>4 DEF ScratchOK, Right
<1>7. LoopOK' /\ OpenOK' /\ FillOK' /\ SlurpOK' /\ ImageOK' /\ CacheCoherent'
  <2>1. LoopOK'
    BY <1>1 DEF IInv, LoopOK, setup, call
  <2>2. OpenOK' /\ FillOK' /\ SlurpOK'
    BY <1>1 DEF OpenOK, FillOK, SlurpOK
  <2>3. ImageOK'
    BY <1>1 DEF IInv, ImageOK, Right, image, setup
  <2>4. CacheCoherent'
    BY <1>1 DEF CacheCoherent
  <2> QED
    BY <2>1, <2>2, <2>3, <2>4
<1>8. DirectReadsExact'
  BY <1>1 DEF DirectReadsExact, answered
<1> QED
  BY <1>5, <1>6, <1>7, <1>8 DEF IInv

(***************************************************************************)
(* pread_full and its callers                                              *)
(***************************************************************************)
\* What every pread leaves alone, and the progress it records.
Filling(total) ==
  /\ pc = "fill" /\ pc' = "fill" /\ fill' = [fill EXCEPT !.total = total]
  /\ UNCHANGED <<env, setup, call, scratch_off, scratch_valid, slurp_ptr>>

\* A pread that extends what is right in the buffer keeps the invariant.
LEMMA FillKeeps ==
  ASSUME IInv, NEW t \in Nat, t <= fill.len, Filling(t),
         scratch' \in [0..(ScratchSize - 1) -> Int],
         fill.into = "scratch" => Right(scratch', fill.base, t),
         fill.into = "slurp" => DOMAIN slurp' = DOMAIN slurp /\ Right(slurp', fill.base, t),
         fill.into # "scratch" => scratch' = scratch,
         fill.into # "slurp" => slurp' = slurp
  PROVE  IInv'
<1>1. fill \in [into : {"none", "scratch", "slurp"}, base : Nat, len : Nat, total : Nat]
  BY DEF IInv, TypeOK
<1>2. /\ fill'.into = fill.into /\ fill'.base = fill.base /\ fill'.len = fill.len
      /\ fill'.total = t
      /\ fill' \in [into : {"none", "scratch", "slurp"}, base : Nat, len : Nat, total : Nat]
  BY <1>1 DEF Filling
<1>3. TypeOK'
  BY <1>2 DEF IInv, TypeOK, Filling, env, setup, call
<1>4. LoopOK' /\ OpenOK' /\ FillOK' /\ DirectReadsExact'
  BY <1>2 DEF IInv, LoopOK, OpenOK, FillOK, DirectReadsExact, answered, Filling, setup, call
<1>5. ScratchOK'
  BY <1>2 DEF IInv, ScratchOK, Right, Filling, setup
<1>6. SlurpOK'
  BY <1>2 DEF IInv, SlurpOK, Right, Filling, setup, call
<1>7. CacheCoherent'
  <2>1. CASE fill.into = "scratch"
    BY <2>1 DEF IInv, ScratchOK, CacheCoherent, Filling
  <2>2. CASE fill.into # "scratch"
    BY <2>2 DEF IInv, CacheCoherent, Filling, setup
  <2> QED
    BY <2>1, <2>2
<1>8. ImageOK'
  <2>1. CASE fill.into = "slurp"
    BY <2>1 DEF IInv, SlurpOK, ImageOK, Filling
  <2>2. CASE fill.into # "slurp"
    BY <2>2 DEF IInv, ImageOK, Right, Filling, setup
  <2> QED
    BY <2>1, <2>2
<1> QED
  BY <1>3, <1>4, <1>5, <1>6, <1>7, <1>8 DEF IInv

\* What is filled is what was filled before and what has just come.
LEMMA FilledSplit ==
  ASSUME NEW total \in Nat, NEW t \in Nat, NEW n \in Nat, t <= n
  PROVE  \A i \in 0..(t - 1) :
           i \in 0..(n - 1) /\ (i \in 0..(total - 1) \/ i \in total..(t - 1))
OBVIOUS

\* A short or whole pread keeps the invariant.
LEMMA PreadSomeKeeps == IInv /\ PreadSome => IInv'
<1> SUFFICES ASSUME IInv, PreadSome PROVE IInv'
  OBVIOUS
<1>1. PICK n \in 1..(fill.len - fill.total) :
        /\ filling
        /\ Write([i \in fill.total..(fill.total + n - 1) |-> Byte(fill.base + i)], fill.total + n)
        /\ UNCHANGED <<env, setup, call, scratch_off, scratch_valid, slurp_ptr, pc, held, interrupts>>
  BY DEF PreadSome
<1>2. /\ fill.base \in Nat /\ fill.len \in Nat /\ fill.total \in Nat /\ fill.total < fill.len
      /\ scratch \in [0..(ScratchSize - 1) -> Int] /\ file_size \in Nat /\ ScratchSize \in Nat
  BY <1>1, Constants DEF filling, IInv, TypeOK
<1> DEFINE t == fill.total + n
           New(buf) == [i \in DOMAIN buf |->
                          IF i \in fill.total..(t - 1) THEN Byte(fill.base + i) ELSE buf[i]]
<1>3. t \in Nat /\ t <= fill.len
  BY <1>2
<1>4. /\ scratch' = IF fill.into = "scratch" THEN New(scratch) ELSE scratch
      /\ slurp' = IF fill.into = "slurp" THEN New(slurp) ELSE slurp
      /\ Filling(t)
  <2> DEFINE bytes == [i \in fill.total..(fill.total + n - 1) |-> Byte(fill.base + i)]
  <2>1. /\ scratch' = Into(scratch, "scratch", bytes) /\ slurp' = Into(slurp, "slurp", bytes)
        /\ fill' = [fill EXCEPT !.total = t]
    <3>1. Write(bytes, t)
      BY <1>1
    <3> HIDE DEF bytes, t
    <3> QED
      BY <3>1, Zenon DEF Write
  <2>2. /\ DOMAIN bytes = fill.total..(t - 1)
        /\ \A i \in fill.total..(t - 1) : bytes[i] = Byte(fill.base + i)
    <3>1. fill.total + n - 1 = t - 1
      BY <1>2
    <3> HIDE DEF t
    <3> QED
      BY <3>1
  <2> HIDE DEF bytes, t
  <2>3. Filling(t)
    BY <1>1, <2>1 DEF Filling, filling
  <2> QED
    BY <2>1, <2>2, <2>3 DEF Into
<1>5. scratch' \in [0..(ScratchSize - 1) -> Int]
  <2>1. \A i \in 0..(ScratchSize - 1) : Byte(fill.base + i) \in Int
    BY <1>2 DEF Byte
  <2> QED
    BY <1>2, <1>4, <2>1
<1>6. ASSUME fill.into = "scratch" PROVE Right(scratch', fill.base, t)
  <2>1. fill.len <= ScratchSize /\ Right(scratch, fill.base, fill.total)
    BY <1>1, <1>6 DEF IInv, ScratchOK, filling
  <2>2. DOMAIN scratch = 0..(ScratchSize - 1)
    BY <1>2
  <2>3. \A i \in 0..(t - 1) : i \in DOMAIN scratch /\ (i \in 0..(fill.total - 1) \/ i \in fill.total..(t - 1))
    <3>1. ScratchSize \in Nat /\ fill.total \in Nat /\ t <= ScratchSize
      BY <1>2, <1>3, <2>1, Constants
    <3> HIDE DEF t
    <3> QED
      BY <1>3, <2>2, <3>1, FilledSplit
  <2> HIDE DEF t
  <2> QED
    BY <1>4, <1>6, <2>1, <2>3 DEF Right
<1>7. ASSUME fill.into = "slurp"
      PROVE  DOMAIN slurp' = DOMAIN slurp /\ Right(slurp', fill.base, t)
  <2>1. /\ DOMAIN slurp = 0..(fill.len - 1) /\ fill.base = 0
        /\ Right(slurp, fill.base, fill.total)
    BY <1>1, <1>7 DEF IInv, SlurpOK, filling
  <2>2. \A i \in 0..(t - 1) : i \in DOMAIN slurp /\ (i \in 0..(fill.total - 1) \/ i \in fill.total..(t - 1))
    <3>1. fill.len \in Nat /\ fill.total \in Nat
      BY <1>2
    <3> HIDE DEF t
    <3> QED
      BY <1>3, <2>1, <3>1, FilledSplit
  <2> HIDE DEF t
  <2> QED
    BY <1>4, <1>7, <2>1, <2>2 DEF Right
<1> HIDE DEF t
<1> QED
  BY <1>3, <1>4, <1>5, <1>6, <1>7, FillKeeps

\* Zeros fill only what lies behind the end the source had at open.
LEMMA PreadZerosKeeps == IInv /\ PreadZeros => IInv'
<1> SUFFICES ASSUME IInv, PreadZeros PROVE IInv'
  OBVIOUS
<1>1. /\ filling /\ fill.base + fill.total >= file_size
      /\ Write([i \in fill.total..(fill.len - 1) |-> Zero], fill.len)
      /\ UNCHANGED <<env, setup, call, scratch_off, scratch_valid, slurp_ptr, pc, held, interrupts>>
  BY DEF PreadZeros, at_end
<1>2. /\ fill.base \in Nat /\ fill.len \in Nat /\ fill.total \in Nat /\ fill.total < fill.len
      /\ scratch \in [0..(ScratchSize - 1) -> Int] /\ file_size \in Nat /\ ScratchSize \in Nat
  BY <1>1, Constants DEF filling, IInv, TypeOK
<1> DEFINE New(buf) == [i \in DOMAIN buf |->
                          IF i \in fill.total..(fill.len - 1) THEN Zero ELSE buf[i]]
<1>3. /\ scratch' = IF fill.into = "scratch" THEN New(scratch) ELSE scratch
      /\ slurp' = IF fill.into = "slurp" THEN New(slurp) ELSE slurp
      /\ Filling(fill.len)
  BY <1>1 DEF Write, Into, Filling, filling
<1>4. scratch' \in [0..(ScratchSize - 1) -> Int]
  BY <1>2, <1>3 DEF Zero
<1>5. \A i \in 0..(fill.len - 1) : fill.base + i < file_size => i \in 0..(fill.total - 1)
  BY <1>1, <1>2
<1>6. ASSUME fill.into = "scratch" PROVE Right(scratch', fill.base, fill.len)
  <2>1. fill.len <= ScratchSize /\ Right(scratch, fill.base, fill.total)
    BY <1>1, <1>6 DEF IInv, ScratchOK, filling
  <2>2. \A i \in 0..(fill.total - 1) : i \in DOMAIN scratch /\ i \notin fill.total..(fill.len - 1)
    BY <1>2, <2>1
  <2> QED
    BY <1>3, <1>5, <1>6, <2>1, <2>2 DEF Right
<1>7. ASSUME fill.into = "slurp"
      PROVE  DOMAIN slurp' = DOMAIN slurp /\ Right(slurp', fill.base, fill.len)
  <2>1. /\ DOMAIN slurp = 0..(fill.len - 1) /\ fill.base = 0
        /\ Right(slurp, fill.base, fill.total)
    BY <1>1, <1>7 DEF IInv, SlurpOK, filling
  <2>2. \A i \in 0..(fill.total - 1) : i \in DOMAIN slurp /\ i \notin fill.total..(fill.len - 1)
    BY <1>2, <2>1
  <2> QED
    BY <1>3, <1>5, <1>7, <2>1, <2>2 DEF Right
<1> QED
  BY <1>2, <1>3, <1>4, <1>6, <1>7, FillKeeps

\* A failed pread gives up the call, and the buffer it was filling.
LEMMA PreadFailsKeeps == IInv /\ PreadFails => IInv'
<1> SUFFICES ASSUME IInv, PreadFails PROVE IInv'
  OBVIOUS
<1>1. /\ pc = "fill" /\ pc' = "idle" /\ err' = "IO" /\ fill' = NoFill
      /\ fill.into # "slurp" => slurp' = slurp
      /\ UNCHANGED <<env, cache, slurp_ptr, setup, req, done, out, calls, interrupts>>
  BY DEF PreadFails, filling
<1>2. TypeOK'
  BY <1>1 DEF IInv, TypeOK, NoFill, env, cache, setup
<1>3. OpenOK' /\ LoopOK' /\ FillOK' /\ ScratchOK' /\ SlurpOK' /\ CacheCoherent'
  BY <1>1 DEF IInv, OpenOK, LoopOK, FillOK, ScratchOK, SlurpOK, CacheCoherent, cache, setup
<1>4. ImageOK'
  BY <1>1 DEF IInv, SlurpOK, ImageOK, Right, setup
<1>5. DirectReadsExact'
  BY <1>1 DEF DirectReadsExact, answered
<1> QED
  BY <1>2, <1>3, <1>4, <1>5 DEF IInv

\* A whole refill becomes the cache.
LEMMA RefilledKeeps == IInv /\ Refilled => IInv'
<1> SUFFICES ASSUME IInv, Refilled PROVE IInv'
  OBVIOUS
<1>1. /\ pc = "fill" /\ fill.total = fill.len /\ fill.into = "scratch"
      /\ pc' = "loop" /\ fill' = NoFill
      /\ scratch_off' = fill.base /\ scratch_valid' = fill.len
      /\ UNCHANGED <<env, scratch, image, setup, call, held, interrupts>>
  BY DEF Refilled
<1>2. fill.base \in Nat /\ fill.len \in Nat
  BY DEF IInv, TypeOK
<1>3. fill.len <= ScratchSize /\ Right(scratch, fill.base, fill.len)
  BY <1>1 DEF IInv, ScratchOK
<1>4. TypeOK'
  <2>1. UNCHANGED <<size, mode, scratch, slurp_ptr, backend, file_size, req, done>>
    BY <1>1, Zenon DEF env, image, setup, call
  <2>2. scratch_off' \in Nat /\ scratch_valid' \in 0..ScratchSize
    BY <1>1, <1>2, <1>3, Constants
  <2>3. fill' \in [into : {"none", "scratch", "slurp"}, base : Nat, len : Nat, total : Nat]
    BY <1>1 DEF NoFill
  <2> QED
    BY <1>1, <2>1, <2>2, <2>3 DEF IInv, TypeOK
<1>5. CacheCoherent'
  BY <1>1, <1>3 DEF CacheCoherent, Right, setup
<1>6. LoopOK'
  BY <1>1 DEF IInv, LoopOK, setup, call
<1>7. OpenOK' /\ FillOK' /\ ScratchOK' /\ SlurpOK' /\ ImageOK' /\ DirectReadsExact'
  BY <1>1 DEF IInv, OpenOK, FillOK, ScratchOK, SlurpOK, ImageOK, DirectReadsExact,
              answered, Right, image, setup
<1> QED
  BY <1>4, <1>5, <1>6, <1>7 DEF IInv

\* A whole image is handed out.
LEMMA MaterializedKeeps == IInv /\ Materialized => IInv'
<1> SUFFICES ASSUME IInv, Materialized PROVE IInv'
  OBVIOUS
<1>1. /\ pc = "fill" /\ fill.total = fill.len /\ fill.into = "slurp"
      /\ pc' = "idle" /\ fill' = NoFill /\ slurp_ptr' = "buffer" /\ done' = file_size
      /\ out' = [i \in 0..(file_size - 1) |-> slurp[i]]
      /\ UNCHANGED <<env, cache, slurp, setup, req, calls, held, interrupts>>
  BY DEF Materialized
<1>2. /\ fill.len \in Nat /\ file_size \in Nat /\ fill.len >= file_size
      /\ req.offset = 0 /\ req.len = file_size
      /\ \A i \in 0..(fill.len - 1) : 0 + i < file_size => slurp[i] = Byte(0 + i)
  BY <1>1 DEF IInv, SlurpOK, TypeOK, Right
<1>3. \A i \in 0..(file_size - 1) : 0 + i < file_size /\ slurp[i] = Byte(0 + i)
  BY <1>2
<1>4. TypeOK'
  BY <1>1, <1>2 DEF IInv, TypeOK, NoFill, env, cache, setup
<1>5. DirectReadsExact'
  BY <1>1, <1>2, <1>3 DEF DirectReadsExact, setup
<1>6. ImageOK'
  BY <1>1, <1>3 DEF ImageOK, Right, setup
<1>7. OpenOK' /\ LoopOK' /\ FillOK' /\ ScratchOK' /\ SlurpOK' /\ CacheCoherent'
  BY <1>1 DEF IInv, OpenOK, LoopOK, FillOK, ScratchOK, SlurpOK, CacheCoherent, cache, setup
<1> QED
  BY <1>4, <1>5, <1>6, <1>7 DEF IInv

\* A step that changes nothing the invariant speaks of keeps it.
LEMMA StutterKeeps ==
  IInv /\ UNCHANGED <<env, cache, image, call, setup, pc, fill>> => IInv'
<1> SUFFICES ASSUME IInv, UNCHANGED <<env, cache, image, call, setup, pc, fill>> PROVE IInv'
  OBVIOUS
<1>1. TypeOK'
  BY DEF IInv, TypeOK, env, cache, image, call, setup
<1>2. OpenOK' /\ FillOK'
  BY DEF IInv, OpenOK, FillOK, cache, image, call, setup
<1>3. LoopOK' /\ ScratchOK'
  BY DEF IInv, LoopOK, ScratchOK, Right, env, cache, call, setup
<1>4. SlurpOK' /\ ImageOK'
  BY DEF IInv, SlurpOK, ImageOK, Right, env, image, call, setup
<1>5. CacheCoherent'
  BY DEF IInv, CacheCoherent, Right, cache, env, setup
<1>6. DirectReadsExact'
  BY DEF IInv, DirectReadsExact, answered, Right, env, call, image, setup
<1> QED
  BY <1>1, <1>2, <1>3, <1>4, <1>5, <1>6 DEF IInv

\* Every step keeps the invariant.
LEMMA StepKeeps == IInv /\ [Next]_vars => IInv'
<1> SUFFICES ASSUME IInv, [Next]_vars PROVE IInv'
  OBVIOUS
<1>1. CASE UNCHANGED vars
  BY <1>1, StutterKeeps DEF vars
<1>2. CASE PreadInterrupted
  BY <1>2, StutterKeeps DEF PreadInterrupted
<1>3. CASE Step
  BY <1>2, <1>3, OpenKeeps, HitKeeps, ReadDoneKeeps, MissKeeps, PreadSomeKeeps,
     PreadZerosKeeps, PreadFailsKeeps, RefilledKeeps, MaterializedKeeps DEF Step
<1> QED
  BY <1>1, <1>3, DataAtHandKeeps, DataBeginKeeps, EnvironmentKeeps, ReadBeginKeeps DEF Next

\* The invariant holds in every reachable state of the reader.
THEOREM InvariantHolds == Spec => []IInv
<1>1. Init => IInv
  <2> SUFFICES ASSUME Init PROVE IInv
    OBVIOUS
  <2>1. TypeOK
    BY Constants DEF Init, TypeOK, NoFill, NoRead, Zero
  <2>2. /\ OpenOK /\ LoopOK /\ FillOK /\ ScratchOK /\ SlurpOK /\ ImageOK
        /\ CacheCoherent /\ DirectReadsExact
    BY DEF Init, OpenOK, LoopOK, FillOK, ScratchOK, SlurpOK, ImageOK, CacheCoherent,
           DirectReadsExact, answered
  <2> QED
    BY <2>1, <2>2 DEF IInv
<1> QED
  BY <1>1, StepKeeps, PTL DEF Spec

\* Direct reads return the bytes of the source and all of them, for every
\* source size, alignment, cache size and sequence of calls, short reads,
\* interrupts, failures and cuts.
THEOREM DirectReadsAreExact == Spec => []DirectReadsExact
<1>1. IInv => DirectReadsExact
  BY DEF IInv
<1> QED
  BY <1>1, InvariantHolds, PTL

(***************************************************************************)
(* What the reader holds                                                   *)
(***************************************************************************)
\* What is held when a step of opening begins.
HeldBefore(s) ==
  CASE s = "calloc" -> {}
    [] s \in {"stat", "open", "mm_calloc"} -> {"reader"}
    [] s \in {"fstat", "query_size", "memalign"} -> {"reader", "fd"}
    [] s = "mm_open" -> {"reader", "mmap_reader"}
    [] OTHER -> {"reader", "mmap_reader", "fd"}

\* What an open reader holds; the image's buffer while it is read, too.
HeldOpen ==
  IF backend = "mmap"
  THEN {"reader", "mmap_reader", "fd"} \cup (IF file_size > 0 THEN {"mapping"} ELSE {})
  ELSE {"reader", "fd", "scratch"} \cup
       (IF slurp_ptr = "buffer" \/ (pc = "fill" /\ fill.into = "slurp") THEN {"slurp"} ELSE {})

\* The step of opening belongs to the backend that is opened.
OnPath ==
  \/ step \in {"calloc", "stat"}
  \/ step \in {"open", "fstat", "query_size", "memalign"} /\ resolved = "direct"
  \/ step \in {"mm_calloc", "mm_open", "mm_fstat", "mm_size", "mmap"} /\ resolved = "mmap"

HeldOK ==
  /\ pc = "opening" => /\ OnPath /\ held = HeldBefore(step) /\ slurp_ptr = "null"
  /\ pc \in {"idle", "loop", "fill"} => backend \in {"mmap", "direct"} /\ held = HeldOpen
  /\ pc \in {"loop", "fill"} => backend = "direct"
  /\ slurp_ptr = "buffer" => file_size > 0
  /\ pc = "fill" /\ fill.into = "slurp" => file_size > 0 /\ slurp_ptr = "null"
  /\ AllReleased

\* Opening takes and gives back what it should.
LEMMA OpenHeld == TypeOK /\ HeldOK /\ (OpenStep \/ OpenFail) => HeldOK'
<1> SUFFICES ASSUME TypeOK, HeldOK, OpenStep \/ OpenFail PROVE HeldOK'
  OBVIOUS
<1>1. /\ pc = "opening" /\ OnPath /\ held = HeldBefore(step) /\ slurp_ptr = "null"
      /\ slurp_ptr' = "null" /\ resolved' = resolved
      /\ resolved \in {"mmap", "direct"}
  BY DEF HeldOK, OpenStep, OpenFail, image, env, resolved, TypeOK
<1>2. CASE OpenFail
  <2>1. held \ Frees(step) = {}
    BY <1>1 DEF OnPath, HeldBefore, Frees
  <2> QED
    BY <1>1, <1>2, <2>1 DEF OpenFail, HeldOK, AllReleased
<1>3. CASE OpenStep /\ step' # "ready"
  <2>1. pc' = "opening" /\ held' = held \cup Gains(step) /\ step' = After(step)
    BY <1>1, <1>3 DEF OpenStep
  <2>2. OnPath'
    BY <1>1, <1>3, <2>1 DEF OnPath, After, FirstOf
  <2>3. held' = HeldBefore(step')
    BY <1>1, <1>3, <2>1 DEF OnPath, After, FirstOf, HeldBefore, Gains
  <2> QED
    BY <1>1, <2>1, <2>2, <2>3 DEF HeldOK, AllReleased
<1>4. CASE OpenStep /\ step' = "ready"
  <2>1. pc' = "idle" /\ held' = held \cup Gains(step) /\ backend' = resolved
    BY <1>4 DEF OpenStep
  <2>2. (step = "memalign" /\ resolved = "direct") \/ (step = "mmap" /\ resolved = "mmap")
    BY <1>1, <1>4 DEF OpenStep, OnPath, After, FirstOf
  <2>3. file_size' = file_size
    BY <1>4, <2>2 DEF OpenStep, sizes_seen
  <2>4. held' = HeldOpen'
    BY <1>1, <2>1, <2>2, <2>3 DEF HeldOpen, HeldBefore, Gains
  <2> QED
    BY <1>1, <2>1, <2>4 DEF HeldOK, AllReleased
<1> QED
  BY <1>2, <1>3, <1>4

\* Closing gives back everything that is held.
LEMMA CloseHeld == HeldOK /\ Close => HeldOK'
<1> SUFFICES ASSUME HeldOK, Close PROVE HeldOK'
  OBVIOUS
<1>1. pc = "idle" /\ pc' = "closed" /\ UNCHANGED <<slurp_ptr, file_size>>
  BY DEF Close, image, setup
<1>2. backend \in {"mmap", "direct"} /\ held = HeldOpen
  BY <1>1 DEF HeldOK
<1>3. held' = {}
  BY <1>1, <1>2 DEF Close, HeldOpen, HeldOK
<1> QED
  BY <1>1, <1>3 DEF HeldOK, AllReleased

\* A call changes what is held only by the buffer of the image.
LEMMA CallHeld ==
  ASSUME HeldOK, TypeOK, Next, ~OpenStep, ~OpenFail, ~Close
  PROVE  HeldOK'
<1>1. CASE DataBegin
  <2>1. /\ pc = "idle" /\ backend = "direct" /\ slurp_ptr = "null" /\ file_size > 0
        /\ UNCHANGED <<backend, file_size, slurp_ptr>>
    BY <1>1, Zenon DEF DataBegin, Begin, setup
  <2>2. held = {"reader", "fd", "scratch"}
    BY <2>1 DEF HeldOK, HeldOpen
  <2>3. CASE pc' = "fill"
    <3>1. held' = held \cup {"slurp"} /\ fill'.into = "slurp"
      BY <1>1, <2>3 DEF DataBegin
    <3> QED
      BY <2>1, <2>2, <2>3, <3>1 DEF HeldOK, HeldOpen, AllReleased
  <2>4. CASE pc' = "idle"
    <3>1. UNCHANGED <<held, fill>>
      BY <1>1, <2>4 DEF DataBegin
    <3> QED
      BY <2>1, <2>2, <2>4, <3>1 DEF HeldOK, HeldOpen, AllReleased
  <2> QED
    BY <1>1, <2>3, <2>4, Zenon DEF DataBegin
<1>2. CASE PreadFails
  BY <1>2 DEF PreadFails, filling, HeldOK, HeldOpen, AllReleased, setup
<1>3. CASE Materialized
  BY <1>3 DEF Materialized, HeldOK, HeldOpen, AllReleased, setup
<1>4. CASE Refilled
  BY <1>4 DEF Refilled, HeldOK, HeldOpen, AllReleased, setup, image
<1>5. CASE Miss
  BY <1>5 DEF Miss, HeldOK, HeldOpen, AllReleased, setup, image
<1>6. CASE Hit \/ ReadDone
  BY <1>6 DEF Hit, ReadDone, HeldOK, HeldOpen, AllReleased, setup, image
<1>7. CASE PreadSome \/ PreadZeros \/ PreadInterrupted
  <2>1. pc = "fill" /\ pc' = "fill" /\ fill'.into = fill.into
        /\ UNCHANGED <<setup, slurp_ptr, held>>
    BY <1>7 DEF PreadSome, PreadZeros, PreadInterrupted, filling, Write, image, TypeOK
  <2> QED
    BY <2>1 DEF HeldOK, HeldOpen, AllReleased, setup
<1>8. CASE DataAtHand
  BY <1>8 DEF DataAtHand, Begin, HeldOK, HeldOpen, AllReleased, setup
<1>9. CASE Shrink
  BY <1>9 DEF Shrink, HeldOK, HeldOpen, AllReleased, setup, image
<1>10. ASSUME NEW o \in Offsets, NEW n \in Lengths,
              ReadRefused(o, n) \/ ReadMapped(o, n) \/ ReadDirect(o, n)
       PROVE  HeldOK'
  BY <1>10 DEF ReadRefused, ReadMapped, ReadDirect, Begin, HeldOK, HeldOpen, AllReleased,
               setup, image
<1> QED
  BY <1>1, <1>2, <1>3, <1>4, <1>5, <1>6, <1>7, <1>8, <1>9, <1>10 DEF Next, Step

\* A reader that could not be opened, or was closed, holds nothing, at
\* whatever call opening fails and whatever was read before.
THEOREM NothingLeaks == Spec => []AllReleased
<1>1. Init => HeldOK
  BY DEF Init, HeldOK, HeldBefore, OnPath, AllReleased
<1>2. TypeOK /\ HeldOK /\ [Next]_vars => HeldOK'
  <2>1. CASE UNCHANGED vars
    BY <2>1 DEF vars, env, setup, image, HeldOK, HeldOpen, OnPath, resolved, AllReleased
  <2> QED
    BY <2>1, OpenHeld, CloseHeld, CallHeld
<1>3. IInv => TypeOK
  BY DEF IInv
<1>4. HeldOK => AllReleased
  BY DEF HeldOK
<1> QED
  BY <1>1, <1>2, <1>3, <1>4, InvariantHolds, PTL DEF Spec

(***************************************************************************)
(* Automatic mode                                                          *)
(***************************************************************************)
\* The page cache of a regular file is the file; the size of a mapped one is
\* known from mm_size on, and a mapped read that was answered copied it.
PlainFile == kind = "regular" /\ ~shrunk
MappedExact ==
  answered /\ backend = "mmap" /\ PlainFile /\ req.op = "read" =>
    done = req.len /\ \A i \in 0..(done - 1) : out[i] = Byte(req.offset + i)

AutoOK ==
  /\ kind \in {"regular", "block"} /\ (kind = "regular" => dirty = {})
  /\ pc = "opening" => OnPath
  /\ pc = "opening" /\ step = "mmap" /\ PlainFile => file_size = size
  /\ pc \in {"idle", "loop", "fill", "closed"} => backend = resolved
  /\ pc = "idle" /\ backend = "mmap" /\ PlainFile => file_size = size
  /\ pc \in {"loop", "fill"} => backend = "direct"
  /\ MappedExact

\* Opening a regular file for mapping records its size.
LEMMA OpenAuto == TypeOK /\ OpenOK /\ AutoOK /\ (OpenStep \/ OpenFail) => AutoOK'
<1> SUFFICES ASSUME TypeOK, OpenOK, AutoOK, OpenStep \/ OpenFail PROVE AutoOK'
  OBVIOUS
<1>1. /\ pc = "opening" /\ OnPath /\ err' = "none" /\ UNCHANGED <<kind, dirty, size, mode, shrunk>>
      /\ resolved' = resolved /\ resolved \in {"mmap", "direct"}
  BY DEF AutoOK, OpenOK, OpenStep, OpenFail, env, call, resolved, TypeOK
<1>2. MappedExact'
  BY <1>1 DEF MappedExact, answered
<1>3. PlainFile' = PlainFile
  BY <1>1 DEF PlainFile
<1>4. CASE OpenFail
  BY <1>1, <1>2, <1>4 DEF OpenFail, AutoOK
<1>5. CASE OpenStep /\ step' # "ready"
  <2>1. pc' = "opening" /\ step' = After(step) /\ file_size' \in sizes_seen(step)
    BY <1>1, <1>5 DEF OpenStep
  <2>2. OnPath'
    BY <1>1, <1>5, <2>1 DEF OnPath, After, FirstOf
  <2>3. step' = "mmap" => step = "mm_size"
    BY <1>1, <2>1 DEF OnPath, After, FirstOf
  <2>4. step' = "mmap" /\ PlainFile' => file_size' = size'
    BY <1>1, <1>3, <2>1, <2>3 DEF sizes_seen, PlainFile
  <2> QED
    BY <1>1, <1>2, <2>1, <2>2, <2>4 DEF AutoOK
<1>6. CASE OpenStep /\ step' = "ready"
  <2>1. pc' = "idle" /\ backend' = resolved
    BY <1>6 DEF OpenStep
  <2>2. (step = "memalign" /\ resolved = "direct") \/ (step = "mmap" /\ resolved = "mmap")
    BY <1>1, <1>6 DEF OpenStep, OnPath, After, FirstOf
  <2>3. file_size' = file_size
    BY <1>6, <2>2 DEF OpenStep, sizes_seen
  <2> QED
    BY <1>1, <1>2, <1>3, <2>1, <2>2, <2>3 DEF AutoOK
<1> QED
  BY <1>4, <1>5, <1>6

\* A mapped read copies from the page cache, inside the file.
LEMMA MappedAuto ==
  ASSUME TypeOK, AutoOK, NEW o \in Offsets, NEW n \in Lengths, ReadMapped(o, n)
  PROVE  AutoOK'
<1>1. /\ pc = "idle" /\ backend = "mmap" /\ pc' \in {"idle", "killed"}
      /\ UNCHANGED <<kind, dirty, size, mode, shrunk, step, backend, file_size>>
      /\ req' = [op |-> "read", offset |-> o, len |-> n] /\ in_range(o, n)
  BY DEF ReadMapped, Begin, env, setup
<1>2. resolved' = resolved /\ PlainFile' = PlainFile
  BY <1>1 DEF resolved, PlainFile
<1>3. ASSUME answered', PlainFile PROVE done' = n /\ \A i \in 0..(n - 1) : out'[i] = Byte(o + i)
  <2>1. pc' = "idle" /\ done' = n
    BY <1>1, <1>3 DEF answered, ReadMapped
  <2>2. file_size = size /\ o \in Nat /\ n \in Nat /\ size \in Nat
    BY <1>1, <1>3, Constants DEF AutoOK, TypeOK
  <2>3. o + n <= size
    BY <1>1, <2>2 DEF in_range
  <2>4. dirty = {}
    BY <1>3 DEF AutoOK, PlainFile
  <2>5. out' = [i \in 0..(n - 1) |-> IF o + i < size THEN Cached(o + i) ELSE Zero]
    BY <2>1 DEF ReadMapped
  <2> QED
    BY <2>1, <2>2, <2>3, <2>4, <2>5 DEF Cached
<1>4. MappedExact'
  BY <1>1, <1>2, <1>3 DEF MappedExact
<1> QED
  BY <1>1, <1>2, <1>4 DEF AutoOK

\* No other step answers a read of a mapping.
LEMMA OtherAuto ==
  ASSUME TypeOK, AutoOK, Next, ~OpenStep, ~OpenFail,
         \A o \in Offsets, n \in Lengths : ~ReadMapped(o, n)
  PROVE  AutoOK'
<1>1. UNCHANGED <<kind, dirty, mode, step, backend, file_size>>
  BY DEF Next, Step, Hit, ReadDone, Miss, PreadSome, PreadInterrupted, PreadZeros, PreadFails,
         Refilled, Materialized, DataAtHand, DataBegin, Close, Shrink, ReadRefused, ReadDirect,
         env, setup
<1>2. resolved' = resolved
  BY <1>1 DEF resolved
<1>3. CASE Shrink
  BY <1>1, <1>2, <1>3 DEF Shrink, AutoOK, PlainFile, MappedExact
<1>4. CASE Hit \/ ReadDone \/ Miss \/ PreadSome \/ PreadInterrupted \/ PreadZeros \/ PreadFails
           \/ Refilled \/ Materialized
  <2>1. pc \in {"loop", "fill"} /\ pc' \in {"idle", "loop", "fill"} /\ UNCHANGED <<size, shrunk>>
    BY <1>4 DEF Hit, ReadDone, Miss, PreadSome, PreadInterrupted, PreadZeros, PreadFails,
                Refilled, Materialized, filling, env
  <2> QED
    BY <1>1, <1>2, <2>1 DEF AutoOK, MappedExact, PlainFile
<1>5. CASE Close
  BY <1>1, <1>2, <1>5 DEF Close, AutoOK, MappedExact, PlainFile, answered, env, call
<1>6. CASE DataAtHand \/ DataBegin
  <2>1. /\ pc = "idle" /\ req'.op = "data" /\ UNCHANGED <<size, shrunk>>
        /\ pc' \in {"idle", "fill"} /\ (pc' = "fill" => backend = "direct")
    <3>1. CASE DataAtHand
      BY <3>1 DEF DataAtHand, Begin, env
    <3>2. CASE DataBegin
      BY <3>2 DEF DataBegin, Begin, env
    <3> QED
      BY <1>6, <3>1, <3>2, Zenon
  <2> QED
    BY <1>1, <1>2, <2>1 DEF AutoOK, MappedExact, PlainFile
<1>7. ASSUME NEW o \in Offsets, NEW n \in Lengths, ReadRefused(o, n)
      PROVE  AutoOK'
  <2>1. /\ pc = "idle" /\ pc' = "idle" /\ UNCHANGED <<size, shrunk>> /\ done' = 0
        /\ req' = [op |-> "read", offset |-> o, len |-> n] /\ (err' = "SUCCESS" => n = 0)
    BY <1>7 DEF ReadRefused, Begin, env
  <2>2. MappedExact'
    BY <2>1, SMTT(30) DEF MappedExact, answered
  <2> QED
    BY <1>1, <1>2, <2>1, <2>2 DEF AutoOK, PlainFile
<1>8. ASSUME NEW o \in Offsets, NEW n \in Lengths, ReadDirect(o, n)
      PROVE  AutoOK'
  BY <1>1, <1>2, <1>8 DEF ReadDirect, Begin, env, AutoOK, MappedExact, PlainFile
<1> QED
  BY <1>3, <1>4, <1>5, <1>6, <1>7, <1>8 DEF Next, Step

\* In automatic mode a read has the bytes on the disk, for every device,
\* size and page cache: a device is read directly, and the page cache of a
\* regular file is the file.
THEOREM AutoModeReadsDisk == Spec => []AutoReadsDisk
<1>1. Init => AutoOK
  BY DEF Init, AutoOK, OnPath, MappedExact, answered
<1>2. IInv /\ AutoOK /\ [Next]_vars => AutoOK'
  <2>1. CASE UNCHANGED vars
    BY <2>1 DEF vars, env, setup, call, AutoOK, OnPath, resolved, MappedExact, answered, PlainFile
  <2> QED
    BY <2>1, OpenAuto, MappedAuto, OtherAuto DEF IInv
<1>3. IInv /\ AutoOK => AutoReadsDisk
  <2> SUFFICES ASSUME IInv, AutoOK, answered, mode = "auto", req.op = "read", ~shrunk
               PROVE  done = req.len /\ \A i \in 0..(done - 1) : out[i] = Byte(req.offset + i)
    BY DEF AutoReadsDisk
  <2>1. backend = resolved
    BY DEF AutoOK, answered
  <2>2. CASE kind = "block"
    BY <2>1, <2>2 DEF resolved, IInv, DirectReadsExact
  <2>3. CASE kind = "regular"
    BY <2>1, <2>3 DEF resolved, AutoOK, MappedExact, PlainFile
  <2> QED
    BY <2>2, <2>3 DEF AutoOK
<1> QED
  BY <1>1, <1>2, <1>3, InvariantHolds, PTL DEF Spec
=============================================================================
