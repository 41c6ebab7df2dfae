---------------------------- MODULE SourceReader ----------------------------
(***************************************************************************)
(* Reading a source image through a mapping or through O_DIRECT.  The byte *)
(* at offset o of the source is the number o + 1, so that a byte from the  *)
(* wrong place, or the 0 of a zero-fill, shows.  Of a mounted device the   *)
(* page cache may hold other bytes than the disk at the offsets in dirty.  *)
(* The source may be cut short while it is open; it is not rewritten.      *)
(***************************************************************************)
EXTENDS Integers, FiniteSets, Sequences

CONSTANTS
  SIZE_MAX,
  SrcSizes,      \* sizes of the source
  Dirties,       \* sets of offsets the page cache holds other bytes at
  Align,         \* alignment of direct reads
  ScratchSize,   \* FSD_DIO_SCRATCH_SIZE, whole alignments
  PageSize,
  Offsets,       \* offsets asked for
  Lengths,       \* lengths asked for
  MaxCalls,
  MaxInterrupts  \* preads a signal interrupts during one call

ASSUME ReaderAssumption ==
  /\ SIZE_MAX \in Nat /\ Align \in Nat \ {0} /\ PageSize \in Nat \ {0}
  /\ ScratchSize \in Nat \ {0} /\ ScratchSize % Align = 0
  /\ SrcSizes \subseteq Nat /\ \A s \in SrcSizes : s + Align <= SIZE_MAX + 1
  /\ Offsets \subseteq Nat /\ Lengths \subseteq 0..SIZE_MAX
  /\ MaxCalls \in Nat /\ MaxInterrupts \in Nat

VARIABLES
  kind,          \* "regular" or "block"
  dirty,
  size,          \* of the source now
  mode,          \* the backend asked for
  pc,            \* "opening", "idle", "loop", "fill", "failed", "closed" or "killed"
  step,          \* the call of opening that comes next
  held,          \* what the reader holds
  backend, file_size,
  scratch, scratch_off, scratch_valid,
  slurp,         \* the buffer of the whole image
  slurp_ptr,     \* r->slurp: "null", "dummy" or "buffer"
  fill,          \* the pread_full under way
  req, done, out, err,   \* the call under way: what it has copied, what it answered
  calls, interrupts, shrunk

env == <<kind, dirty, size, mode, shrunk>>
cache == <<scratch, scratch_off, scratch_valid>>
image == <<slurp, slurp_ptr>>
call == <<req, done, out, err, calls>>
setup == <<step, backend, file_size>>
vars == <<env, cache, image, call, setup, pc, held, fill, interrupts>>

Byte(o) == o + 1
Zero == 0
Cached(o) == IF o \in dirty THEN 0 - Byte(o) ELSE Byte(o)

MinOf(a, b) == IF a < b THEN a ELSE b
align_down(o) == o - (o % Align)
round_up_pow2(v) == align_down(v + Align - 1)

NoFill == [into |-> "none", base |-> 0, len |-> 0, total |-> 0]
NoRead == [op |-> "none", offset |-> 0, len |-> 0]

Init ==
  /\ kind \in {"regular", "block"} /\ size \in SrcSizes /\ dirty \in Dirties
  /\ kind = "regular" => dirty = {}
  /\ mode \in {"auto", "mmap", "direct"}
  /\ pc = "opening" /\ step = "calloc" /\ held = {} /\ backend = "none" /\ file_size = 0
  /\ scratch = [i \in 0..(ScratchSize - 1) |-> Zero] /\ scratch_off = 0 /\ scratch_valid = 0
  /\ slurp = << >> /\ slurp_ptr = "null"
  /\ fill = NoFill /\ req = NoRead /\ done = 0 /\ out = << >> /\ err = "none"
  /\ calls = 0 /\ interrupts = 0 /\ shrunk = FALSE

(***************************************************************************)
(* fsd_source_reader_open, open_direct, open_mmap and fsd_mmap_open        *)
(***************************************************************************)
\* Mutant: a block device is mapped like any file.
resolved_mapped == IF mode = "auto" THEN "mmap" ELSE mode

resolved ==
  IF mode = "auto" THEN IF kind = "block" THEN "direct" ELSE "mmap" ELSE mode

\* The calls of opening in their order, "ready" behind the last.
FirstOf(m) == IF m = "direct" THEN "open" ELSE "mm_calloc"
After(s) ==
  CASE s = "calloc" -> IF mode = "auto" THEN "stat" ELSE FirstOf(resolved)
    [] s = "stat" -> FirstOf(resolved)
    [] s = "open" -> "fstat"
    [] s = "fstat" -> "query_size"
    [] s = "query_size" -> "memalign"
    [] s = "mm_calloc" -> "mm_open"
    [] s = "mm_open" -> "mm_fstat"
    [] s = "mm_fstat" -> "mm_size"
    [] s = "mm_size" -> "mmap"
    [] OTHER -> "ready"

Gains(s) ==
  CASE s = "calloc" -> {"reader"}
    [] s \in {"open", "mm_open"} -> {"fd"}
    [] s = "memalign" -> {"scratch"}
    [] s = "mm_calloc" -> {"mmap_reader"}
    [] s = "mmap" -> IF file_size > 0 THEN {"mapping"} ELSE {}
    [] OTHER -> {}

\* Mutant: no buffer, and the descriptor stays open.
Frees_no_close(s) ==
  {"reader"} \cup
  (IF s \in {"fstat", "query_size"} THEN {"fd"} ELSE {}) \cup
  (IF s = "mm_open" THEN {"mmap_reader"} ELSE {}) \cup
  (IF s \in {"mm_fstat", "mm_size", "mmap"} THEN {"fd", "mmap_reader"} ELSE {})

\* What the error path of a step frees; the last free is the caller's.
Frees(s) ==
  {"reader"} \cup
  (IF s \in {"fstat", "query_size", "memalign"} THEN {"fd"} ELSE {}) \cup
  (IF s = "mm_open" THEN {"mmap_reader"} ELSE {}) \cup
  (IF s \in {"mm_fstat", "mm_size", "mmap"} THEN {"fd", "mmap_reader"} ELSE {})

\* A device whose size neither the ioctl nor lseek tells is an empty one to
\* fsd_mmap_open; query_size fails instead.
sizes_seen(s) ==
  CASE s = "query_size" -> {size}
    [] s = "mm_size" -> IF kind = "block" THEN {size, 0} ELSE {size}
    [] OTHER -> {file_size}

OpenStep ==
  /\ pc = "opening"
  /\ held' = held \cup Gains(step) /\ file_size' \in sizes_seen(step)
  /\ step' = After(step)
  /\ IF step' = "ready" THEN backend' = resolved /\ pc' = "idle" ELSE UNCHANGED <<backend, pc>>
  /\ UNCHANGED <<env, cache, image, call, fill, interrupts>>

\* Mapping nothing cannot fail.
OpenFail ==
  /\ pc = "opening" /\ ~(step = "mmap" /\ file_size = 0)
  /\ held' = held \ Frees(step) /\ pc' = "failed"
  /\ UNCHANGED <<env, cache, image, call, setup, fill, interrupts>>

(***************************************************************************)
(* Calls                                                                   *)
(***************************************************************************)
in_range(offset, len) == offset <= file_size /\ len <= file_size - offset

Begin(op, offset, len) ==
  /\ pc = "idle" /\ calls < MaxCalls
  /\ calls' = calls + 1 /\ interrupts' = 0
  /\ req' = [op |-> op, offset |-> offset, len |-> len]

\* Reads of nothing and reads past the end are answered at once.
ReadRefused(offset, len) ==
  /\ Begin("read", offset, len) /\ (len = 0 \/ ~in_range(offset, len))
  /\ done' = 0 /\ out' = << >>
  /\ err' = IF len = 0 THEN "SUCCESS" ELSE "TRUNCATED"
  /\ UNCHANGED <<env, cache, image, setup, pc, held, fill>>

\* memcpy from the mapping.  Behind the end of a file that was cut the rest
\* of the page is zeros, and the next page kills the process.
ReadMapped(offset, len) ==
  LET mapped == ((size + PageSize - 1) \div PageSize) * PageSize
      killed == offset + len > mapped
  IN /\ Begin("read", offset, len) /\ len > 0 /\ in_range(offset, len) /\ backend = "mmap"
     /\ pc' = IF killed THEN "killed" ELSE "idle"
     /\ done' = IF killed THEN 0 ELSE len
     /\ out' = [i \in 0..(done' - 1) |->
                  IF offset + i < size THEN Cached(offset + i) ELSE Zero]
     /\ err' = IF killed THEN "none" ELSE "SUCCESS"
     /\ UNCHANGED <<env, cache, image, setup, held, fill>>

ReadDirect(offset, len) ==
  /\ Begin("read", offset, len) /\ len > 0 /\ in_range(offset, len) /\ backend = "direct"
  /\ pc' = "loop" /\ done' = 0 /\ out' = << >> /\ err' = "none"
  /\ UNCHANGED <<env, cache, image, setup, held, fill>>

\* fsd_source_reader_data that needs no read: the mapping, or a buffer that
\* is there; an empty image has a dummy byte for a buffer.  `out` is the
\* image as it is behind the pointer now.
DataAtHand ==
  /\ Begin("data", 0, file_size)
  /\ backend = "mmap" \/ slurp_ptr # "null" \/ file_size = 0
  /\ slurp_ptr' = IF backend = "direct" /\ slurp_ptr = "null" THEN "dummy" ELSE slurp_ptr
  /\ done' = IF backend = "mmap" THEN 0 ELSE file_size
  /\ out' = [i \in 0..(done' - 1) |-> slurp[i]]
  /\ err' = "SUCCESS"
  /\ UNCHANGED <<env, cache, slurp, setup, pc, held, fill>>

\* direct_materialize allocates, or cannot.
DataBegin ==
  LET n == round_up_pow2(file_size)
  IN /\ Begin("data", 0, file_size)
     /\ backend = "direct" /\ slurp_ptr = "null" /\ file_size > 0
     /\ done' = 0 /\ out' = << >>
     /\ \/ /\ pc' = "fill" /\ err' = "none" /\ held' = held \cup {"slurp"}
           /\ slurp' = [i \in 0..(n - 1) |-> Zero]
           /\ fill' = [into |-> "slurp", base |-> 0, len |-> n, total |-> 0]
        \/ pc' = "idle" /\ err' = "OUT_OF_MEMORY" /\ UNCHANGED <<held, slurp, fill>>
     /\ UNCHANGED <<env, cache, slurp_ptr, setup>>

(***************************************************************************)
(* direct_read_at                                                          *)
(***************************************************************************)
offset_now == req.offset + done
hit ==
  /\ scratch_valid > 0
  /\ offset_now >= scratch_off /\ offset_now < scratch_off + scratch_valid

Hit ==
  LET cached_off == offset_now - scratch_off
      copy == MinOf(req.len - done, scratch_valid - cached_off)
  IN /\ pc = "loop" /\ done < req.len /\ hit
     /\ out' = [i \in 0..(done + copy - 1) |->
                  IF i < done THEN out[i] ELSE scratch[cached_off + i - done]]
     /\ done' = done + copy
     /\ UNCHANGED <<env, cache, image, setup, req, err, calls, pc, held, fill, interrupts>>

ReadDone ==
  /\ pc = "loop" /\ done = req.len
  /\ pc' = "idle" /\ err' = "SUCCESS"
  /\ UNCHANGED <<env, cache, image, setup, req, done, out, calls, held, fill, interrupts>>

\* Mutant: the refill ends at the last whole alignment of the source.
refill_len_down(aligned_off) == MinOf(ScratchSize, align_down(file_size) - aligned_off)

refill_len(aligned_off) == MinOf(ScratchSize, round_up_pow2(file_size) - aligned_off)

Miss ==
  LET aligned_off == align_down(offset_now)
  IN /\ pc = "loop" /\ done < req.len /\ ~hit
     /\ scratch_valid' = 0
     /\ fill' = [into |-> "scratch", base |-> aligned_off, len |-> refill_len(aligned_off), total |-> 0]
     /\ pc' = "fill"
     /\ UNCHANGED <<env, scratch, scratch_off, image, setup, call, held, interrupts>>

(***************************************************************************)
(* pread_full, one pread per step, and what its callers do with its result *)
(***************************************************************************)
Into(buf, name, bytes) ==
  IF fill.into = name
  THEN [i \in DOMAIN buf |-> IF i \in DOMAIN bytes THEN bytes[i] ELSE buf[i]]
  ELSE buf

Write(bytes, total) ==
  /\ scratch' = Into(scratch, "scratch", bytes)
  /\ slurp' = Into(slurp, "slurp", bytes)
  /\ fill' = [fill EXCEPT !.total = total]

filling == pc = "fill" /\ fill.total < fill.len

\* pread gives n bytes, fewer than asked or all.
PreadSome ==
  \E n \in 1..(fill.len - fill.total) :
    /\ filling /\ fill.base + fill.total + n <= size
    /\ Write([i \in fill.total..(fill.total + n - 1) |-> Byte(fill.base + i)], fill.total + n)
    /\ UNCHANGED <<env, setup, call, scratch_off, scratch_valid, slurp_ptr, pc, held, interrupts>>

PreadInterrupted ==
  /\ filling /\ interrupts < MaxInterrupts
  /\ interrupts' = interrupts + 1
  /\ UNCHANGED <<env, cache, image, call, setup, pc, held, fill>>

\* Mutant: the end of the file is wherever pread meets it.
at_end_any == TRUE

at_end == fill.base + fill.total >= file_size

\* pread meets the end of the file: only zeros follow the end it had at open.
PreadZeros ==
  /\ filling /\ fill.base + fill.total >= size /\ at_end
  /\ Write([i \in fill.total..(fill.len - 1) |-> Zero], fill.len)
  /\ UNCHANGED <<env, setup, call, scratch_off, scratch_valid, slurp_ptr, pc, held, interrupts>>

\* pread fails, or meets an end that was not there at open.  The buffer of
\* the image is freed, the cache stays invalid.
PreadFails ==
  /\ filling /\ pc' = "idle" /\ err' = "IO" /\ fill' = NoFill
  /\ IF fill.into = "slurp" THEN held' = held \ {"slurp"} /\ slurp' = << >>
     ELSE UNCHANGED <<held, slurp>>
  /\ UNCHANGED <<env, cache, slurp_ptr, setup, req, done, out, calls, interrupts>>

\* The buffer is full: it becomes the cache, and the loop goes on.
Refilled ==
  /\ pc = "fill" /\ fill.total = fill.len /\ fill.into = "scratch"
  /\ pc' = "loop" /\ fill' = NoFill
  /\ scratch_off' = fill.base /\ scratch_valid' = fill.len
  /\ UNCHANGED <<env, scratch, image, setup, call, held, interrupts>>

\* The buffer is full: it is the image.
Materialized ==
  /\ pc = "fill" /\ fill.total = fill.len /\ fill.into = "slurp"
  /\ pc' = "idle" /\ fill' = NoFill /\ err' = "SUCCESS"
  /\ slurp_ptr' = "buffer" /\ done' = file_size
  /\ out' = [i \in 0..(file_size - 1) |-> slurp[i]]
  /\ UNCHANGED <<env, cache, slurp, setup, req, calls, held, interrupts>>

(***************************************************************************)
(* fsd_source_reader_close and fsd_mmap_close                              *)
(***************************************************************************)
Close ==
  /\ pc = "idle" /\ pc' = "closed"
  /\ held' = held \ ({"reader"}
       \cup (IF backend = "mmap" THEN {"mmap_reader", "fd"} ELSE {"fd", "scratch"})
       \cup (IF backend = "mmap" /\ file_size > 0 THEN {"mapping"} ELSE {})
       \cup (IF slurp_ptr # "null" /\ file_size > 0 THEN {"slurp"} ELSE {}))
  /\ UNCHANGED <<env, cache, image, call, setup, fill, interrupts>>

\* The source is cut short by somebody else.
Shrink ==
  /\ pc \in {"idle", "loop", "fill"} /\ \E s \in 0..(size - 1) : size' = s
  /\ shrunk' = TRUE
  /\ UNCHANGED <<kind, dirty, mode, cache, image, call, setup, pc, held, fill, interrupts>>

Step ==
  \/ OpenStep \/ OpenFail \/ Hit \/ ReadDone \/ Miss
  \/ PreadSome \/ PreadInterrupted \/ PreadZeros \/ PreadFails \/ Refilled \/ Materialized

Next ==
  \/ Step \/ DataAtHand \/ DataBegin \/ Close \/ Shrink
  \/ \E o \in Offsets, n \in Lengths : ReadRefused(o, n) \/ ReadMapped(o, n) \/ ReadDirect(o, n)

\* The thread inside a call keeps running, and every pread returns.
Fairness == WF_vars(Step)
Spec == Init /\ [][Next]_vars /\ Fairness

(***************************************************************************)
(* Properties                                                              *)
(***************************************************************************)
\* Every variable has its type.
TypeOK ==
  /\ pc \in {"opening", "idle", "loop", "fill", "failed", "closed", "killed"}
  /\ mode \in {"auto", "mmap", "direct"}
  /\ file_size \in Nat /\ size \in Nat /\ done \in Nat
  /\ backend \in {"none", "mmap", "direct"} /\ slurp_ptr \in {"null", "dummy", "buffer"}
  /\ scratch \in [0..(ScratchSize - 1) -> Int]
  /\ scratch_off \in Nat /\ scratch_valid \in 0..ScratchSize
  /\ fill \in [into : {"none", "scratch", "slurp"}, base : Nat, len : Nat, total : Nat]
  /\ req \in [op : {"none", "read", "data"}, offset : Nat, len : Nat]

answered == err = "SUCCESS" /\ pc \in {"idle", "closed"}

\* A direct read, and the image read at once, return the bytes of the source
\* and all of them, whatever short reads, interrupts, failed refills and
\* earlier calls did to the cache, and however short the source was cut
\* meanwhile: bytes that are gone are an error, never zeros.
DirectReadsExact ==
  answered /\ backend = "direct" =>
    /\ done = req.len
    /\ \A i \in 0..(done - 1) : req.offset + i < file_size /\ out[i] = Byte(req.offset + i)

\* In automatic mode the bytes are those on the disk, not what a mounted file
\* system left in the page cache.
AutoReadsDisk ==
  answered /\ mode = "auto" /\ req.op = "read" /\ ~shrunk =>
    done = req.len /\ \A i \in 0..(done - 1) : out[i] = Byte(req.offset + i)

\* What the cache claims to hold is what the source has there.
CacheCoherent ==
  \A i \in 0..(scratch_valid - 1) :
    scratch_off + i < file_size => scratch[i] = Byte(scratch_off + i)

\* A reader that could not be opened, or was closed, holds nothing: not the
\* descriptor, the mapping, the scratch buffer or a half-read image.
AllReleased == pc \in {"failed", "closed"} => held = {}

\* Every call returns: the loop of direct_read_at goes on only after it
\* copied or refilled, and a refill always covers the offset that missed.
CallsEnd == pc \in {"loop", "fill"} ~> pc = "idle"
=============================================================================
