----------------------------- MODULE MemoryPool -----------------------------
(***************************************************************************)
(* The arena that owns hash entries, file tables and deltas.  The list of  *)
(* chunks is the sequence that ->next links from pool->chunks, `current`   *)
(* the place of pool->current in it: giving the current chunk another      *)
(* ->next cuts off whatever was linked behind it.                          *)
(***************************************************************************)
EXTENDS Integers, Sequences

CONSTANTS
  Word,           \* what plain sizes are rounded up to: 8 in the code
  SIZE_MAX,
  HeapSize,       \* what malloc can hand out in all
  Bases,          \* addresses of chunks, modulo the largest alignment
  chunk_size,
  Limits,         \* values of max_memory, 0 for none
  Sizes,          \* sizes asked for
  Alignments,     \* alignments asked for, powers of two
  MaxResets

ASSUME PoolAssumption ==
  /\ Word \in Nat \ {0} /\ SIZE_MAX \in Nat /\ HeapSize \in 0..SIZE_MAX
  /\ Bases \subseteq Nat /\ \A b \in Bases : b % Word = 0
  /\ chunk_size \in Nat \ {0} /\ Limits \subseteq Nat /\ Sizes \subseteq 0..SIZE_MAX
  /\ Alignments \subseteq Nat \ {0} /\ MaxResets \in Nat
  /\ \A a \in Alignments : a % Word = 0 \/ Word % a = 0     \* powers of two

VARIABLES
  list,             \* the linked chunks
  current,
  total_allocated,
  max_memory,
  state,            \* "none", "open" or "destroyed"
  live,             \* what callers hold since the last reset
  heap,             \* chunks malloc gave and nobody freed
  made,             \* history: chunks created
  resets,           \* history: resets
  odd               \* history: since the last reset an aligned request did
                    \* not ask for whole words

vars == <<list, current, total_allocated, max_memory, state, live, heap, made, resets, odd>>

Chunk == [id : Nat, base : Bases, size : Nat, used : Nat]
Grant == [chunk : Nat, lo : Nat, hi : Nat, align : Nat, plain : BOOLEAN]

Init ==
  /\ list = << >> /\ current = 0 /\ total_allocated = 0 /\ max_memory \in Limits
  /\ state = "none" /\ live = {} /\ heap = {} /\ made = 0 /\ resets = 0 /\ odd = FALSE

(***************************************************************************)
(* create_chunk                                                            *)
(***************************************************************************)
\* Mutant: the limit is compared without what is asked for.
within_max_before(size) == max_memory = 0 \/ total_allocated <= max_memory

\* The sum has the width of size_t.
within_max(size) ==
  max_memory = 0 \/ (total_allocated + size) % (SIZE_MAX + 1) <= max_memory

malloc_can(size) == total_allocated + size <= HeapSize

\* Mutant: the new chunk becomes the head and links nothing.
create_chunk_head(n, base, size, used) ==
  /\ within_max(size) /\ malloc_can(size)
  /\ list' = <<[id |-> made + 1, base |-> base, size |-> size, used |-> used]>>
  /\ current' = 1
  /\ total_allocated' = total_allocated + size
  /\ made' = made + 1 /\ heap' = heap \cup {made + 1}

\* A new chunk with the first `used` bytes taken goes behind the first n.
create_chunk(n, base, size, used) ==
  /\ within_max(size) /\ malloc_can(size)
  /\ list' = Append(SubSeq(list, 1, n), [id |-> made + 1, base |-> base, size |-> size, used |-> used])
  /\ current' = n + 1
  /\ total_allocated' = total_allocated + size
  /\ made' = made + 1 /\ heap' = heap \cup {made + 1}

\* fsd_pool_create; when it fails it frees what it has.
Create ==
  /\ state = "none" /\ state' = "open"
  /\ \E base \in Bases : create_chunk(0, base, chunk_size, 0)
  /\ UNCHANGED <<max_memory, live, resets, odd>>

(***************************************************************************)
(* Allocation                                                              *)
(***************************************************************************)
cur == list[current]
free_space == cur.size - cur.used
MaxOf(a, b) == IF a > b THEN a ELSE b

round_up(size) == ((size + Word - 1) \div Word) * Word
can_round(size) == size > 0 /\ size <= SIZE_MAX - (Word - 1)

\* Bytes from addr to the next multiple of the alignment.
padding(addr, alignment) == (alignment - (addr % alignment)) % alignment

Take(c, lo, size, alignment, plain) ==
  live' = live \cup
    {[chunk |-> c, lo |-> lo, hi |-> lo + size, align |-> alignment, plain |-> plain]}

InCurrent(pad, size, alignment, plain) ==
  /\ list' = [list EXCEPT ![current].used = @ + pad + size]
  /\ Take(current, cur.used + pad, size, alignment, plain)
  /\ UNCHANGED <<current, total_allocated, max_memory, state, heap, made, resets>>

InNewChunk(base, csize, pad, size, alignment, plain) ==
  /\ create_chunk(current, base, csize, pad + size)
  /\ Take(current + 1, pad, size, alignment, plain)
  /\ UNCHANGED <<max_memory, state, resets>>

\* Mutant: the size is not rounded.
AllocFits_odd(asked) ==
  /\ state = "open" /\ can_round(asked) /\ asked <= free_space
  /\ InCurrent(0, asked, Word, TRUE)
  /\ UNCHANGED odd

AllocFits(asked) ==
  LET size == round_up(asked)
  IN /\ state = "open" /\ can_round(asked) /\ size <= free_space
     /\ InCurrent(0, size, Word, TRUE)
     /\ UNCHANGED odd

AllocGrows(asked) ==
  LET size == round_up(asked)
  IN /\ state = "open" /\ can_round(asked) /\ size > free_space
     /\ \E base \in Bases : InNewChunk(base, MaxOf(size, chunk_size), 0, size, Word, TRUE)
     /\ UNCHANGED odd

\* Mutant: the padding is given away but not taken from the chunk.
AlignedFits_unpadded(size, alignment) ==
  LET pad == padding(cur.base + cur.used, alignment)
  IN /\ state = "open" /\ size > 0 /\ pad <= free_space /\ size <= free_space - pad
     /\ list' = [list EXCEPT ![current].used = @ + size]
     /\ Take(current, cur.used + pad, size, alignment, FALSE)
     /\ odd' = (odd \/ size % Word # 0)
     /\ UNCHANGED <<current, total_allocated, max_memory, state, heap, made, resets>>

AlignedFits(size, alignment) ==
  LET pad == padding(cur.base + cur.used, alignment)
  IN /\ state = "open" /\ size > 0 /\ pad <= free_space /\ size <= free_space - pad
     /\ InCurrent(pad, size, alignment, FALSE)
     /\ odd' = (odd \/ size % Word # 0)

\* The new chunk has room for any padding.
AlignedGrows(size, alignment) ==
  LET old == padding(cur.base + cur.used, alignment)
  IN /\ state = "open" /\ size > 0 /\ ~(old <= free_space /\ size <= free_space - old)
     /\ size <= SIZE_MAX - (alignment - 1)
     /\ \E base \in Bases :
          InNewChunk(base, MaxOf(size + alignment - 1, chunk_size), padding(base, alignment),
                     size, alignment, FALSE)
     /\ odd' = (odd \/ size % Word # 0)

(***************************************************************************)
(* Reset and destroy                                                       *)
(***************************************************************************)
\* What callers held is theirs no longer.  The bound on resets is the model's.
Reset ==
  /\ state = "open" /\ resets < MaxResets
  /\ list' = [k \in DOMAIN list |-> [list[k] EXCEPT !.used = 0]]
  /\ current' = 1 /\ live' = {} /\ resets' = resets + 1 /\ odd' = FALSE
  /\ UNCHANGED <<total_allocated, max_memory, state, heap, made>>

\* The chunks that are linked are freed, and the pool.
Destroy ==
  /\ state = "open" /\ state' = "destroyed"
  /\ heap' = heap \ {list[k].id : k \in DOMAIN list}
  /\ list' = << >> /\ current' = 0 /\ live' = {}
  /\ UNCHANGED <<total_allocated, max_memory, made, resets, odd>>

Next ==
  \/ Create
  \/ \E n \in Sizes : AllocFits(n) \/ AllocGrows(n)
  \/ \E n \in Sizes, a \in Alignments : AlignedFits(n, a) \/ AlignedGrows(n, a)
  \/ Reset \/ Destroy

Spec == Init /\ [][Next]_vars

(***************************************************************************)
(* Properties                                                              *)
(***************************************************************************)
\* Every variable has its type.
TypeOK ==
  /\ list \in Seq(Chunk) /\ current \in Nat /\ total_allocated \in Nat /\ max_memory \in Nat
  /\ state \in {"none", "open", "destroyed"} /\ live \subseteq Grant
  /\ heap \subseteq 1..made /\ made \in Nat /\ resets \in Nat /\ odd \in BOOLEAN

\* What two callers hold never overlaps, and lies inside a chunk that is
\* still linked, however plain and aligned requests, new chunks and resets
\* follow each other.
GrantsDisjoint ==
  /\ \A g \in live : g.chunk \in DOMAIN list /\ g.hi <= list[g.chunk].size
  /\ \A g, h \in live : g # h /\ g.chunk = h.chunk => g.hi <= h.lo \/ h.hi <= g.lo

\* An aligned request gets its alignment.  A plain one gets whole words: the
\* comment of fsd_pool_alloc derives it from its own rounding, and it holds
\* as long as the aligned requests in between ask for whole words too.
PointersAligned ==
  \A g \in live : ~g.plain \/ ~odd => (list[g.chunk].base + g.lo) % g.align = 0

\* The chunks never take more than max_memory, although the sum that is
\* compared with it may wrap.
WithinLimit == max_memory # 0 => total_allocated <= max_memory

\* A pool that was never reset gives everything back when it is destroyed.
UnresetFreesAll == state = "destroyed" /\ resets = 0 => heap = {}
=============================================================================
