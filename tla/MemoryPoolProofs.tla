-------------------------- MODULE MemoryPoolProofs --------------------------
(***************************************************************************)
(* The pool never hands out the same bytes twice, keeps to its limit and,  *)
(* unless it was reset, frees all it took, for every word size, chunk size *)
(* and limit.                                                              *)
(***************************************************************************)
EXTENDS MemoryPool, TLAPS

\* The chunks in use: callers hold only what lies below `used`, in chunks up
\* to the current one, so that cutting the list there takes nothing away.
ChunksOK ==
  /\ state = "open" => current \in DOMAIN list
  /\ state # "open" => list = << >> /\ live = {} /\ current = 0
  /\ \A k \in DOMAIN list : list[k].used <= list[k].size
  /\ \A g \in live : /\ g.chunk \in 1..current
                     /\ g.lo < g.hi
                     /\ g.hi <= list[g.chunk].used

\* Without a reset the current chunk is the last and every chunk is linked.
LinkedOK ==
  /\ resets = 0 => /\ state = "open" => current = Len(list)
                   /\ heap = {list[k].id : k \in DOMAIN list}
  /\ state = "none" => made = 0 /\ total_allocated = 0

\* The limit, and the memory there is.
LimitOK == total_allocated <= HeapSize /\ WithinLimit

Disjoint == \A g, h \in live : g # h /\ g.chunk = h.chunk => g.hi <= h.lo \/ h.hi <= g.lo

IInv == TypeOK /\ ChunksOK /\ LinkedOK /\ LimitOK /\ Disjoint

(***************************************************************************)
(* Arithmetic and lists                                                    *)
(***************************************************************************)
\* The types of the constants.
LEMMA Constants ==
  /\ Word \in Nat \ {0} /\ chunk_size \in Nat \ {0} /\ Bases \subseteq Nat
  /\ Sizes \subseteq Nat /\ Alignments \subseteq Nat \ {0} /\ Limits \subseteq Nat
  /\ HeapSize \in Nat /\ SIZE_MAX \in Nat
BY PoolAssumption

\* Rounding up a size gives a positive number of bytes.
LEMMA RoundUp ==
  ASSUME NEW n \in Nat, n > 0
  PROVE  round_up(n) \in Nat /\ round_up(n) > 0
BY PoolAssumption DEF round_up

\* Padding is a natural number below the alignment.
LEMMA PaddingRange ==
  ASSUME NEW x \in Nat, NEW a \in Nat \ {0}
  PROVE  padding(x, a) \in Nat /\ padding(x, a) < a
BY DEF padding

\* A new chunk goes behind the first n and leaves those as they are.
LEMMA GrowList ==
  ASSUME NEW l \in Seq(Chunk), NEW n \in 0..Len(l), NEW c \in Chunk
  PROVE  LET m == Append(SubSeq(l, 1, n), c)
         IN /\ m \in Seq(Chunk) /\ Len(m) = n + 1
            /\ \A k \in 1..n : m[k] = l[k]
            /\ m[n + 1] = c
<1>1. /\ SubSeq(l, 1, n) \in Seq(Chunk) /\ Len(SubSeq(l, 1, n)) = n
      /\ \A k \in 1..n : SubSeq(l, 1, n)[k] = l[k]
  OBVIOUS
<1> QED
  BY <1>1

\* The sum that is compared with the limit cannot wrap once malloc has the
\* memory, so the limit holds after every new chunk.
LEMMA LimitKept ==
  ASSUME TypeOK, LimitOK, NEW size \in Nat, within_max(size), malloc_can(size)
  PROVE  /\ total_allocated + size <= HeapSize
         /\ max_memory # 0 => total_allocated + size <= max_memory
<1>1. (total_allocated + size) % (SIZE_MAX + 1) = total_allocated + size
  BY PoolAssumption DEF TypeOK, malloc_can
<1> QED
  BY <1>1 DEF within_max, malloc_can

(***************************************************************************)
(* What the steps keep                                                     *)
(***************************************************************************)
\* Taking the next bytes of the current chunk.
LEMMA InCurrentKeeps ==
  ASSUME IInv, state = "open", NEW pad \in Nat, NEW size \in Nat, size > 0,
         pad + size <= free_space, NEW alignment \in Nat, NEW plain \in BOOLEAN,
         InCurrent(pad, size, alignment, plain), odd' \in BOOLEAN
  PROVE  IInv'
<1> DEFINE c == list[current]
           g == [chunk |-> current, lo |-> c.used + pad, hi |-> c.used + pad + size,
                 align |-> alignment, plain |-> plain]
<1>1. /\ list \in Seq(Chunk) /\ current \in DOMAIN list /\ current \in Nat
      /\ total_allocated \in Nat /\ live \subseteq Grant
  BY DEF IInv, TypeOK, ChunksOK
<1>2. c \in Chunk /\ c.size \in Nat /\ c.used \in Nat /\ c.used + pad + size <= c.size
  <2>1. c \in Chunk
    BY <1>1
  <2>2. c.size \in Nat /\ c.used \in Nat
    BY <2>1 DEF Chunk
  <2>3. pad + size <= c.size - c.used
    BY DEF free_space, cur
  <2> HIDE DEF c
  <2> QED
    BY <2>1, <2>2, <2>3
<1>3. /\ list' = [list EXCEPT ![current].used = @ + pad + size]
      /\ live' = live \cup {g}
      /\ UNCHANGED <<current, total_allocated, max_memory, state, heap, made, resets>>
  BY DEF InCurrent, Take, cur
<1>5. /\ list' \in Seq(Chunk) /\ Len(list') = Len(list)
      /\ list'[current].used = c.used + pad + size
      /\ list'[current].size = c.size /\ list'[current].id = c.id
      /\ \A k \in DOMAIN list : k # current => list'[k] = list[k]
  <2> DEFINE d == [c EXCEPT !.used = c.used + pad + size]
  <2>1. d \in Chunk /\ d.used = c.used + pad + size /\ d.size = c.size /\ d.id = c.id
    BY <1>2 DEF Chunk
  <2> HIDE DEF d
  <2>2. list' = [list EXCEPT ![current] = d]
    BY <1>3 DEF d
  <2>3. /\ list' \in Seq(Chunk) /\ Len(list') = Len(list) /\ list'[current] = d
        /\ \A k \in DOMAIN list : k # current => list'[k] = list[k]
    BY <1>1, <2>1, <2>2
  <2> QED
    BY <2>1, <2>3
<1>6. DOMAIN list' = DOMAIN list
  BY <1>1, <1>5
<1>7. /\ g \in Grant /\ g.chunk = current /\ g.lo = c.used + pad
      /\ g.hi = c.used + pad + size
  BY <1>1, <1>2, SMTT(30) DEF Grant
<1> HIDE DEF g
<1>8. \A h \in live : /\ h.chunk \in 1..current /\ h.lo \in Nat /\ h.hi \in Nat
                      /\ h.lo < h.hi /\ h.hi <= list[h.chunk].used
                      /\ h.chunk \in DOMAIN list
  BY <1>1 DEF IInv, ChunksOK, Grant
<1>9. TypeOK'
  BY <1>1, <1>3, <1>5, <1>7 DEF IInv, TypeOK
<1>10. ChunksOK'
  <2>1. \A k \in DOMAIN list' : list'[k].used <= list'[k].size
    BY <1>2, <1>5, <1>6 DEF IInv, ChunksOK
  <2>2. \A h \in live : h.hi <= list'[h.chunk].used
    <3> TAKE h \in live
    <3>1. CASE h.chunk = current
      <4>1. h.hi \in Nat /\ h.hi <= c.used
        BY <1>8, <3>1
      <4>2. list'[h.chunk].used = c.used + pad + size
        BY <1>5, <3>1
      <4> QED
        BY <1>2, <4>1, <4>2
    <3>2. CASE h.chunk # current
      BY <1>5, <1>8, <3>2
    <3> QED
      BY <3>1, <3>2
  <2>3. g.chunk \in 1..current /\ g.lo < g.hi /\ g.hi <= list'[g.chunk].used
    BY <1>1, <1>2, <1>5, <1>7
  <2> QED
    BY <1>1, <1>3, <1>6, <1>8, <2>1, <2>2, <2>3 DEF ChunksOK
<1>11. LinkedOK'
  <2>1. \A k \in DOMAIN list : list'[k].id = list[k].id
    BY <1>5
  <2> QED
    BY <1>3, <1>5, <1>6, <2>1 DEF IInv, LinkedOK
<1>12. LimitOK'
  BY <1>3 DEF IInv, LimitOK, WithinLimit
<1>13. Disjoint'
  <2>1. \A h \in live : h.chunk = current => h.hi <= g.lo
    BY <1>2, <1>7, <1>8
  <2> QED
    BY <1>3, <1>7, <2>1 DEF IInv, Disjoint
<1> QED
  BY <1>9, <1>10, <1>11, <1>12, <1>13 DEF IInv

\* Taking the first bytes of a new chunk.
LEMMA InNewChunkKeeps ==
  ASSUME IInv, state = "open", NEW base \in Bases, NEW csize \in Nat, NEW pad \in Nat,
         NEW size \in Nat, size > 0, pad + size <= csize,
         NEW alignment \in Nat, NEW plain \in BOOLEAN,
         InNewChunk(base, csize, pad, size, alignment, plain), odd' \in BOOLEAN
  PROVE  IInv'
<1> DEFINE c == [id |-> made + 1, base |-> base, size |-> csize, used |-> pad + size]
           g == [chunk |-> current + 1, lo |-> pad, hi |-> pad + size,
                 align |-> alignment, plain |-> plain]
<1>1. /\ list \in Seq(Chunk) /\ current \in DOMAIN list /\ current \in Nat /\ made \in Nat
      /\ total_allocated \in Nat /\ live \subseteq Grant /\ heap \subseteq 1..made
      /\ current \in 0..Len(list)
  BY DEF IInv, TypeOK, ChunksOK
<1>2. c \in Chunk /\ c.id = made + 1 /\ c.size = csize /\ c.used = pad + size
  BY <1>1 DEF Chunk
<1>3. /\ list' = Append(SubSeq(list, 1, current), c)
      /\ current' = current + 1 /\ total_allocated' = total_allocated + csize
      /\ made' = made + 1 /\ heap' = heap \cup {made + 1}
      /\ live' = live \cup {g}
      /\ UNCHANGED <<max_memory, state, resets>>
      /\ within_max(csize) /\ malloc_can(csize)
  BY DEF InNewChunk, create_chunk, Take
<1> HIDE DEF c
<1>4. /\ list' \in Seq(Chunk) /\ Len(list') = current + 1
      /\ \A k \in 1..current : list'[k] = list[k]
      /\ list'[current + 1] = c
  BY <1>1, <1>2, <1>3, GrowList, SMTT(30)
<1>5. DOMAIN list' = 1..(current + 1) /\ DOMAIN list = 1..Len(list)
  BY <1>1, <1>4
<1>6. g \in Grant /\ g.chunk = current + 1 /\ g.lo = pad /\ g.hi = pad + size
  BY <1>1 DEF Grant
<1> HIDE DEF g
<1>7. \A h \in live : /\ h.chunk \in 1..current /\ h.lo \in Nat /\ h.hi \in Nat
                      /\ h.lo < h.hi /\ h.hi <= list[h.chunk].used
  BY <1>1 DEF IInv, ChunksOK, Grant
<1>8. TypeOK'
  BY <1>1, <1>3, <1>4, <1>6 DEF IInv, TypeOK
<1>9. ChunksOK'
  <2>1. \A k \in DOMAIN list' : list'[k].used <= list'[k].size
    BY <1>1, <1>2, <1>4, <1>5, SMTT(60) DEF IInv, ChunksOK
  <2>2. \A h \in live : h.chunk \in 1..(current + 1) /\ h.hi <= list'[h.chunk].used
    BY <1>1, <1>4, <1>7
  <2>3. g.chunk \in 1..(current + 1) /\ g.lo < g.hi /\ g.hi <= list'[g.chunk].used
    BY <1>1, <1>2, <1>4, <1>6
  <2> QED
    <3>1. state' = "open" /\ current' \in DOMAIN list'
      BY <1>1, <1>3, <1>5
    <3>2. \A h \in live' : /\ h.chunk \in 1..current' /\ h.lo < h.hi
                           /\ h.hi <= list'[h.chunk].used
      BY <1>3, <1>7, <2>2, <2>3, Zenon
    <3> QED
      BY <2>1, <3>1, <3>2 DEF ChunksOK
<1>10. LinkedOK'
  <2>1. resets = 0 => {list'[k].id : k \in DOMAIN list'} = heap \cup {made + 1}
    <3> SUFFICES ASSUME resets = 0
                 PROVE  {list'[k].id : k \in DOMAIN list'} = heap \cup {made + 1}
      OBVIOUS
    <3>1. current = Len(list) /\ heap = {list[k].id : k \in DOMAIN list}
      BY DEF IInv, LinkedOK
    <3>2. DOMAIN list' = DOMAIN list \cup {current + 1}
      BY <1>1, <1>5, <3>1
    <3>3. \A k \in DOMAIN list : list'[k].id = list[k].id
      BY <1>4, <1>5, <3>1
    <3>4. list'[current + 1].id = made + 1
      BY <1>2, <1>4
    <3> QED
      BY <3>1, <3>2, <3>3, <3>4, ZenonT(30)
  <2> QED
    BY <1>3, <1>4, <2>1 DEF LinkedOK
<1>11. LimitOK'
  BY <1>3, LimitKept DEF IInv, LimitOK, WithinLimit
<1>12. Disjoint'
  <2>1. \A h \in live : h.chunk # current + 1
    BY <1>1, <1>7
  <2> QED
    BY <1>3, <1>6, <2>1 DEF IInv, Disjoint
<1> QED
  BY <1>8, <1>9, <1>10, <1>11, <1>12 DEF IInv

\* The first chunk.
LEMMA CreateKeeps == IInv /\ Create => IInv'
<1> SUFFICES ASSUME IInv, Create PROVE IInv'
  OBVIOUS
<1>1. PICK base \in Bases : create_chunk(0, base, chunk_size, 0)
  BY DEF Create
<1> DEFINE c == [id |-> made + 1, base |-> base, size |-> chunk_size, used |-> 0]
<1>2. /\ state = "none" /\ list = << >> /\ live = {} /\ made = 0 /\ total_allocated = 0
      /\ (resets = 0 => heap = {})
  BY DEF Create, IInv, ChunksOK, LinkedOK
<1>3. /\ list' = Append(SubSeq(list, 1, 0), c) /\ current' = 1
      /\ total_allocated' = chunk_size /\ made' = 1 /\ heap' = heap \cup {1}
      /\ state' = "open" /\ UNCHANGED <<max_memory, live, resets, odd>>
      /\ within_max(chunk_size) /\ malloc_can(chunk_size)
  BY <1>1, <1>2, PoolAssumption DEF create_chunk, Create
<1>4. c \in Chunk /\ c.id = 1 /\ c.size = chunk_size /\ c.used = 0
  BY <1>2, PoolAssumption DEF Chunk
<1> HIDE DEF c
<1>5. list' \in Seq(Chunk) /\ Len(list') = 1 /\ list'[1] = c
  <2>1. list \in Seq(Chunk) /\ 0 \in 0..Len(list)
    BY <1>2
  <2>2. /\ list' \in Seq(Chunk) /\ Len(list') = 0 + 1 /\ list'[0 + 1] = c
    BY <1>3, <1>4, <2>1, GrowList
  <2> QED
    BY <2>2
<1>6. DOMAIN list' = {1}
  BY <1>5
<1>7. TypeOK'
  BY <1>2, <1>3, <1>5, PoolAssumption DEF IInv, TypeOK
<1>8. ChunksOK'
  BY <1>2, <1>3, <1>4, <1>5, <1>6, PoolAssumption DEF ChunksOK
<1>9. LinkedOK'
  BY <1>2, <1>3, <1>4, <1>5, <1>6 DEF LinkedOK
<1>10. LimitOK'
  <2>1. chunk_size \in Nat /\ TypeOK /\ LimitOK
    BY PoolAssumption DEF IInv
  <2> QED
    BY <1>2, <1>3, <2>1, LimitKept DEF LimitOK, WithinLimit
<1>11. Disjoint'
  BY <1>2, <1>3 DEF Disjoint
<1> QED
  BY <1>7, <1>8, <1>9, <1>10, <1>11 DEF IInv

\* A reset empties every chunk and takes back what callers held.
LEMMA ResetKeeps == IInv /\ Reset => IInv'
<1> SUFFICES ASSUME IInv, Reset PROVE IInv'
  OBVIOUS
<1>1. list \in Seq(Chunk) /\ resets \in Nat /\ current \in DOMAIN list
  BY DEF IInv, TypeOK, ChunksOK, Reset
<1>2. /\ list' = [k \in DOMAIN list |-> [list[k] EXCEPT !.used = 0]]
      /\ current' = 1 /\ live' = {} /\ resets' = resets + 1 /\ odd' = FALSE
      /\ state = "open"
      /\ UNCHANGED <<total_allocated, max_memory, state, heap, made>>
  BY DEF Reset
<1>3. \A k \in DOMAIN list : list[k] \in Chunk
  BY <1>1
<1>4. \A k \in DOMAIN list : /\ list'[k] \in Chunk /\ list'[k].used = 0
                             /\ list'[k].size \in Nat
  BY <1>2, <1>3 DEF Chunk
<1>5. list' \in Seq(Chunk) /\ DOMAIN list' = DOMAIN list
  BY <1>1, <1>2, <1>4
<1>6. 1 \in DOMAIN list'
  BY <1>1, <1>5
<1>7. TypeOK'
  <2>1. odd' \in BOOLEAN
    BY <1>2, Zenon
  <2> QED
    BY <1>1, <1>2, <1>5, <2>1 DEF IInv, TypeOK
<1>8. ChunksOK'
  BY <1>2, <1>4, <1>5, <1>6 DEF ChunksOK
<1>9. LinkedOK' /\ LimitOK' /\ Disjoint'
  BY <1>1, <1>2 DEF IInv, LinkedOK, LimitOK, WithinLimit, Disjoint
<1> QED
  BY <1>7, <1>8, <1>9 DEF IInv

\* Destroying the pool frees the chunks that are linked.
LEMMA DestroyKeeps == IInv /\ Destroy => IInv'
<1> SUFFICES ASSUME IInv, Destroy PROVE IInv'
  OBVIOUS
<1>1. /\ heap' = heap \ {list[k].id : k \in DOMAIN list}
      /\ list' = << >> /\ current' = 0 /\ live' = {} /\ state' = "destroyed"
      /\ UNCHANGED <<total_allocated, max_memory, made, resets, odd>>
  BY DEF Destroy
<1>2. TypeOK'
  <2>1. odd' \in BOOLEAN
    BY <1>1, Zenon DEF IInv, TypeOK
  <2>2. list' \in Seq(Chunk)
    BY <1>1
  <2> QED
    BY <1>1, <2>1, <2>2 DEF IInv, TypeOK
<1>3. LinkedOK'
  <2>1. resets = 0 => heap' = {}
    BY <1>1 DEF IInv, LinkedOK
  <2>2. {list'[k].id : k \in DOMAIN list'} = {}
    BY <1>1
  <2> QED
    BY <1>1, <2>1, <2>2 DEF LinkedOK
<1>4. ChunksOK' /\ LimitOK' /\ Disjoint'
  BY <1>1 DEF IInv, ChunksOK, LimitOK, WithinLimit, Disjoint
<1> QED
  BY <1>2, <1>3, <1>4 DEF IInv

\* Every step keeps the invariant.
LEMMA StepKeeps == IInv /\ [Next]_vars => IInv'
<1> SUFFICES ASSUME IInv, [Next]_vars PROVE IInv'
  OBVIOUS
<1> USE Constants
<1>1. CASE UNCHANGED vars
  BY <1>1 DEF vars, IInv, TypeOK, ChunksOK, LinkedOK, LimitOK, WithinLimit, Disjoint
<1>2. odd \in BOOLEAN
  BY DEF IInv, TypeOK
<1>3. ASSUME NEW n \in Sizes, AllocFits(n) \/ AllocGrows(n)
      PROVE  IInv'
  <2>1. n \in Nat /\ n > 0 /\ state = "open" /\ odd' \in BOOLEAN
    <3>1. n > 0 /\ state = "open" /\ odd' = odd
      BY <1>3, Zenon DEF AllocFits, AllocGrows, can_round
    <3>2. odd' \in BOOLEAN
      BY <1>2, <3>1, Zenon
    <3> QED
      BY <3>1, <3>2
  <2>2. round_up(n) \in Nat /\ round_up(n) > 0
    BY <2>1, RoundUp
  <2>3. CASE AllocFits(n)
    <3>1. InCurrent(0, round_up(n), Word, TRUE) /\ round_up(n) <= free_space
      BY <2>3, Zenon DEF AllocFits
    <3>2. 0 + round_up(n) <= free_space
      BY <2>2, <3>1
    <3> QED
      BY <2>1, <2>2, <3>1, <3>2, InCurrentKeeps
  <2>4. CASE AllocGrows(n)
    <3>1. PICK base \in Bases :
            InNewChunk(base, MaxOf(round_up(n), chunk_size), 0, round_up(n), Word, TRUE)
      BY <2>4 DEF AllocGrows
    <3>2. /\ MaxOf(round_up(n), chunk_size) \in Nat
          /\ 0 + round_up(n) <= MaxOf(round_up(n), chunk_size)
      BY <2>2 DEF MaxOf
    <3> QED
      BY <2>1, <2>2, <3>1, <3>2, InNewChunkKeeps
  <2> QED
    BY <1>3, <2>3, <2>4
<1>4. ASSUME NEW n \in Sizes, NEW a \in Alignments, AlignedFits(n, a) \/ AlignedGrows(n, a)
      PROVE  IInv'
  <2>1. n \in Nat /\ n > 0 /\ a \in Nat \ {0} /\ state = "open" /\ odd' \in BOOLEAN
    <3>1. n > 0 /\ state = "open" /\ odd' = (odd \/ n % Word # 0)
      BY <1>4, Zenon DEF AlignedFits, AlignedGrows
    <3>2. odd' \in BOOLEAN
      BY <3>1, Zenon
    <3> QED
      BY <3>1, <3>2
  <2>2. CASE AlignedFits(n, a)
    <3> DEFINE pad == padding(cur.base + cur.used, a)
    <3>1. cur \in Chunk
      BY <2>1 DEF IInv, TypeOK, ChunksOK, cur
    <3>2. cur.base + cur.used \in Nat /\ free_space \in Int
      <4>1. cur.base \in Nat /\ cur.used \in Nat /\ cur.size \in Nat
        BY <3>1 DEF Chunk
      <4> QED
        BY <4>1 DEF free_space
    <3>3. pad \in Nat
      BY <2>1, <3>2, PaddingRange
    <3>4. InCurrent(pad, n, a, FALSE) /\ n <= free_space - pad
      BY <2>2 DEF AlignedFits
    <3> HIDE DEF pad
    <3>5. pad + n <= free_space
      BY <2>1, <3>2, <3>3, <3>4
    <3> QED
      BY <2>1, <3>3, <3>4, <3>5, InCurrentKeeps
  <2>3. CASE AlignedGrows(n, a)
    <3>1. PICK base \in Bases :
            InNewChunk(base, MaxOf(n + a - 1, chunk_size), padding(base, a), n, a, FALSE)
      BY <2>3 DEF AlignedGrows
    <3>2. base \in Nat /\ padding(base, a) \in Nat /\ padding(base, a) < a
      BY <2>1, PaddingRange
    <3>3. /\ MaxOf(n + a - 1, chunk_size) \in Nat
          /\ padding(base, a) + n <= MaxOf(n + a - 1, chunk_size)
      BY <2>1, <3>2 DEF MaxOf
    <3> QED
      BY <2>1, <3>1, <3>2, <3>3, InNewChunkKeeps
  <2> QED
    BY <1>4, <2>2, <2>3
<1> QED
  BY <1>1, <1>3, <1>4, CreateKeeps, ResetKeeps, DestroyKeeps DEF Next

\* The invariant holds in every reachable state of the pool.
THEOREM InvariantHolds == Spec => []IInv
<1>1. Init => IInv
  <2> SUFFICES ASSUME Init PROVE IInv
    OBVIOUS
  <2>1. list = << >> /\ list \in Seq(Chunk) /\ DOMAIN list = {}
    BY DEF Init
  <2>2. TypeOK
    BY <2>1, PoolAssumption DEF Init, TypeOK
  <2>3. ChunksOK /\ LinkedOK /\ LimitOK /\ Disjoint
    BY <2>1, PoolAssumption
       DEF Init, ChunksOK, LinkedOK, LimitOK, WithinLimit, Disjoint
  <2> QED
    BY <2>2, <2>3 DEF IInv
<1> QED
  BY <1>1, StepKeeps, PTL DEF Spec

\* What two callers hold never overlaps, and lies inside a linked chunk.
THEOREM NothingGivenTwice == Spec => []GrantsDisjoint
<1>1. IInv => GrantsDisjoint
  <2> SUFFICES ASSUME IInv, NEW g \in live
               PROVE  g.chunk \in DOMAIN list /\ g.hi <= list[g.chunk].size
    BY DEF GrantsDisjoint, IInv, Disjoint
  <2>1. state = "open" /\ list \in Seq(Chunk) /\ current \in DOMAIN list
    BY DEF IInv, TypeOK, ChunksOK
  <2>2. g.chunk \in DOMAIN list /\ g.hi \in Nat /\ g.hi <= list[g.chunk].used
    BY <2>1 DEF IInv, TypeOK, ChunksOK, Grant
  <2>3. list[g.chunk] \in Chunk
    BY <2>1, <2>2
  <2>4. /\ list[g.chunk].used \in Nat /\ list[g.chunk].size \in Nat
        /\ list[g.chunk].used <= list[g.chunk].size
    BY <2>2, <2>3 DEF IInv, ChunksOK, Chunk
  <2> QED
    BY <2>2, <2>4
<1> QED
  BY <1>1, InvariantHolds, PTL

\* The chunks never take more than max_memory.
THEOREM LimitHolds == Spec => []WithinLimit
<1>1. IInv => WithinLimit
  BY DEF IInv, LimitOK
<1> QED
  BY <1>1, InvariantHolds, PTL

\* A pool that was never reset frees everything.
THEOREM DestroyFrees == Spec => []UnresetFreesAll
<1>1. IInv => UnresetFreesAll
  BY DEF IInv, ChunksOK, LinkedOK, UnresetFreesAll
<1> QED
  BY <1>1, InvariantHolds, PTL

(***************************************************************************)
(* Alignment                                                               *)
(***************************************************************************)
\* Multiples of a number have no remainder.
LEMMA Multiple ==
  ASSUME NEW a \in Nat \ {0}, NEW k \in Int
  PROVE  (a * k) % a = 0
OBVIOUS

\* Division with remainder.
LEMMA Division ==
  ASSUME NEW a \in Nat \ {0}, NEW x \in Int
  PROVE  x \div a \in Int /\ x % a \in 0..(a - 1) /\ x = a * (x \div a) + (x % a)
OBVIOUS

\* A number without remainder is a multiple.
LEMMA Factor ==
  ASSUME NEW a \in Nat \ {0}, NEW x \in Int, x % a = 0
  PROVE  \E p \in Int : x = a * p
<1>1. x \div a \in Int /\ x = a * (x \div a) + 0
  BY Division
<1>2. a * (x \div a) \in Int
  BY <1>1
<1>3. x = a * (x \div a)
  BY <1>1, <1>2
<1> QED
  BY <1>1, <1>3, Zenon

\* Sums and differences of multiples are multiples.
LEMMA SumOfMultiples ==
  ASSUME NEW a \in Nat \ {0}, NEW x \in Int, NEW y \in Int, x % a = 0, y % a = 0
  PROVE  (x + y) % a = 0 /\ (x - y) % a = 0
<1>1. PICK p \in Int : x = a * p
  BY Factor
<1>2. PICK q \in Int : y = a * q
  BY Factor
<1>3. x + y = a * (p + q) /\ x - y = a * (p - q)
  BY <1>1, <1>2
<1>4. p + q \in Int /\ p - q \in Int
  OBVIOUS
<1>5. (a * (p + q)) % a = 0 /\ (a * (p - q)) % a = 0
  BY <1>4, Multiple
<1> QED
  BY <1>3, <1>5, Zenon

\* Padding leads to the alignment.
LEMMA PaddingAligns ==
  ASSUME NEW a \in Nat \ {0}, NEW x \in Nat
  PROVE  (x + padding(x, a)) % a = 0
BY SMTT(30) DEF padding

\* A rounded size is a number of words.
LEMMA RoundUpWords ==
  ASSUME NEW n \in Nat
  PROVE  round_up(n) % Word = 0
BY Constants DEF round_up

\* From a whole word, padding is a number of words: an alignment divides the
\* word or is a multiple of it.
LEMMA PaddingWords ==
  ASSUME NEW a \in Alignments, NEW x \in Nat, x % Word = 0
  PROVE  padding(x, a) % Word = 0
<1>1. a \in Nat \ {0} /\ Word \in Nat \ {0}
  BY Constants
<1>2. PICK u \in Int : x = Word * u
  BY <1>1, Factor
<1>3. a \in Int /\ Word \in Int
  BY <1>1
<1>4. CASE Word % a = 0
  <2>1. PICK v \in Int : Word = a * v
    BY <1>1, <1>4, <1>3, Factor, Zenon
  <2>2. x = a * (v * u)
    BY <1>1, <1>2, <2>1
  <2>3. x % a = 0
    BY <1>1, <2>2, Multiple
  <2>4. padding(x, a) = 0
    BY <1>1, <2>3 DEF padding
  <2> QED
    BY <1>1, <2>4
<1>5. CASE a % Word = 0
  <2> DEFINE r == x % a
             q == x \div a
  <2>1. q \in Int /\ r \in 0..(a - 1) /\ x = a * q + r
    BY <1>1, Division
  <2> HIDE DEF q
  <2>2. PICK v \in Int : a = Word * v
    BY <1>1, <1>5, <1>3, Factor, Zenon
  <2>3. padding(x, a) = IF r = 0 THEN 0 ELSE a - r
    <3>1. padding(x, a) = (a - r) % a
      BY DEF padding
    <3> HIDE DEF r
    <3> QED
      BY <1>1, <2>1, <3>1
  <2> HIDE DEF r
  <2>4. r = Word * (u - (v * q))
    <3>1. Word * u = (Word * v) * q + r
      BY <1>2, <2>1, <2>2
    <3>2. (Word * v) * q = Word * (v * q)
      BY <1>1, <2>1, <2>2
    <3>3. v * q \in Int
      BY <2>1, <2>2
    <3>4. Word * (u - (v * q)) = Word * u - Word * (v * q)
      BY <1>1, <1>2, <3>3
    <3> QED
      BY <1>1, <1>2, <2>1, <3>1, <3>2, <3>3, <3>4
  <2>5. r % Word = 0
    BY <1>1, <1>2, <2>1, <2>2, <2>4, Multiple
  <2>6. (a - r) % Word = 0
    <3>1. r \in Int
      BY <2>1
    <3> QED
      BY <1>1, <1>5, <1>3, <2>5, <3>1, SumOfMultiples, Zenon
  <2> QED
    BY <1>1, <2>3, <2>6
<1> QED
  BY <1>4, <1>5, PoolAssumption

\* Where a grant starts.
Address(g) == list[g.chunk].base + g.lo

\* Aligned requests keep their alignment; as long as all requests were whole
\* words, every chunk is used up to a whole word and plain grants start at one.
AlignOK ==
  /\ \A g \in live : IF g.plain THEN g.align = Word ELSE Address(g) % g.align = 0
  /\ ~odd => /\ \A k \in DOMAIN list : list[k].used % Word = 0
             /\ \A g \in live : g.plain => Address(g) % Word = 0

\* The next bytes of the current chunk, aligned as asked.
LEMMA InCurrentAligned ==
  ASSUME IInv, AlignOK, state = "open", NEW pad \in Nat, NEW size \in Nat,
         NEW alignment \in Nat, NEW plain \in BOOLEAN,
         InCurrent(pad, size, alignment, plain),
         plain => alignment = Word,
         ~plain => (cur.base + (cur.used + pad)) % alignment = 0,
         ~odd' => /\ ~odd
                  /\ (cur.used + pad + size) % Word = 0
                  /\ plain => (cur.base + (cur.used + pad)) % Word = 0
  PROVE  AlignOK'
<1> DEFINE c == list[current]
<1>0. PICK g : g = [chunk |-> current, lo |-> c.used + pad, hi |-> c.used + pad + size,
                    align |-> alignment, plain |-> plain]
  OBVIOUS
<1>1. list \in Seq(Chunk) /\ current \in DOMAIN list
  BY DEF IInv, TypeOK, ChunksOK
<1>2. c \in Chunk /\ c = cur
  BY <1>1 DEF cur
<1>3. list' = [list EXCEPT ![current].used = @ + pad + size] /\ live' = live \cup {g}
  BY <1>0 DEF InCurrent, Take, cur
<1>4. /\ DOMAIN list' = DOMAIN list
      /\ list'[current].used = c.used + pad + size
      /\ list'[current].base = c.base
      /\ \A k \in DOMAIN list : k # current => list'[k] = list[k]
  <2> DEFINE d == [c EXCEPT !.used = c.used + pad + size]
  <2>1. d.used = c.used + pad + size /\ d.base = c.base
    BY <1>2 DEF Chunk
  <2> HIDE DEF d
  <2>2. list' = [list EXCEPT ![current] = d]
    BY <1>3 DEF d
  <2>3. /\ DOMAIN list' = DOMAIN list /\ list'[current] = d
        /\ \A k \in DOMAIN list : k # current => list'[k] = list[k]
    BY <1>1, <2>2
  <2> QED
    BY <2>1, <2>3
<1>5. /\ g.chunk = current /\ g.lo = c.used + pad
      /\ g.align = alignment /\ g.plain = plain
  BY <1>0
<1> HIDE DEF c
<1>6. \A h \in live : h.chunk \in DOMAIN list
  BY <1>1 DEF IInv, ChunksOK
<1>7. \A h \in live : Address(h)' = Address(h)
  BY <1>2, <1>4, <1>6 DEF Address, c
<1>8. Address(g)' = cur.base + (cur.used + pad)
  BY <1>2, <1>4, <1>5 DEF Address
<1>9. \A h \in live' : IF h.plain THEN h.align = Word ELSE Address(h)' % h.align = 0
  <2>1. IF g.plain THEN g.align = Word ELSE Address(g)' % g.align = 0
    BY <1>5, <1>8, Zenon
  <2> QED
    BY <1>3, <1>7, <2>1, Zenon DEF AlignOK
<1>10. ~odd' => \A h \in live' : h.plain => Address(h)' % Word = 0
  <2>1. ~odd' /\ g.plain => Address(g)' % Word = 0
    BY <1>5, <1>8, Zenon
  <2> QED
    BY <1>3, <1>7, <2>1, Zenon DEF AlignOK
<1>11. ~odd' => \A k \in DOMAIN list' : list'[k].used % Word = 0
  BY <1>2, <1>4 DEF AlignOK, c
<1> QED
  BY <1>9, <1>10, <1>11 DEF AlignOK

\* The first bytes of a new chunk, aligned as asked.
LEMMA InNewChunkAligned ==
  ASSUME IInv, AlignOK, state = "open", NEW base \in Bases, NEW csize \in Nat,
         NEW pad \in Nat, NEW size \in Nat, NEW alignment \in Nat, NEW plain \in BOOLEAN,
         InNewChunk(base, csize, pad, size, alignment, plain),
         plain => alignment = Word,
         ~plain => (base + pad) % alignment = 0,
         ~odd' => /\ ~odd
                  /\ (pad + size) % Word = 0
                  /\ plain => (base + pad) % Word = 0
  PROVE  AlignOK'
<1> DEFINE c == [id |-> made + 1, base |-> base, size |-> csize, used |-> pad + size]
<1>0. PICK g : g = [chunk |-> current + 1, lo |-> pad, hi |-> pad + size,
                    align |-> alignment, plain |-> plain]
  OBVIOUS
<1>1. /\ list \in Seq(Chunk) /\ current \in DOMAIN list /\ current \in Nat /\ made \in Nat
      /\ current \in 0..Len(list)
  BY DEF IInv, TypeOK, ChunksOK
<1>2. c \in Chunk /\ c.used = pad + size /\ c.base = base
  BY <1>1, Constants DEF Chunk
<1>3. list' = Append(SubSeq(list, 1, current), c) /\ live' = live \cup {g}
  BY <1>0 DEF InNewChunk, create_chunk, Take
<1> HIDE DEF c
<1>4. /\ list' \in Seq(Chunk) /\ Len(list') = current + 1
      /\ \A k \in 1..current : list'[k] = list[k]
      /\ list'[current + 1] = c
  BY <1>1, <1>2, <1>3, GrowList, SMTT(30)
<1>5. /\ g.chunk = current + 1 /\ g.lo = pad
      /\ g.align = alignment /\ g.plain = plain
  BY <1>0
<1>6. DOMAIN list' = 1..(current + 1) /\ DOMAIN list = 1..Len(list)
  BY <1>1, <1>4
<1>7. \A h \in live : Address(h)' = Address(h)
  BY <1>4 DEF Address, IInv, ChunksOK
<1>8. Address(g)' = base + pad
  BY <1>2, <1>4, <1>5 DEF Address
<1>9. \A h \in live' : IF h.plain THEN h.align = Word ELSE Address(h)' % h.align = 0
  <2>1. IF g.plain THEN g.align = Word ELSE Address(g)' % g.align = 0
    BY <1>5, <1>8, Zenon
  <2> QED
    BY <1>3, <1>7, <2>1, Zenon DEF AlignOK
<1>10. ~odd' => \A h \in live' : h.plain => Address(h)' % Word = 0
  <2>1. ~odd' /\ g.plain => Address(g)' % Word = 0
    BY <1>5, <1>8, Zenon
  <2> QED
    BY <1>3, <1>7, <2>1, Zenon DEF AlignOK
<1>11. ~odd' => \A k \in DOMAIN list' : list'[k].used % Word = 0
  <2>1. \A k \in DOMAIN list' : k = current + 1 \/ (k \in 1..current /\ k \in DOMAIN list)
    BY <1>1, <1>6
  <2> QED
    BY <1>2, <1>4, <2>1 DEF AlignOK
<1> QED
  BY <1>9, <1>10, <1>11 DEF AlignOK

\* What an alignment proof needs to know of the current chunk.
LEMMA CurrentChunk ==
  ASSUME IInv, AlignOK, state = "open"
  PROVE  /\ cur.base \in Nat /\ cur.used \in Nat /\ cur.base % Word = 0
         /\ ~odd => cur.used % Word = 0 /\ (cur.base + cur.used) % Word = 0
<1>1. current \in DOMAIN list /\ list \in Seq(Chunk)
  BY DEF IInv, TypeOK, ChunksOK
<1>2. cur \in Chunk
  BY <1>1 DEF cur
<1>3. cur.base \in Bases /\ cur.used \in Nat
  BY <1>2 DEF Chunk
<1>4. cur.base \in Nat /\ cur.base % Word = 0
  BY <1>3, PoolAssumption
<1>5. ~odd => cur.used % Word = 0
  BY <1>1 DEF AlignOK, cur
<1> QED
  BY <1>3, <1>4, <1>5, SumOfMultiples, Constants

\* Every step keeps the alignment.
LEMMA StepAligned == IInv /\ AlignOK /\ [Next]_vars => AlignOK'
<1> SUFFICES ASSUME IInv, AlignOK, [Next]_vars PROVE AlignOK'
  OBVIOUS
<1>1. CASE UNCHANGED vars
  BY <1>1 DEF vars, AlignOK, Address
<1>2. ASSUME NEW n \in Sizes, AllocFits(n) PROVE AlignOK'
  <2> DEFINE size == round_up(n)
  <2>1. /\ state = "open" /\ odd' = odd /\ InCurrent(0, size, Word, TRUE)
        /\ n \in Nat /\ n > 0
    BY <1>2, Constants DEF AllocFits, can_round
  <2>2. size \in Nat /\ size % Word = 0 /\ Word \in Nat \ {0} /\ Word \in Nat /\ 0 \in Nat
    BY <2>1, RoundUp, RoundUpWords, Constants
  <2> HIDE DEF size
  <2>3. /\ cur.base \in Nat /\ cur.used \in Nat
        /\ ~odd => cur.used % Word = 0 /\ (cur.base + cur.used) % Word = 0
    BY <2>1, CurrentChunk
  <2>4. ~odd => (cur.used + size) % Word = 0
    BY <2>2, <2>3, SumOfMultiples
  <2>5. cur.used + 0 = cur.used
    BY <2>3
  <2>6. ~odd' => /\ ~odd
                 /\ (cur.used + 0 + size) % Word = 0
                 /\ TRUE => (cur.base + (cur.used + 0)) % Word = 0
    BY <2>1, <2>3, <2>4, <2>5, Zenon
  <2> QED
    BY <2>1, <2>2, <2>6, InCurrentAligned, Zenon
<1>3. ASSUME NEW n \in Sizes, AllocGrows(n) PROVE AlignOK'
  <2> DEFINE size == round_up(n)
             csize == MaxOf(size, chunk_size)
  <2>1. state = "open" /\ odd' = odd /\ n \in Nat /\ n > 0
    BY <1>3, Constants DEF AllocGrows, can_round
  <2>2. PICK base \in Bases : InNewChunk(base, csize, 0, size, Word, TRUE)
    BY <1>3 DEF AllocGrows
  <2>3. size \in Nat /\ size % Word = 0 /\ Word \in Nat \ {0} /\ Word \in Nat /\ 0 \in Nat
    BY <2>1, RoundUp, RoundUpWords, Constants
  <2>4. csize \in Nat
    BY <2>3, Constants DEF MaxOf
  <2> HIDE DEF size, csize
  <2>5. base \in Nat /\ base % Word = 0
    BY PoolAssumption
  <2>6. 0 + size = size /\ base + 0 = base
    BY <2>3, <2>5
  <2>7. ~odd' => ~odd /\ (0 + size) % Word = 0 /\ (TRUE => (base + 0) % Word = 0)
    BY <2>1, <2>3, <2>5, <2>6, Zenon
  <2> QED
    BY <2>1, <2>2, <2>3, <2>4, <2>7, InNewChunkAligned, Zenon
<1>4. ASSUME NEW n \in Sizes, NEW a \in Alignments, AlignedFits(n, a) PROVE AlignOK'
  <2> DEFINE pad == padding(cur.base + cur.used, a)
  <2>1. state = "open" /\ odd' = (odd \/ n % Word # 0) /\ InCurrent(pad, n, a, FALSE)
    BY <1>4 DEF AlignedFits
  <2>2. n \in Nat /\ a \in Nat \ {0} /\ a \in Nat /\ Word \in Nat \ {0}
    BY Constants
  <2>3. /\ cur.base \in Nat /\ cur.used \in Nat /\ cur.base + cur.used \in Nat
        /\ ~odd => cur.used % Word = 0 /\ (cur.base + cur.used) % Word = 0
    BY <2>1, CurrentChunk
  <2>4. pad \in Nat /\ ((cur.base + cur.used) + pad) % a = 0
    BY <2>2, <2>3, PaddingRange, PaddingAligns
  <2>5. ~odd => pad % Word = 0
    BY <2>3, PaddingWords
  <2> HIDE DEF pad
  <2>6. cur.used + pad \in Nat /\ (~odd => (cur.used + pad) % Word = 0)
    BY <2>2, <2>3, <2>4, <2>5, SumOfMultiples
  <2>7. ~odd' => ~odd /\ n % Word = 0
    BY <2>1, Zenon
  <2>8. ~odd' => (cur.used + pad + n) % Word = 0
    BY <2>2, <2>6, <2>7, SumOfMultiples
  <2>9. (cur.base + (cur.used + pad)) % a = 0
    BY <2>3, <2>4
  <2>10. ~odd' => /\ ~odd
                  /\ (cur.used + pad + n) % Word = 0
                  /\ FALSE => (cur.base + (cur.used + pad)) % Word = 0
    BY <2>7, <2>8, Zenon
  <2> QED
    BY <2>1, <2>2, <2>4, <2>9, <2>10, InCurrentAligned, Zenon
<1>5. ASSUME NEW n \in Sizes, NEW a \in Alignments, AlignedGrows(n, a) PROVE AlignOK'
  <2> DEFINE csize == MaxOf(n + a - 1, chunk_size)
  <2>1. state = "open" /\ odd' = (odd \/ n % Word # 0)
    BY <1>5 DEF AlignedGrows
  <2>2. PICK base \in Bases : InNewChunk(base, csize, padding(base, a), n, a, FALSE)
    BY <1>5 DEF AlignedGrows
  <2> DEFINE pad == padding(base, a)
  <2>3. n \in Nat /\ a \in Nat \ {0} /\ a \in Nat /\ Word \in Nat \ {0} /\ chunk_size \in Nat
    BY Constants
  <2>4. csize \in Nat
    BY <2>3 DEF MaxOf
  <2>5. base \in Nat /\ base % Word = 0
    BY PoolAssumption
  <2>6. pad \in Nat /\ (base + pad) % a = 0 /\ pad % Word = 0
    BY <2>3, <2>5, PaddingRange, PaddingAligns, PaddingWords
  <2> HIDE DEF pad, csize
  <2>7. ~odd' => ~odd /\ n % Word = 0
    BY <2>1, Zenon
  <2>8. ~odd' => (pad + n) % Word = 0
    <3>1. pad \in Int /\ n \in Int
      BY <2>3, <2>6
    <3> QED
      BY <2>3, <2>6, <2>7, <3>1, SumOfMultiples, Zenon
  <2>9. ~odd' => ~odd /\ (pad + n) % Word = 0 /\ (FALSE => (base + pad) % Word = 0)
    BY <2>7, <2>8, Zenon
  <2>10. InNewChunk(base, csize, pad, n, a, FALSE)
    BY <2>2 DEF pad
  <2> QED
    BY <2>1, <2>3, <2>4, <2>6, <2>9, <2>10, InNewChunkAligned, Zenon
<1>6. CASE Create
  <2>1. PICK base \in Bases : create_chunk(0, base, chunk_size, 0)
    BY <1>6 DEF Create
  <2> DEFINE c == [id |-> made + 1, base |-> base, size |-> chunk_size, used |-> 0]
  <2>2. list = << >> /\ live = {} /\ live' = {} /\ made \in Nat
    BY <1>6 DEF Create, IInv, ChunksOK, TypeOK
  <2>3. c \in Chunk /\ c.used = 0
    BY <2>2, Constants DEF Chunk
  <2>4. list' = Append(SubSeq(list, 1, 0), c) /\ list \in Seq(Chunk) /\ 0 \in 0..Len(list)
    BY <2>1, <2>2 DEF create_chunk
  <2> HIDE DEF c
  <2>5. list' \in Seq(Chunk) /\ Len(list') = 1 /\ list'[1] = c
    BY <2>3, <2>4, GrowList
  <2>6. \A k \in DOMAIN list' : list'[k].used = 0
    BY <2>3, <2>5
  <2> QED
    BY <2>2, <2>6, Constants DEF AlignOK
<1>7. CASE Reset
  <2>1. list \in Seq(Chunk) /\ live' = {}
    BY <1>7 DEF IInv, TypeOK, Reset
  <2>2. ASSUME NEW k \in DOMAIN list' PROVE list'[k].used = 0
    <3>1. k \in DOMAIN list /\ list'[k] = [list[k] EXCEPT !.used = 0]
      BY <1>7, <2>2 DEF Reset
    <3>2. list[k] \in Chunk
      BY <2>1, <3>1
    <3> QED
      BY <3>1, <3>2 DEF Chunk
  <2> QED
    BY <2>1, <2>2, Constants DEF AlignOK
<1>8. CASE Destroy
  BY <1>8 DEF Destroy, AlignOK
<1> QED
  BY <1>1, <1>2, <1>3, <1>4, <1>5, <1>6, <1>7, <1>8 DEF Next

\* An aligned request gets its alignment and, as long as only whole words are
\* asked for, a plain one starts at a word: PointersAligned holds for every
\* word size, chunk size, limit and order of requests and resets.
THEOREM AlignmentHolds == Spec => []PointersAligned
<1>1. Init => AlignOK
  BY DEF Init, AlignOK
<1>2. AlignOK => PointersAligned
  BY Zenon DEF AlignOK, PointersAligned, Address
<1> QED
  BY <1>1, <1>2, StepAligned, InvariantHolds, PTL DEF Spec
=============================================================================
