----------------------------- MODULE FsmapIndex -----------------------------
(***************************************************************************)
(* fsd_fsmap_stage_build_index: a walk over the source's directories makes *)
(* a table of files by path, a walk over the destination's makes one       *)
(* hypothesis per unmatched block (the source position of the same bytes   *)
(* of the file with the same path), and the hypotheses are sorted.         *)
(* A path is the sequence of its names; its depth is its number of '/'.    *)
(***************************************************************************)
EXTENDS ExtReader, HashTable, FiniteSets

CONSTANTS
  Images,            \* pairs [src, dest] of file systems considered
  Paths,             \* the paths that occur in them
  BlockSize,         \* fsdiff's block size
  PathCrc(_),        \* CRC32 of a path; different paths may collide
  BadNames,          \* ".", "..", and names with a '/' or a NUL
  MAX_DIR_DEPTH, MaxNames,   \* path depth, and names that fit into MAX_PATH_LEN
  MaxMatched,        \* blocks matched before the stage
  MaxStarved         \* allocations that fail

EXT_ROOT_INODE == 2

VARIABLES
  image, unmatched,
  extents,           \* what inode_extents gives for the inodes of the images
  phase,             \* "open", "prepare", "src", "dest", "sort" or "done"
  handles,           \* open file systems
  stack, visited,    \* of the walk
  dir, todo,         \* the directory under way, its entries to come
  src_files, path_hash,
  hyps,
  inactive, result,
  starved,           \* history: allocations that failed
  gone               \* history: directories the walk took from the stack

walk == <<stack, visited, dir, todo, gone>>
files == <<src_files, path_hash>>
input == <<image, unmatched, extents>>
vars == <<input, phase, handles, walk, files, hyps, inactive, result, starved>>

fs == image[phase]           \* of the walk under way
bs(side) == block_size(image[side].sb)
blocks_of(side) == image[side].sb.image_size \div BlockSize
NoDir == [ino |-> 0, path |-> << >>]

Init ==
  /\ image \in Images
  /\ LET all == 0..(blocks_of("dest") - 1)
     IN \E m \in UNION {kSubset(k, all) : k \in 0..MaxMatched} : unmatched = all \ m
  /\ extents = [side \in {"src", "dest"} |-> [i \in DOMAIN image[side].inodes |->
                  inode_extents(image[side], image[side].inodes[i])]]
  /\ phase = "open" /\ handles = {}
  /\ stack = << >> /\ visited = {} /\ dir = NoDir /\ todo = << >> /\ gone = << >>
  /\ src_files = << >> /\ path_hash = hash_table_create /\ hyps = << >>
  /\ inactive = TRUE /\ result = "none" /\ starved = 0

Starve == starved < MaxStarved /\ starved' = starved + 1

\* What "out:" closes; before it, each return closes what is open.
Return(r) == phase' = "done" /\ result' = r /\ handles' = {}

(***************************************************************************)
(* Opening the two images                                                  *)
(***************************************************************************)
next_to_open == IF handles = {} THEN "src" ELSE "dest"

\* An image that is not supported disables the stage; that is no error.
OpenRefused ==
  /\ phase = "open" /\ probe(image[next_to_open].sb) # "SUCCESS"
  /\ Return("SUCCESS")
  /\ UNCHANGED <<input, walk, files, hyps, inactive, starved>>

Open ==
  /\ phase = "open" /\ probe(image[next_to_open].sb) = "SUCCESS"
  /\ handles' = handles \cup {next_to_open}
  /\ phase' = IF next_to_open = "dest" THEN "prepare" ELSE "open"
  /\ UNCHANGED <<input, walk, files, hyps, inactive, result, starved>>

\* The allocation of a handle comes after the checks of its features.
OpenStarved ==
  /\ phase = "open" /\ supported(image[next_to_open].sb) /\ Starve
  /\ Return("OUT_OF_MEMORY")
  /\ UNCHANGED <<input, walk, files, hyps, inactive>>

(***************************************************************************)
(* fsd_extfs_walk                                                          *)
(***************************************************************************)
BeginWalk(side) ==
  /\ phase' = side /\ stack' = <<[ino |-> EXT_ROOT_INODE, path |-> << >>]>>
  /\ visited' = {EXT_ROOT_INODE} /\ dir' = NoDir /\ todo' = << >> /\ gone' = << >>

\* The pool and the path table, then the root of the source.
Prepare ==
  /\ phase = "prepare" /\ BeginWalk("src")
  /\ UNCHANGED <<input, handles, files, hyps, inactive, result, starved>>

Walking == phase \in {"src", "dest"}
is_dir(ino) == has_inode(fs, ino) /\ fs.inodes[ino].mode = "dir"
is_reg(ino) == has_inode(fs, ino) /\ fs.inodes[ino].mode = "reg"

usable(path, de) == de.ino # 0 /\ de.name \notin BadNames /\ Len(path) < MaxNames

PopDir(skip) ==
  LET d == stack[Len(stack)]
      ext == extents[phase][d.ino]
      readable == is_dir(d.ino) /\ ext.ok /\ ~skip
  IN /\ Walking /\ todo = << >> /\ stack # << >>
     /\ stack' = SubSeq(stack, 1, Len(stack) - 1) /\ gone' = Append(gone, d.ino)
     /\ dir' = d
     /\ todo' = IF readable
                THEN SelectSeq(dir_entries(fs, ext.v), LAMBDA de : usable(d.path, de)) ELSE << >>
     /\ UNCHANGED <<input, phase, handles, visited, files, hyps, inactive, result>>

Pop == PopDir(FALSE) /\ UNCHANGED starved

\* The extent list cannot grow: the directory is skipped.
PopStarved == PopDir(TRUE) /\ Starve

\* Mutant: a directory is marked when it is popped, not when it is pushed.
fresh_unmarked(ino, path) ==
  /\ ino <= fs.sb.inodes_count /\ ~\E k \in DOMAIN gone : gone[k] = ino
  /\ Len(path) <= MAX_DIR_DEPTH

fresh(ino, path) ==
  ino <= fs.sb.inodes_count /\ ino \notin visited /\ Len(path) <= MAX_DIR_DEPTH

entry == Head(todo)
entry_path == Append(dir.path, entry.name)
is_entry(type) == Walking /\ todo # << >> /\ entry_type(fs, entry) = type

Push ==
  /\ is_entry("dir") /\ todo' = Tail(todo)
  /\ IF fresh(entry.ino, entry_path)
     THEN /\ stack' = Append(stack, [ino |-> entry.ino, path |-> entry_path])
          /\ visited' = visited \cup {entry.ino}
     ELSE UNCHANGED <<stack, visited>>
  /\ UNCHANGED <<input, phase, handles, dir, gone, files, hyps, inactive, result, starved>>

\* An allocation of the preparations fails, one at the start of a walk, or
\* the push of a directory: the walk and build_index end.
Starved ==
  /\ \/ phase = "prepare"
     \/ Walking /\ dir = NoDir
     \/ is_entry("dir") /\ fresh(entry.ino, entry_path)
  /\ Starve /\ Return("OUT_OF_MEMORY")
  /\ UNCHANGED <<input, walk, files, hyps, inactive>>

\* An entry for a regular file whose extents can be collected.
file_ext == extents[phase][entry.ino]
at_file == is_entry("reg") /\ is_reg(entry.ino) /\ file_ext.ok

\* Any other entry, or a file whose extent list cannot grow.
PassOver ==
  /\ Walking /\ todo # << >> /\ ~is_entry("dir") /\ todo' = Tail(todo)
  /\ IF at_file /\ file_ext.v # << >> THEN Starve ELSE ~at_file /\ UNCHANGED starved
  /\ UNCHANGED <<input, phase, handles, stack, visited, dir, gone, files, hyps, inactive, result>>

(***************************************************************************)
(* The source: src_walk_cb and src_file_find                               *)
(***************************************************************************)
\* A file without blocks is left out.
NoBlocks ==
  /\ phase = "src" /\ at_file /\ file_ext.v = << >> /\ todo' = Tail(todo)
  /\ UNCHANGED <<input, phase, handles, stack, visited, dir, gone, files, hyps,
                 inactive, result, starved>>

\* The file goes into the table.  Without memory for the hash entry it is
\* there but cannot be found.
AddFile ==
  /\ phase = "src" /\ at_file /\ file_ext.v # << >> /\ todo' = Tail(todo)
  /\ src_files' = Append(src_files, [path |-> entry_path, ext |-> file_ext.v])
  /\ \/ /\ path_hash' = hash_table_insert(path_hash, PathCrc(entry_path), Len(src_files))
        /\ UNCHANGED starved
     \/ UNCHANGED path_hash /\ Starve
  /\ UNCHANGED <<input, phase, handles, stack, visited, dir, gone, hyps, inactive, result>>

\* No memory for the table, the path or the extents: the walk is stopped.
AddFileStarved ==
  /\ phase = "src" /\ at_file /\ file_ext.v # << >> /\ Starve /\ Return("OUT_OF_MEMORY")
  /\ UNCHANGED <<input, walk, files, hyps, inactive>>

\* The file with this path, or nothing: the first of the chain.
src_file_find(path) ==
  LET crc == PathCrc(path)
      chain == path_hash[hash_to_bucket(crc)]
      same == {p \in VisitedFrom(path_hash, crc) :
                 chain[p].crc32 = crc /\ src_files[chain[p].block_index + 1].path = path}
  IN IF same = {} THEN << >>
     ELSE <<src_files[chain[CHOOSE p \in same : \A q \in same : p <= q].block_index + 1]>>

(***************************************************************************)
(* The destination: dest_walk_cb and src_map_range                         *)
(***************************************************************************)
\* Mutant: the range may end behind the extent.
covers_start(e, lo, len) ==
  LET first == e.logical * bs("src")
  IN lo >= first /\ lo < first + e.count * bs("src")

covers(e, lo, len) ==
  LET first == e.logical * bs("src")
  IN lo >= first /\ lo + len <= first + e.count * bs("src")

\* Source bytes of len bytes of a file from its byte lo, when they are in
\* one extent.
src_map_range(f, lo, len) ==
  LET within == {i \in DOMAIN f.ext : covers(f.ext[i], lo, len)}
      e == f.ext[CHOOSE i \in within : \A j \in within : i <= j]
  IN IF within = {} THEN << >>
     ELSE <<e.physical * bs("src") + (lo - e.logical * bs("src"))>>

\* fsdiff blocks that lie wholly in the bytes lo..hi-1.
blocks_inside(lo, hi) ==
  LET first == (lo + BlockSize - 1) \div BlockSize
      last == hi \div BlockSize
  IN [k \in 1..(last - first) |-> first + k - 1]

hypothesis(f, e, lo, b) ==
  LET pos == src_map_range(f, e.logical * bs("dest") + (b * BlockSize - lo), BlockSize)
  IN IF b >= blocks_of("dest") \/ b \notin unmatched \/ pos = << >> THEN << >>
     ELSE IF pos[1] + BlockSize > image["src"].sb.image_size THEN << >>
     ELSE <<[dest_block |-> b, src_pos |-> pos[1]]>>

dest_walk_cb(path, ext) ==
  LET found == src_file_find(path)
      of_extent(e) ==
        LET lo == e.physical * bs("dest")
            inside == blocks_inside(lo, lo + e.count * bs("dest"))
        IN FlattenSeq([k \in DOMAIN inside |-> hypothesis(found[1], e, lo, inside[k])])
  IN IF found = << >> THEN << >> ELSE FlattenSeq([k \in DOMAIN ext |-> of_extent(ext[k])])

Emit ==
  /\ phase = "dest" /\ at_file /\ todo' = Tail(todo)
  /\ hyps' = hyps \o dest_walk_cb(entry_path, file_ext.v)
  /\ UNCHANGED <<input, phase, handles, stack, visited, dir, gone, files, inactive,
                 result, starved>>

\* hyp_append fails after n hypotheses of the file.
EmitStarved ==
  /\ phase = "dest" /\ at_file /\ Starve /\ Return("OUT_OF_MEMORY")
  /\ LET new == dest_walk_cb(entry_path, file_ext.v)
     IN \E n \in 0..(Len(new) - 1) : hyps' = hyps \o SubSeq(new, 1, n)
  /\ UNCHANGED <<input, walk, files, inactive>>

WalkDone ==
  /\ Walking /\ stack = << >> /\ todo = << >> /\ dir # NoDir
  /\ IF phase = "src" THEN BeginWalk("dest") ELSE phase' = "sort" /\ UNCHANGED walk
  /\ UNCHANGED <<input, handles, files, hyps, inactive, result, starved>>

hyp_cmp(a, b) ==
  a.dest_block < b.dest_block \/ (a.dest_block = b.dest_block /\ a.src_pos < b.src_pos)

\* Mutant: only a hypothesis that is there twice is dropped.
dedupe_equal(s) == FlattenSeq([i \in DOMAIN s |-> IF i > 1 /\ s[i] = s[i - 1] THEN << >> ELSE <<s[i]>>])

\* Of the hypotheses for a block the first stays.
dedupe(s) ==
  FlattenSeq([i \in DOMAIN s |->
    IF i > 1 /\ s[i].dest_block = s[i - 1].dest_block THEN << >> ELSE <<s[i]>>])

Sort ==
  /\ phase = "sort"
  /\ hyps' = dedupe(SortSeq(hyps, hyp_cmp))
  /\ inactive' = FALSE /\ Return("SUCCESS")
  /\ UNCHANGED <<input, walk, files, starved>>

\* Only an index that is finished may rest.
Done == phase = "done" /\ UNCHANGED vars

Next ==
  \/ OpenRefused \/ Open \/ OpenStarved \/ Prepare \/ Starved
  \/ Pop \/ PopStarved \/ Push \/ PassOver \/ WalkDone
  \/ NoBlocks \/ AddFile \/ AddFileStarved \/ Emit \/ EmitStarved \/ Sort
  \/ Done

Spec == Init /\ [][Next]_vars

(***************************************************************************)
(* A reference: which inode a path names, and which byte of the image      *)
(* holds a byte of a file                                                  *)
(***************************************************************************)
\* The leaf entries with content below a node.
RECURSIVE LeavesOf(_, _)
LeavesOf(f, node) ==
  IF node.depth = 0 THEN {e \in ToSet(node.entries) : e.len > 0 /\ ~e.unwritten}
  ELSE UNION {LeavesOf(f, f.blocks[e.child]) : e \in ToSet(node.entries)}

\* The pointer that index k finds below a pointer of a level.
RECURSIVE PointerBelow(_, _, _, _)
PointerBelow(f, ptr, level, k) ==
  IF level = 0 \/ ptr = 0 THEN ptr
  ELSE PointerBelow(f, f.blocks[ptr].ptrs[(k \div span(level - 1)) + 1], level - 1, k % span(level - 1))

\* The first logical block below the pointer of a level.
FirstOf(level) ==
  CASE level = 1 -> Direct [] level = 2 -> Direct + Per [] level = 3 -> Direct + Per + Per * Per

PointerOf(f, inode, l) ==
  IF l < Direct THEN inode.iblock[l + 1]
  ELSE LET level == CHOOSE v \in 1..3 : l >= FirstOf(v) /\ l < FirstOf(v) + span(v)
       IN PointerBelow(f, inode.iblock[Direct + level], level, l - FirstOf(level))

\* Pairs of a logical and a physical block.
BlocksOf(f, inode) ==
  CASE inode.how = "inline" -> {}
    [] inode.how = "extents" ->
         UNION {{<<e.logical + k, e.phys + k>> : k \in 0..(e.len - 1)} : e \in LeavesOf(f, inode.root)}
    [] inode.how = "map" ->
         {<<l, PointerOf(f, inode, l)>> : l \in {n \in 0..(file_blocks(f, inode) - 1) :
                                                   PointerOf(f, inode, n) # 0}}

\* The bytes of the file that byte p of the image holds, and the bytes of
\* the image that hold byte n of the file.
HeldAt(side, inode, p) ==
  {x[1] * bs(side) + (p % bs(side)) : x \in {y \in BlocksOf(image[side], inode) : y[2] = p \div bs(side)}}
PlacesOf(side, inode, n) ==
  {x[2] * bs(side) + (n % bs(side)) : x \in {y \in BlocksOf(image[side], inode) : y[1] = n \div bs(side)}}

\* The block of bytes at p of the image holds the file's bytes from n on.
HoldsBlock(side, inode, n, p) ==
  \A j \in 0..(BlockSize - 1) : p + j \in PlacesOf(side, inode, n + j)

EntriesOf(f, inode) ==
  UNION {{de \in ToSet(f.blocks[b[2]].entries) : usable(<< >>, de)} : b \in BlocksOf(f, inode)}

RECURSIVE Named(_, _)
Named(f, path) ==
  IF path = << >> THEN {EXT_ROOT_INODE}
  ELSE {de.ino : de \in UNION {{x \in EntriesOf(f, f.inodes[d]) :
                                    x.name = path[Len(path)] /\ x.ino \in DOMAIN f.inodes} :
                                 d \in {i \in Named(f, Front(path)) : f.inodes[i].mode = "dir"}}}

FileNamed(side, path) == {i \in Named(image[side], path) : image[side].inodes[i].mode = "reg"}

(***************************************************************************)
(* Properties                                                              *)
(***************************************************************************)
\* Every hypothesis is about an unmatched block, and both ends of it hold the
\* same bytes of files with the same path: whatever the two block sizes, holes,
\* fragments, indirect blocks, hard links and paths with the same CRC.
HypothesesSound ==
  phase = "done" => \A k \in DOMAIN hyps :
    LET h == hyps[k]
        at == h.dest_block * BlockSize
    IN /\ h.dest_block \in unmatched /\ h.src_pos + BlockSize <= image["src"].sb.image_size
       /\ \E path \in Paths : \E d \in FileNamed("dest", path), s \in FileNamed("src", path) :
            \E n \in HeldAt("dest", image["dest"].inodes[d], at) :
              /\ HoldsBlock("dest", image["dest"].inodes[d], n, at)
              /\ HoldsBlock("src", image["src"].inodes[s], n, h.src_pos)

WellFormed(side) ==
  LET f == image[side]
      ext == extents[side]
      dirs(path) == {i \in Named(f, path) : f.inodes[i].mode = "dir"}
  IN /\ \A i \in DOMAIN f.inodes : ext[i].ok
     /\ \A p, q \in Paths \cup {<< >>} : p # q => dirs(p) \cap dirs(q) = {}
     /\ \A d \in UNION {dirs(p) : p \in Paths \cup {<< >>}} : \A e \in EntriesOf(f, f.inodes[d]) :
          e.ino \in DOMAIN f.inodes /\ e.ftype = f.inodes[e.ino].mode /\ ~e.broken

\* In two well-formed trees every unmatched block whose bytes the source has
\* in one piece, in the file with the same path, gets a hypothesis.
HypothesesComplete ==
  (phase = "done" /\ ~inactive /\ starved = 0 /\ WellFormed("src") /\ WellFormed("dest")) =>
    \A path \in {p \in Paths : Len(p) - 1 <= MAX_DIR_DEPTH /\ Len(p) <= MaxNames} :
      \A d \in FileNamed("dest", path), s \in FileNamed("src", path), b \in unmatched :
        \A n \in HeldAt("dest", image["dest"].inodes[d], b * BlockSize) :
          HoldsBlock("dest", image["dest"].inodes[d], n, b * BlockSize) =>
            \A p \in PlacesOf("src", image["src"].inodes[s], n) :
              HoldsBlock("src", image["src"].inodes[s], n, p) =>
                \E k \in DOMAIN hyps : hyps[k].dest_block = b

\* The stage goes through ascending blocks, each once: what it promises the
\* tracker, and what its progress is measured by.
OnePerBlock ==
  ~inactive => \A k \in 2..Len(hyps) : hyps[k - 1].dest_block < hyps[k].dest_block

\* No walk opens a directory twice, however directories link to each other.
EachDirOnce ==
  LET seen == gone \o [k \in DOMAIN stack |-> stack[k].ino]
  IN \A i, j \in DOMAIN seen : i # j => seen[i] # seen[j]

\* The collected extents are the file: they map the logical blocks with
\* content, and no others, to where the tree or the block map has them.
ExtentListExact ==
  phase = "prepare" => \A side \in {"src", "dest"} : \A i \in DOMAIN image[side].inodes :
    LET inode == image[side].inodes[i]
        got == extents[side][i]
    IN got.ok => BlocksOf(image[side], inode) =
         UNION {{<<e.logical + k, e.physical + k>> : k \in 0..(e.count - 1)} : e \in ToSet(got.v)}

\* An image that is opened has the group descriptor of every inode inside it.
NoReadOutside ==
  \A side \in {"src", "dest"} :
    LET sb == image[side].sb
    IN probe(sb) = "SUCCESS" =>
         \A ino \in 1..sb.inodes_count : descriptor_at(sb, ino) + desc_size(sb) <= sb.image_size
=============================================================================
