----------------------------- MODULE ExtReader -----------------------------
(***************************************************************************)
(* What the ext2/3/4 reader computes from an image: whether it is one it   *)
(* supports, where an inode lies, and which blocks hold a file.            *)
(* A file system fs is a record: its superblock sb, its inodes, and the    *)
(* blocks that have structure (extent nodes, pointer blocks, directories). *)
(***************************************************************************)
EXTENDS Integers, Sequences, SequencesExt

CONSTANTS
  Unit,                 \* 1024 bytes in the code: superblock offset, smallest block
  INO_MIN_SIZE, GD_SIZE_32,
  UINT32_MOD,           \* 2^32: the group count is cut to 32 bits
  Direct,               \* direct pointers of a block map: 12
  Per,                  \* pointers in a block of pointers: block size / 4
  EXTENT_MAX_DEPTH, MAX_EXTENTS_PER_FILE, MAX_FILE_BLOCKS

ASSUME ExtAssumption ==
  /\ Unit \in Nat \ {0} /\ INO_MIN_SIZE \in Nat \ {0} /\ GD_SIZE_32 \in Nat \ {0}
  /\ UINT32_MOD \in Nat \ {0}
  /\ Direct \in Nat \ {0} /\ Per \in Nat \ {0} /\ MAX_EXTENTS_PER_FILE \in Nat \ {0}

(***************************************************************************)
(* fsd_extfs_open                                                          *)
(***************************************************************************)
Allowed == {"FILETYPE", "EXTENTS", "64BIT", "FLEX_BG", "CSUM_SEED", "INLINE_DATA"}

block_size(sb) == Unit * 2^sb.log_bs
first_data_block(sb) == IF block_size(sb) = Unit THEN 1 ELSE 0
inode_size(sb) == IF sb.rev >= 1 THEN sb.inode_size ELSE INO_MIN_SIZE
desc_size(sb) == IF "64BIT" \in sb.incompat THEN sb.desc_size ELSE GD_SIZE_32
is_pow2(n) == \E k \in 0..n : 2^k = n

group_count(sb) ==
  ((sb.block_count - sb.first_data_block + sb.blocks_per_group - 1) \div sb.blocks_per_group)
    % UINT32_MOD
gdt_start(sb) == (sb.first_data_block + 1) * block_size(sb)

supported(sb) ==
  /\ sb.image_size >= 2 * Unit /\ sb.magic
  /\ sb.log_bs <= 2 /\ sb.incompat \subseteq Allowed /\ sb.clean

\* Mutant: the descriptor table is not compared with the image.
consistent_no_gdt(sb) ==
  /\ sb.inodes_per_group # 0 /\ sb.blocks_per_group # 0
  /\ sb.inodes_count # 0 /\ sb.block_count # 0
  /\ inode_size(sb) >= INO_MIN_SIZE /\ inode_size(sb) <= block_size(sb) /\ is_pow2(inode_size(sb))
  /\ desc_size(sb) >= GD_SIZE_32 /\ desc_size(sb) <= block_size(sb)
  /\ sb.first_data_block = first_data_block(sb)
  /\ sb.block_count <= sb.image_size \div block_size(sb)
  /\ group_count(sb) * sb.inodes_per_group >= sb.inodes_count

consistent(sb) ==
  /\ sb.inodes_per_group # 0 /\ sb.blocks_per_group # 0
  /\ sb.inodes_count # 0 /\ sb.block_count # 0
  /\ inode_size(sb) >= INO_MIN_SIZE /\ inode_size(sb) <= block_size(sb) /\ is_pow2(inode_size(sb))
  /\ desc_size(sb) >= GD_SIZE_32 /\ desc_size(sb) <= block_size(sb)
  /\ sb.first_data_block = first_data_block(sb)
  /\ sb.block_count <= sb.image_size \div block_size(sb)
  /\ group_count(sb) * sb.inodes_per_group >= sb.inodes_count
  /\ gdt_start(sb) + group_count(sb) * desc_size(sb) <= sb.image_size

probe(sb) ==
  IF ~supported(sb) THEN "BAD_MAGIC" ELSE IF ~consistent(sb) THEN "CORRUPT_DATA" ELSE "SUCCESS"

(***************************************************************************)
(* Where things are                                                        *)
(***************************************************************************)
\* Byte of the descriptor of the group of inode ino.
descriptor_at(sb, ino) ==
  gdt_start(sb) + ((ino - 1) \div sb.inodes_per_group) * desc_size(sb)

\* Byte of inode ino when its group's table starts at block `table`.
inode_at(sb, ino, table) ==
  table * block_size(sb) + ((ino - 1) % sb.inodes_per_group) * inode_size(sb)

table_ok(sb, ino, table) ==
  /\ table # 0 /\ table < sb.block_count
  /\ inode_at(sb, ino, table) + inode_size(sb) <= sb.image_size

\* inode_ptr is not NULL.
has_inode(fs, ino) ==
  /\ ino # 0 /\ ino <= fs.sb.inodes_count
  /\ table_ok(fs.sb, ino, fs.tables[((ino - 1) \div fs.sb.inodes_per_group) + 1])

fs_block(fs, b) ==
  b # 0 /\ b < fs.sb.block_count /\ (b + 1) * block_size(fs.sb) <= fs.sb.image_size

(***************************************************************************)
(* Collecting extents.  A list under construction is a record: ok is FALSE *)
(* when the file is to be skipped.                                         *)
(***************************************************************************)
Skip == [ok |-> FALSE, v |-> << >>]
Collected(v) == [ok |-> TRUE, v |-> v]

joins(last, logical, physical) ==
  last.logical + last.count = logical /\ last.physical + last.count = physical

extent_append(out, logical, physical, count) ==
  LET n == Len(out.v)
  IN IF count = 0 THEN out
     ELSE IF n > 0 /\ joins(out.v[n], logical, physical)
     THEN Collected([out.v EXCEPT ![n].count = @ + count])
     ELSE IF n >= MAX_EXTENTS_PER_FILE THEN Skip
     ELSE Collected(Append(out.v, [logical |-> logical, physical |-> physical, count |-> count]))

\* A leaf entry; one that is unwritten has no content.
leaf(fs, out, e) ==
  IF e.len = 0 \/ e.unwritten THEN out
  ELSE IF e.phys = 0 \/ e.phys + e.len > fs.sb.block_count THEN Skip
  ELSE extent_append(out, e.logical, e.phys, e.len)

\* A node has a depth and entries; expect is -1 for the root.  A block with
\* a bad magic, or with more entries than it has room for, is not a node.
RECURSIVE extents_from_node(_, _, _, _)
extents_from_node(fs, node, expect, out) ==
  LET entry(acc, e) ==
        IF ~acc.ok THEN acc
        ELSE IF node.depth = 0 THEN leaf(fs, acc, e)
        ELSE IF ~fs_block(fs, e.child) THEN Skip
        ELSE extents_from_node(fs, fs.blocks[e.child], node.depth - 1, acc)
  IN IF \/ node.type # "node" \/ node.depth > EXTENT_MAX_DEPTH
        \/ expect >= 0 /\ node.depth # expect
     THEN Skip
     ELSE FoldLeft(entry, out, node.entries)

\* Blocks under a pointer of this level.
span(level) == IF level = 0 THEN 1 ELSE Per^level

\* Mutant: a hole of an indirect pointer is one block long.
hole_span_one(level) == 1

hole_span(level) == span(level)

\* acc has the list and the next logical block.
RECURSIVE blockmap_indirect(_, _, _, _, _)
blockmap_indirect(fs, ptr, level, remaining, acc) ==
  LET below(a, p) ==
        IF ~a.out.ok \/ remaining <= a.logical THEN a
        ELSE blockmap_indirect(fs, p, level - 1, remaining, a)
      skipped == [acc EXCEPT !.out = Skip]
  IN IF remaining = 0 THEN acc
     ELSE IF ptr = 0 THEN [acc EXCEPT !.logical = @ + hole_span(level)]
     ELSE IF level = 0
     THEN IF ptr >= fs.sb.block_count THEN skipped
          ELSE [out |-> extent_append(acc.out, acc.logical, ptr, 1), logical |-> acc.logical + 1]
     ELSE IF ~fs_block(fs, ptr) THEN skipped
     ELSE FoldLeft(below, acc, fs.blocks[ptr].ptrs)

\* The direct pointers, then one pointer of each level.
blockmap_collect(fs, iblock, blocks) ==
  LET level(i) == IF i <= Direct THEN 0 ELSE i - Direct
      top(a, i) ==
        IF ~a.out.ok \/ a.logical >= blocks THEN a
        ELSE blockmap_indirect(fs, iblock[i], level(i), blocks, a)
  IN IF blocks > MAX_FILE_BLOCKS THEN Skip
     ELSE FoldLeft(top, [out |-> Collected(<< >>), logical |-> 0], [i \in 1..Len(iblock) |-> i]).out

file_blocks(fs, inode) == (inode.size + block_size(fs.sb) - 1) \div block_size(fs.sb)

inode_extents(fs, inode) ==
  CASE inode.how = "inline" -> Collected(<< >>)
    [] inode.how = "extents" -> extents_from_node(fs, inode.root, -1, Collected(<< >>))
    [] inode.how = "map" -> blockmap_collect(fs, inode.iblock, file_blocks(fs, inode))

(***************************************************************************)
(* Directories                                                             *)
(***************************************************************************)
\* The entries of a block, up to one whose length is broken.
block_entries(fs, b) ==
  IF ~fs_block(fs, b) \/ fs.blocks[b].type # "dir" THEN << >>
  ELSE LET es == fs.blocks[b].entries
           broken == {i \in DOMAIN es : es[i].broken}
       IN IF broken = {} THEN es
          ELSE SubSeq(es, 1, (CHOOSE i \in broken : \A j \in broken : i <= j) - 1)

dir_entries(fs, ext) ==
  FlattenSeq([e \in 1..Len(ext) |->
    FlattenSeq([k \in 1..ext[e].count |-> block_entries(fs, ext[e].physical + k - 1)])])

\* The type byte of the entry, or the inode's mode where there is none.
entry_type(fs, de) ==
  IF "FILETYPE" \in fs.sb.incompat THEN de.ftype
  ELSE IF has_inode(fs, de.ino) THEN fs.inodes[de.ino].mode ELSE "unknown"
=============================================================================
