------------------------------ MODULE MCFsmap ------------------------------
(***************************************************************************)
(* Images for FsmapIndex.  Block 1 holds the inodes, 2 and 3 directories,  *)
(* 4, 5 and 11 nodes or pointers, the rest data.  Inodes 2 and 3 are       *)
(* directories, 4 and 5 files, 6 is neither.  Sizes are in blocks until    *)
(* Fs makes bytes of them.                                                 *)
(***************************************************************************)
EXTENDS FsmapIndex

NoSuper == [image_size |-> 48, magic |-> TRUE, log_bs |-> 1, incompat |-> {"FILETYPE"},
            clean |-> TRUE, rev |-> 1, block_count |-> 12, inodes_count |-> 6,
            inodes_per_group |-> 6, blocks_per_group |-> 12, first_data_block |-> 0,
            inode_size |-> 2, desc_size |-> 2]

\* Small blocks, and no type bytes in the directories.
Fine == [NoSuper EXCEPT !.log_bs = 0, !.block_count = 24, !.first_data_block = 1,
                        !.blocks_per_group = 24, !.incompat = {}]
Coarse == NoSuper

E(l, n, p) == [logical |-> l, len |-> n, phys |-> p, unwritten |-> FALSE, child |-> 0]
C(b) == [logical |-> 0, len |-> 0, phys |-> 0, unwritten |-> FALSE, child |-> b]
Node(d, es) == [type |-> "node", depth |-> d, entries |-> es, ptrs |-> << >>]
Pointers(ps) == [type |-> "map", depth |-> 0, entries |-> << >>, ptrs |-> ps]
Data == [type |-> "data", depth |-> 0, entries |-> << >>, ptrs |-> << >>]
Dir(es) == [type |-> "dir", depth |-> 0, entries |-> es, ptrs |-> << >>]
DE(name, ino, t) == [name |-> name, ino |-> ino, ftype |-> t, broken |-> FALSE]

ByExtents(mode, es) ==
  [mode |-> mode, how |-> "extents", root |-> Node(0, es), iblock |-> << >>, size |-> 0]
ByTree(d, children) ==
  [mode |-> "reg", how |-> "extents", root |-> Node(d, children), iblock |-> << >>, size |-> 0]
ByMap(size, ps) == [mode |-> "reg", how |-> "map", root |-> Data, iblock |-> ps, size |-> size]
Inline == [mode |-> "reg", how |-> "inline", root |-> Data, iblock |-> << >>, size |-> 3]
Device == [mode |-> "other", how |-> "inline", root |-> Data, iblock |-> << >>, size |-> 0]

\* The extra blocks a layout of file 4 needs, and its inode.
Layout(b4, b5, inode) == [b4 |-> b4, b5 |-> b5, inode |-> inode]
Unwritten(e) == [e EXCEPT !.unwritten = TRUE]

Layouts == {
  Layout(Data, Data, ByExtents("reg", <<E(0, 2, 6), E(2, 1, 8)>>)),
  Layout(Data, Data, ByExtents("reg", <<E(0, 1, 9), E(1, 2, 7)>>)),
  Layout(Data, Data, ByExtents("reg", <<E(0, 1, 6), Unwritten(E(1, 1, 7)), E(2, 2, 8)>>)),
  Layout(Node(0, <<E(0, 3, 7)>>), Node(0, <<E(4, 1, 6)>>), ByTree(1, <<C(4), C(5)>>)),
  Layout(Pointers(<<8, 9>>), Pointers(<<0, 0>>), ByMap(4, <<7, 0, 4, 0, 0>>)),
  Layout(Pointers(<<8, 9>>), Pointers(<<4, 0>>), ByMap(7, <<6, 7, 0, 5, 0>>)),
  Layout(Pointers(<<0, 11>>), Pointers(<<0, 4>>), ByMap(16, <<6, 0, 0, 0, 5>>)) }

\* Layouts the reader gives up on, or a file without blocks.
OddLayouts == {
  Layout(Data, Data, Inline),
  Layout(Data, Data, ByExtents("reg", <<E(0, 1, 40)>>)),
  Layout(Node(1, <<C(4)>>), Data, ByTree(1, <<C(4)>>)),
  Layout(Data, Data, ByTree(1, <<C(60)>>)),
  Layout(Data, Data, ByMap(2, <<6, 40, 0, 0, 0>>)),
  Layout(Data, Data, ByMap(4, <<6, 7, 60, 0, 0>>)),
  Layout(Data, Data, ByMap(21, <<6, 0, 0, 0, 0>>)),
  Layout(Data, Data, ByExtents("reg", <<E(0, 1, 6), E(1, 1, 8), E(2, 1, 10), E(3, 1, 7)>>)) }

Small == ByExtents("reg", <<E(0, 1, 10)>>)

Dot == <<DE(".", 2, "dir"), DE("..", 2, "dir")>>
Bad(name) == [DE(name, 4, "reg") EXCEPT !.broken = TRUE]

\* Entries of the root and of directory 3.
Plain == <<Dot \o <<DE("a", 4, "reg"), DE("b", 3, "dir")>>, Dot \o <<DE("a", 5, "reg")>>>>
Linked == <<<<DE("b", 3, "dir"), DE("a", 5, "reg"), DE("c", 4, "reg")>>, <<DE("a", 4, "reg")>>>>
Cyclic == <<<<DE("b", 3, "dir"), DE("c", 3, "dir"), DE("a", 4, "reg")>>,
            <<DE("b", 2, "dir"), DE("a", 5, "reg"), DE("c", 3, "dir")>>>>
Odd == <<<<DE("c", 6, "other"), DE("b", 4, "dir"), DE("a", 3, "reg"), DE("b", 3, "dir")>>,
         <<DE("a", 9, "reg"), DE("c", 9, "dir"), DE("b", 4, "reg"), Bad("a"), DE("c", 5, "reg")>>>>
\* Two names for one file, and for two.
Twice == <<<<DE("a", 4, "reg"), DE("c", 4, "reg")>>, << >>>>
Apart == <<<<DE("a", 4, "reg"), DE("c", 5, "reg")>>, << >>>>
Trees == {Plain, Linked, Cyclic, Odd}

Fs(sb, tree, layout) ==
  [sb |-> sb, tables |-> [g \in 1..16 |-> IF sb.log_bs = 1 THEN 1 ELSE 2],
   inodes |-> [i \in 2..6 |->
     CASE i = 2 -> ByExtents("dir", <<E(0, 1, 2)>>)
       [] i = 3 -> ByExtents("dir", <<E(0, 1, 3)>>)
       [] i = 4 -> [layout.inode EXCEPT !.size = @ * block_size(sb)]
       [] i = 5 -> Small
       [] i = 6 -> Device],
   blocks |-> [b \in 1..23 |->
     CASE b = 2 -> Dir(tree[1]) [] b = 3 -> Dir(tree[2])
       [] b = 4 -> layout.b4 [] b = 5 -> layout.b5
       [] b = 11 -> Pointers(<<9, 8>>) [] OTHER -> Data]]

Straight == Layout(Data, Data, ByExtents("reg", <<E(0, 4, 6)>>))

\* Superblocks at and beyond the limits of the geometry.
Supers == {[NoSuper EXCEPT !.block_count = bc, !.inodes_per_group = ipg, !.blocks_per_group = bpg,
              !.inodes_count = n, !.desc_size = d, !.incompat = {"FILETYPE", "64BIT"}] :
             bc \in {0, 12, 13}, ipg \in {0, 1, 6}, bpg \in {0, 1, 12}, n \in {0, 7, 12}, d \in {1, 4, 5}}
  \cup {[NoSuper EXCEPT !.magic = FALSE], [NoSuper EXCEPT !.clean = FALSE], [NoSuper EXCEPT !.log_bs = 3],
        [NoSuper EXCEPT !.incompat = {"RECOVER"}], [NoSuper EXCEPT !.image_size = 3],
        [NoSuper EXCEPT !.inode_size = 3], [NoSuper EXCEPT !.inode_size = 8],
        [NoSuper EXCEPT !.rev = 0, !.inode_size = 7], [NoSuper EXCEPT !.first_data_block = 1]}
  \cup {[NoSuper EXCEPT !.image_size = 80, !.block_count = 20, !.blocks_per_group = 1,
           !.inodes_per_group = 2, !.inodes_count = n] : n \in {8, 9}}   \* 20 groups, cut to 4

Pair(s, d) == [src |-> s, dest |-> d]

MCImages ==
  {Pair(Fs(Coarse, Plain, l), Fs(sb, Plain, m)) : sb \in {Fine, Coarse}, l \in Layouts, m \in Layouts}
  \cup {Pair(Fs(Coarse, t, Straight), Fs(Fine, u, m)) : t \in Trees, u \in Trees, m \in Layouts}
  \cup {Pair(Fs(Fine, t, l), Fs(Coarse, t, Straight)) : t \in Trees, l \in OddLayouts}
  \cup {Pair(Fs(Coarse, t, l), Fs(Coarse, t, m)) : t \in {Plain, Odd}, l \in OddLayouts, m \in {Straight}}
  \cup {Pair(Fs(Coarse, t, Straight), Fs(Coarse, u, Straight)) : t \in {Twice, Apart}, u \in {Twice, Apart}}
  \cup {Pair(Fs(sb, Plain, Straight), Fs(Coarse, Plain, Straight)) : sb \in Supers}
  \cup {Pair(Fs(Coarse, Plain, Straight), Fs(sb, Plain, Straight)) : sb \in Supers}

MCPaths == UNION {[1..n -> {"a", "b", "c"}] : n \in 1..2}
MCPathCrc(p) == Len(p)
=============================================================================
