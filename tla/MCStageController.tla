------------------------- MODULE MCStageController -------------------------
(* Bounded instances of the matching pipeline. *)
EXTENDS StageController

\* An image made of the given blocks and trailing bytes.
Glue(blocks, tail) ==
  [p \in 0..(Len(blocks) * BlockSize + Len(tail) - 1) |->
     IF p < Len(blocks) * BlockSize
     THEN blocks[(p \div BlockSize) + 1][(p % BlockSize) + 1]
     ELSE tail[p - Len(blocks) * BlockSize + 1]]

\* Images of 2-byte blocks over the bytes 0, 1 and 2 (2 plays 0xFF).  What
\* follows the blocks of a destination prefix lies further away in the source
\* than the search radius; a byte trails the last block of the source.
MCSrcImages ==
  {Glue(<<<<0, 0>>, <<2, 2>>, <<0, 1>>, d>>, <<1>>) : d \in {<<1, 0>>, <<1, 2>>}}
  \cup {Glue(<<<<1, 0>>, <<0, 1>>, <<0, 0>>, <<0, 1>>>>, <<1>>)}
MCDestImages ==
  {Glue(<<a, b>>, << >>) : a \in {<<0, 1>>, <<1, 1>>, <<2, 2>>},
                           b \in {<<1, 0>>, <<1, 1>>, <<0, 0>>}}

MCAllOptions == [Stage -> BOOLEAN]

\* Every block has one of two CRCs, so that collisions are common.
MCCrcOf == [b \in Block |-> (b[0] + b[1]) % 2]
=============================================================================
