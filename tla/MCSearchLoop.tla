---------------------------- MODULE MCSearchLoop ----------------------------
(* Searches of one block in all short binary images. *)
EXTENDS SearchLoop

MCBlocks ==
  {[k \in BlockPos |-> k % 2], [k \in BlockPos |-> 0],
   [k \in BlockPos |-> IF k % 4 < 2 THEN 0 ELSE 1]}

\* Ranges around the own position, and after the match of a block before;
\* one that ends before the image does, one that begins before it.
MCSearches ==
  [src : SrcImage, size : {SrcSize, SrcSize - 1}, block : MCBlocks,
   center : {1}, lo : {-2, 0}, hi : {2}]
MCCrcOf == [b \in Block |-> 0]
=============================================================================
