SPECIFICATION Spec
CONSTANTS
  Word = 2
  SIZE_MAX = 31
  HeapSize = 13
  Bases = {0, 2}
  chunk_size = 4
  Limits = {0, 9}
  Sizes = {0, 1, 3, 5, 31}
  Alignments = {1, 4}
  MaxResets = 1
INVARIANTS
  GrantsDisjoint
  PointersAligned
  WithinLimit
  UnresetFreesAll
CHECK_DEADLOCK FALSE
