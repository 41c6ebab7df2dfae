CONSTANTS
  Unit = 2
  INO_MIN_SIZE = 2
  GD_SIZE_32 = 2
  UINT32_MOD = 16
  Direct = 2
  Per = 2
  EXTENT_MAX_DEPTH = 1
  MAX_EXTENTS_PER_FILE = 3
  MAX_FILE_BLOCKS = 20
  bucket_count = 1
  Images <- MCImages
  Paths <- MCPaths
  PathCrc <- MCPathCrc
  BlockSize = 4
  BadNames = {".", ".."}
  MAX_DIR_DEPTH = 1
  MaxNames = 2
  MaxMatched = 1
  MaxStarved = 1
SPECIFICATION Spec
INVARIANTS
  HypothesesSound
  HypothesesComplete
  OnePerBlock
  EachDirOnce
  ExtentListExact
  NoReadOutside
