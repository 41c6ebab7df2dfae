SPECIFICATION Spec
CONSTANTS
  BlockSize = 8
  ByteMod = 2
  SrcSize = 10
  DestBlocks = 1
  CrcOf <- MCCrcOf
  ThresholdNum = 1
  ThresholdDen = 2
  PrescreenBlock = 8
  PrescreenLen = 2
  Searches <- MCSearches
INVARIANTS
  ReturnsBest
CHECK_DEADLOCK FALSE
