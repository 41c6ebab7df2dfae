SPECIFICATION Spec
CONSTANTS
  BlockSize = 2
  ByteMod = 4
  SrcSize = 45
  DestBlocks = 3
  CrcOf <- MCCrcOf
  NoDelta = NoDelta
  FieldBase = 2
  InlineMax = 1
  VarintBase = 2
  VarintMaxLen = 4
  SizeMod = 8
  SparseThreshold = 1
  Inputs <- MCZeroInputs
  Faults <- MCNone
  DamagedOpBytes <- MCNone
  DamagedDiffBytes <- MCNone
INVARIANTS
  SuccessMeansComplete
CHECK_DEADLOCK FALSE
