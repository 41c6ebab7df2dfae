SPECIFICATION Spec
CONSTANTS
  BlockSize = 1
  ByteMod = 4
  SrcSize = 35
  DestBlocks = 18
  CrcOf <- MCCrcOf
  NoDelta = NoDelta
  FieldBase = 2
  InlineMax = 1
  VarintBase = 2
  VarintMaxLen = 4
  SizeMod = 8
  SparseThreshold = 1
  Inputs <- MCRunInputs
  Faults <- MCNone
  DamagedOpBytes <- MCNone
  DamagedDiffBytes <- MCNone
INVARIANTS
  RoundTrip
  StreamsConsumed
  DiffFits
CHECK_DEADLOCK FALSE
