SPECIFICATION Spec
CONSTANTS
  BlockSize = 4
  ByteMod = 4
  SrcSize = 14
  DestBlocks = 2
  CrcOf <- MCCrcOf
  NoDelta = NoDelta
  FieldBase = 4
  InlineMax = 2
  VarintBase = 2
  VarintMaxLen = 4
  SizeMod = 8
  SparseThreshold = 3
  Inputs <- MCDamageInputs
  Faults <- MCFaults
  DamagedOpBytes <- MCDamagedOpBytes
  DamagedDiffBytes <- MCDamagedDiffBytes
INVARIANTS
  RoundTrip
  DamageContained
  CutDetected
  OutputCleanedUp
PROPERTIES
  Termination
CHECK_DEADLOCK FALSE
