SPECIFICATION Spec
CONSTANTS
  BlockSize = 2
  ByteMod = 3
  SrcSize = 9
  DestBlocks = 2
  CrcOf <- MCCrcOf
  NoDelta = NoDelta
  ThresholdNum = 1
  ThresholdDen = 2
  PrescreenBlock = 1024
  PrescreenLen = 128
  bucket_count = 1
  SrcImages <- MCSrcImages
  DestImages <- MCDestImages
  Options <- MCAllOptions
  SearchRadius = 1
  CancelInterval = 2
INVARIANTS
  MatchSound
  PartialMeetsThreshold
  RelocationComplete
  StatsExact
PROPERTIES
  MatchStable
  ProgressMonotone
  CancelStopsLaterStages
  Advances
