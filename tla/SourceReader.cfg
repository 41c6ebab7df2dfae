CONSTANTS
  SIZE_MAX = 15
  SrcSizes = {0, 5}
  Dirties = {{}, {1}}
  Align = 2
  ScratchSize = 4
  PageSize = 4
  Offsets = {0, 3, 15}
  Lengths = {0, 2, 4, 15}
  MaxCalls = 3
  MaxInterrupts = 1
SPECIFICATION Spec
INVARIANTS
  DirectReadsExact
  AutoReadsDisk
  AllReleased
PROPERTIES
  CallsEnd
CHECK_DEADLOCK FALSE
