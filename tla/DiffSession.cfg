SPECIFICATION Spec
CONSTANTS
  MaxRuns = 2
  MaxChecks = 2
  MaxLen = 1
INVARIANTS
  PatchComplete
  AllReleased
  CancelHonoured
PROPERTIES
  OutputSafe
CHECK_DEADLOCK FALSE
