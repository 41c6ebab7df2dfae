SPECIFICATION Spec
CONSTANTS
  MaxRuns = 2
  MaxChecks = 2
  MaxLen = 1
INVARIANTS
  FilesClosed
CHECK_DEADLOCK FALSE
