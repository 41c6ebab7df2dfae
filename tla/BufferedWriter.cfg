SPECIFICATION Spec
CONSTANTS
  BufferSize = 3
  Lengths = {1, 2, 4, 8}
  MaxBytes = 11
  MaxFailures = 2
INVARIANTS
  LossIsReported
PROPERTIES
  ImplementsLog
CHECK_DEADLOCK FALSE
