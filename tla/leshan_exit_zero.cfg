SPECIFICATION Spec
CONSTANTS
  A = A
  B = B
  Client <- One
  MaxThreads = 1
  Faults <- NoFault
CHECK_DEADLOCK FALSE
INVARIANTS
  ExitZeroMeansUpdated
