SPECIFICATION Spec
CONSTANTS
  Bank = 12
  Sector = 6
  Buf = 3
  Block = 2
  Progressive = FALSE
  MaxTransfers = 3
  Faults <- EveryFault
CHECK_DEADLOCK FALSE
INVARIANTS
  CompleteIsAccepted
  NothingOlder
