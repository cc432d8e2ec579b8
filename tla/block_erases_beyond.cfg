SPECIFICATION Spec
CONSTANTS
  Bank = 12
  Sector = 6
  Buf = 3
  Block = 2
  Progressive = TRUE
  MaxTransfers = 1
  Faults <- NoFault
CHECK_DEADLOCK FALSE
INVARIANTS
  ErasesOnlyBank
