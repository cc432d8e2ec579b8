SPECIFICATION Spec
CONSTANTS
  Bank = 12
  Sector = 6
  Buf = 3
  Block = 2
  Progressive = TRUE
  MaxTransfers = 3
  Faults <- EveryFault
CHECK_DEADLOCK FALSE
INVARIANTS
  TypeOK
  NoOverwrite
  AcceptedIsWhole
PROPERTIES
  ErasesOneSectorMore
