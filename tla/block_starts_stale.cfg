SPECIFICATION Spec
CONSTANTS
  Bank = 12
  Sector = 6
  Buf = 3
  Block = 2
  Progressive = FALSE
  MaxTransfers = 2
  Faults <- GivenUp
CHECK_DEADLOCK FALSE
INVARIANTS
  StartsErased
