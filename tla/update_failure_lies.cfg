SPECIFICATION Spec
CONSTANTS
  MaxImages = 1
  MaxResets = 1
  Fallible <- NoFault
  Flapping = FALSE
INVARIANTS
  FailureIsNotInstalled
