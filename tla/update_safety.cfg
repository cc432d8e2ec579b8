SPECIFICATION Spec
CONSTANTS
  MaxImages = 3
  MaxResets = 3
  Fallible <- EveryFault
  Flapping = TRUE
CHECK_DEADLOCK FALSE
INVARIANTS
  TypeOK
  AlwaysBootable
  ServesOnlyConfirmed
  CountersInStep
  OnlyAcceptedIsTried
  SuccessIsInstalled
  UpdateIsPursued
PROPERTIES
  ImplementsFailsafe
  ImplementsView
