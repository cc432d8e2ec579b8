SPECIFICATION LiveSpec
CONSTANTS
  MaxImages = 3
  MaxResets = 3
  Fallible <- IgnoredErrors
  Flapping = TRUE
PROPERTIES
  UpdateResolves
