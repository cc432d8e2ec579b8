SPECIFICATION Spec
CONSTANTS
  KeySize = 2
  Word = 65536
  Zep1656 = TRUE
  S1 = S1
  S2 = S2
  Id1 = Id1
  Id <- Ids
  Token <- Tokens
  DefaultPsk <- Default
  SerialName = SerialName
  Erased = Erased
  Garbled = Garbled
  None = None
  Script <- Scripts
  Reading <- Warm
  Inverted = TRUE
  Faults <- EveryFault
INVARIANTS
  TypeOK
  AcknowledgedIsShown
  RegistersAsProvisioned
PROPERTIES
  ToggleInverts
