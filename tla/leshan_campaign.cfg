SPECIFICATION ScriptSpec
CONSTANTS
  A = A
  B = B
  Client <- Two
  MaxThreads = 1
  Faults <- EveryFault
CHECK_DEADLOCK FALSE
INVARIANTS
  TypeOK
  CountIsThreads
  DownloadsBounded
  UpdatesAfterDownloads
  ExitZeroMeansHeld
PROPERTIES
  ImplementsCampaign
  AbortEnds
  CampaignEnds
