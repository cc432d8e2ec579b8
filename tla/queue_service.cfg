SPECIFICATION LiveSpec
CONSTANTS
  NetEvent = NetEvent
  TestResult = TestResult
  MainThread = MainThread
  NetMgmt = NetMgmt
  Engine = Engine
  Work <- Items
  Thread <- Threads
  Main <- MainThread
  None = None
INVARIANTS
  TypeOK
  LinkedOnce
  NoLostSubmission
PROPERTIES
  SubmittedIsCalled
  ImplementsService
