SPECIFICATION ServicesSpec
CONSTANTS
  here = here
  there = there
  reader = reader
  Process <- TwoProcesses
  Subscriber <- OneSubscriber
  Home <- AllAtP
  From <- FromStart
  MaxEvents = 3
  SourcesMayFail = FALSE
  ToolCalls = {c1, c2}
  MaxProcesses = 1
  MaxOutput = 2
  PageBytes = 1
  ModelLimits <- SmallWindow
  HeaderSize = 1
  InstructionSize = 1
  MessageSizes = {1, 3}
  NamedCeilings = {0, 5}
  RetryDelays = {1, 2}
  MaxMessages = 8
  Turns = {t1, t2}
  Foreign = {f1}
  MaxTurnEvents = 2
INVARIANTS
  ServicesTypeOK
  LosesOnlyOvertaken
  RequestsStayValid
  GraphFollowsTheLedger
PROPERTIES
  CatchesUp
  NobodyWaitsForever
  DroppedIsArchived
  WindowCatchesUp
\* the bounds and a failed run end a part's steps
CHECK_DEADLOCK FALSE
