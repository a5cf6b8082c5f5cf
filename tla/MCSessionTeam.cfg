INIT TeamInit
NEXT TeamNext
CONSTANTS
  a = a
  b = b
  NoAgent = NoAgent
  Agent <- TwoAgents
  Primary = a
  Peers <- EachOther
  Work <- ThreeWorks
  Consultation = {3}
  MaxTurns = 3
  MaxSteers = 1
  MaxRestarts = 0
  MaxFaults = 2
  UserMayCancel = TRUE
  OthersMayCancel = FALSE
INVARIANTS
  TypeOK
  NoLostWakeup
  ReadyWorkIsLaunched
  AnsweredOnce
  
PROPERTIES
  OneGoroutinePerWork
  StartsAfterPrerequisites
\* a settled session has nothing left to do
CHECK_DEADLOCK FALSE
