SPECIFICATION FairSpec
CONSTANTS
  a = a
  b = b
  NoAgent = NoAgent
  Agent <- TwoAgents
  Primary = a
  Peers <- EachOther
  Work <- TwoDelegations
  Consultation = {}
  MaxTurns = 2
  MaxSteers = 1
  MaxRestarts = 0
  MaxFaults = 0
  UserMayCancel = TRUE
  OthersMayCancel = TRUE
PROPERTIES
  SignalServed
  CancelEndsRun
\* a settled session has nothing left to do
CHECK_DEADLOCK FALSE
