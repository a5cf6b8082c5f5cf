SPECIFICATION Spec
CONSTANTS
  a = a
  b = b
  NoAgent = NoAgent
  Agent <- TwoAgents
  Primary = a
  Peers <- EachOther
  Work <- TwoDelegations
  Consultation = {}
  MaxTurns = 3
  MaxSteers = 0
  MaxRestarts = 0
  MaxFaults = 0
  UserMayCancel = FALSE
  OthersMayCancel = FALSE
INVARIANTS
  WaitsForAGoroutine
\* a settled session has nothing left to do
CHECK_DEADLOCK FALSE
