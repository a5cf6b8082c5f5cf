SPECIFICATION TerminalSpec
CONSTANTS
  MaxPrompts = 2
  MaxSessions = 2
  MaxOthers = 1
  MaxKeys = 3
INVARIANTS
  OneStartAtATime
\* the bounds end the run
CHECK_DEADLOCK FALSE
