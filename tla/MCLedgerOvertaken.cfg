SPECIFICATION Spec
CONSTANTS
  here = here
  there = there
  reader = reader
  Process <- TwoProcesses
  Subscriber <- OneSubscriber
  Home <- AllAtP
  From <- FromStart
  MaxEvents = 3
  SourcesMayFail = FALSE
INVARIANTS
  NothingSkipped
\* the bound on events ends the run
CHECK_DEADLOCK FALSE
