SPECIFICATION StoreSpec
CONSTANTS
  here = here
  there = there
  reader = reader
  late = late
  Process <- OneProcess
  Subscriber <- TwoSubscribers
  Home <- AllAtP
  From <- OneLate
  MaxEvents = 3
  SourcesMayFail = TRUE
  StoreProcesses = {p1, p2}
  CheckpointKeys = {k1, k2}
  CheckpointValues = {v1, v2}
  MaxVersions = 2
  EngineProcesses = {e1, e2}
  PageSize = 1
  MaxTurns = 2
  MaxClock = 2
  MaxRenames = 1
  Attempts = {a1, a2}
  Archivers = {a1}
  Texts = {x}
  RecordSizes = {2}
  Content <- ThreeCodePoints
  Rooms = {0, 3, 6}
  Requests = {0, 2}
  OpenHeader = 1
  MaxRecords = 3
  MaxReads = 1
  ViewProcesses = {e1, e2}
  ViewScopes = {c1, c2}
  MaxViewEvents = 3
  MaxEpochs = 2
  LeaderTurns = {l}
  Consultations = {c}
  Headers = {h1, h2}
  Snapshots = {d1, d2}
  MaxRequests = 2
  MaxRuns = 2
  ToolCalls = {c1, c2}
  MaxProcesses = 2
  MaxOutput = 1
  PageBytes = 1
INVARIANTS
  StoreTypeOK
  HistoryIsComplete
  ReadersMissNothing
  ExactSourcesAreReachable
  ReadsStayInScope
  EpochsAreInOrder
  SurfaceIsExact
  NothingIsLeftBehind
PROPERTIES
  OrderedStream
  VersionsAreAppendOnly
  SurfaceOnlyGrows
\* the bounds end every part's run
CHECK_DEADLOCK FALSE
