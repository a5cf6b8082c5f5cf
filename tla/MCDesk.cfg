SPECIFICATION DeskSpec
CONSTANTS
  g = g
  Windows = {w1, w2}
  Gateways = {g}
  Offered <- FourModels
  Sketches <- SomeSketches
  Imports <- OneImport
  NoModel = 0
  NoGateway = NoGateway
  MaxRevision = 3
  GraphAgents = {n1, n2}
  Primary = n1
  GraphSpecialists = {n3}
  Works = {j1, j2}
  GraphTools = {t}
  MaxActive = 2
  MaxPrompts = 2
  MaxSessions = 2
  MaxOthers = 1
  MaxKeys = 3
  StoredPrompts = 2
  RowsPerPage = 1
  MaxWritten = 2
  MaxLookups = 3
  MaxPickers = 2
SYMMETRY WorkIds
INVARIANTS
  DeskTypeOK
  NoLostRevision
  AnswersAreTruthful
  DraftsMeanTheirTeam
  GraphShowsTheWork
  PromptsHaveOnePlace
  ComposerIsReleased
  LateAnswersAreHarmless
PROPERTIES
  LookupsStepByOne
\* the bounds end every part's run
CHECK_DEADLOCK FALSE
