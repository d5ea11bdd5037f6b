SPECIFICATION FairSpec
CONSTANTS
  a1 = a1
  a2 = a2
  a3 = a3
  shared = shared
  foreign = foreign
  tA = tA
  tB = tB
  NoTenant = noTenant
  Chunks <- MCChunks
  Near <- MCNear
  Blank = {}
  Size <- MCSize
  Separator = 1
  Tenants = {tA, tB}
  Callers = {tA}
  Owner <- MCOwner
  Queries <- MCQueries
  MinLength = 2
  MaxLength = 10
  GuardEnabled = TRUE
  HighRisk = 85
  DefaultTopK = 3
  DefaultRerankK = 2
  TopFloor <- MCTopFloor
  KeepFloor <- MCKeepFloor
  KeepCap <- MCKeepCap
  MaxTokens = 6
  MaxChunks = 3
  Sentences <- MCSentences
  MaxSentences = 2
  Qualities = {3, 90}
  Declared = {{}, {9}}
  GroundingThreshold = 75
  ConfidenceThreshold = 70
INVARIANTS
  OwnTenantOnly
  PromptSound
  GroundedIsCited
  ScreenShowsAnswer
  StreamCitesContext
PROPERTIES
  QueryEnds
