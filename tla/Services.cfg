SPECIFICATION ServicesSpec
CONSTANTS
  Tools <- MCTools
  Offered <- MCOffered
  MaxSteps = 2
  Budgets <- MCBudgets
  MaxCalls = 2
  MaxCost = 1
  ToolInputs <- MCInputs
  MaxBlocks = 3
  MaxPieces = 2
  MaxSpoken = 2
  TokenCallers = {1, 2, 3}
  MaxTokenFetches = 3
  PluginNames = {"p", "q"}
  Fires = {1}
  Adders = {1, 2}
  MaxPlugins = 3
  Users = {1}
  RolePolicies <- MCPolicies
  WireRequests <- MCWire
  Capacity = 1
  Window = 2
  MaxClock = 2
  MaxCharge = 1
  MaxAdmitted = 2
  Served = {1}
  Models = {"m1", "m2"}
  OptionModel = "m1"
  Catalogued = {"m1"}
  ToolIds = {"t"}
  MaxChunks = 3
  MaxClients = 3
  Messages = {1, 2}
  Texts = {"sent", "respelled"}
  MaxAge = 1
  MaxSkew = 1
  MaxEntries = 2
  MaxTime = 2
  MaxAccepted = 4
  FailureThreshold = 1
  SuccessThreshold = 2
  HalfOpenMaxCalls = 1
  UnaryCalls = {1, 2, 3}
  UnaryRetries = 1
  Builtin <- MCBuiltin
  Customs <- MCCustoms
  MaxListed = 5
  Registrations <- MCRegistrations
  Wants <- MCWants
  Ids = {1, 2}
  SessionBudget = 5
  PerRequestBudget = 3
  Thresholds = {50, 75, 100}
  Costs = {1, 3}
  MaxSpent = 6
  Agreements <- MCAgreements
  Durations = {1, 2}
  RequestCosts = {2}
  MaxRecords = 2
  MaxNow = 2
  MaxEnded = 3
  AppListeners = {"f", "g"}
  MaxKept = 1
  MaxChanges = 3
  MaxEmissions = 2
  Calls = {1, 2}
  CacheKeys = {"k", "l"}
  Chains <- MCChains
  TimeToLive = 1
  MaxCached = 1
  MinDelay = 2
  MaxAgain = 1
  MaxTicks = 3
  Symbols <- MCSymbols
  Letters <- MCLetters
  Separators <- MCSeparators
  SentenceEnds <- MCSentenceEnds
  ChunkLimit = 2
  ChunkOverlap = 1
  Drafts <- MCDrafts
  Writings <- MCWritings
  Weight <- MCWeight
  TopK = 2
  MinScore = 60
  MaxContext = 7
  Ingests = {1, 2}
  Queries = {1}
INVARIANTS
  ServicesTypeOK
  AgentsGoverned
  CallsFaithful
  RevokedTokensBounded
  RegistryCoherent
  AccessGoverned
  ResponsesWhole
  ClientCalls
  ObservationTruthful
  PassagesWhole
CHECK_DEADLOCK FALSE
