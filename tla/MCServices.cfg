SPECIFICATION ServicesSpec
CONSTANTS
  w1 = w1
  a1 = a1
  a2 = a2
  d1 = d1
  t1 = t1
  s1 = s1
  p1 = p1
  p2 = p2
  p3 = p3
  NoClient = NoClient
  Writers <- MCWriters
  Appends <- MCAppends
  Deletes <- MCDeletes
  QueueSize = 1
  MaxVersion = 2
  MaxObjects = 2
  MaxErrors = 1
  MaxActorObjects = 2
  MaxRecords = 2
  MaxMail = 1
  MaxFirings = 3
  MaxRequests = 4
  MaxCrashes = 2
  Endpoints <- MCEndpoints
  Routes <- MCRoutes
  MaxMessages = 3
  Attempts <- MCAttempts
  MaxEdits = 3
  MaxCallbacks = 2
  Names <- MCEndpoints
  DefaultEndpoint = "e1"
  MaxChanges = 3
  Shares <- MCShares
  Procs <- MCProcs
  NoProc = NoProc
  LastVersion = 2
  Plain <- MCPlain
  MaxKills = 1
  MaxCalls = 2
  MaxPieces = 2
  MaxRuns = 1
  Window = 2
  MaxDialogueCalls = 3
  MaxInputs = 2
  LegacyItems <- MCItems
  LegacyMessages <- MCMessages
  MaxImports = 3
  MaxUses = 2
  Kept <- MCKept
  BytesOf <- MCSizes
  MaxSize = 1
  ManualTtl = 2
  PendingRetention = 2
  DeliveredRetention = 1
  MaxTime = 4
  SkillIds <- MCSkills
  Builtins <- MCBuiltins
  Labels <- MCLabels
  DefaultName = "n1"
  MaxCatalogEdits = 4
  Shells <- MCShares
  MaxThreads = 3
  MaxOutput = 1
  MaxInput = 1
  MaxCancels = 2
  Asks <- MCPair
  NoAsk = NoAsk
  NoThread = NoThread
  Resumed = Resumed
  LastPage = 2
  Pages <- MCPair
  KvKeys <- MCKeys
  StemOf <- MCStems
  Hearers <- MCShares
  EventQueue = 2
  MaxEvents = 4
INVARIANTS
  ReturnedIsDurable
  ClientCatchesUp
  LiveActorListens
  RowTellsTheActor
  OneShotActsOnce
  OneVoice
  ChainCoversInputs
  AliasesResolve
  CopiesAreWhole
  ServesWholeSchema
  StaleOnlyAfterKill
  ShowsWhatWasSaid
  RequestsAreAnswered
  ImportIsWhole
  ResultsAreKept
  RestartKeepsCatalog
  EndIsWhole
  OneThread
  NoEditLost
  MissedIsDisplaced
PROPERTIES
  AppendsInOrder
  SucceededIsFinal
CHECK_DEADLOCK FALSE
