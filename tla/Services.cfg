SPECIFICATION ServicesSpec
CONSTANTS
  p1 = p1
  p2 = p2
  f1 = f1
  f2 = f2
  m1 = m1
  m2 = m2
  x = x
  loc = loc
  tk = tk
  ro = ro
  q = q
  fa = fa
  fb = fb
  fc = fc
  main = main
  axiom = axiom
  t1 = t1
  t2 = t2
  Absent = Absent
  NoItem = NoItem
  Partial = Partial
  Paths <- ThreePaths
  Branches <- TwoBranches
  base = main
  work = axiom
  Items <- TwoItems
  Initial <- TwoOfThree
  targets <- TargetFiles
  Covers <- SomeCovers
  Manifests <- SomeManifests
  Faults = {"head", "diff", "remove", "copy", "add", "commit"}
  MaxTries <- OneAndTwo
  MaxFaults = 1
  MaxCrashes = 1
  MaxCancels = 1
  Publishers <- Two
  Buffer = 1
  MaxEvents = 2
  MaxSubscriptions = 3
  None = None
  Terminals <- Two
  Keep = 1
  MaxSessions = 2
  MaxMessages = 2
  MaxCompactions = 1
  MaxRuns = 2
  MaxInputs = 3
  Files <- Two
  Versions = {0, 1, 2}
  MaxMerges = 2
  MaxRefreshes = 2
  MaxIndexCrashes = 1
  EcoRuns <- TwoRuns
  EcoClients <- Two
  NoOrder = NoOrder
  MaxOrders = 3
  Tasks <- Two
  Models <- ThreeModels
  Price <- ModelPrice
  Tier <- ModelTier
  TaskTier = 1
  TokenCap = 1
  Prompt = 1
  Endless = 2
  MaxUSD = 2
  MaxRequestsTask = 2
  MaxAttempts = 2
  Tokens = {tk, ro}
  ReadOnly = {ro}
  Conns <- Two
  ApiKeys = {q}
  Window = 2
  CleanEvery = 1
  RPM = 2
  MaxTime = 3
  MaxEffects = 2
  Ids = {m1, m2, x, loc}
  Tiers = {0, 1, 2}
  Family <- ModelFamily
  Shipped <- ShippedModels
  Prices = {0, 1, 2}
  LocalIds = {loc}
  MaxOpens = 3
  NoModel = NoModel
  GoFiles = {fa, fb, fc}
  Dir <- FileDir
  TopDir = "."
  Contents <- SomeContents
  GoMod = TRUE
  NoRow = NoRow
  MaxChanges = 2
  MaxRebuilds = 2
  Runs <- TwoRuns
  Batches <- SomeBatches
  Clients = {x}
  Specs <- ClientSpecs
  NoTask = NoTask
  MaxCalls = 2
  MaxInsertFaults = 1
  MaxRunChanges = 1
  SpecFiles = {fa, fb}
  Path <- FilePath
  SensitiveNames = {".env"}
  ExcludedNames = {".env"}
  Root <- ProjectRoot
  Texts <- SomeTexts
  Objectives <- SomeObjectives
  SRSRefs = TRUE
  LocalModel = TRUE
  ForceLocal = TRUE
  NoText = NoText
  MaxSpecs = 3
  MaxRequests = 2
  NoRun = NoRun
  Focus = {"merge", "eco", "broker", "feed", "transcript", "terminal", "control", "models", "index", "graph", "creation", "packaging"}
SYMMETRY Symmetric
CHECK_DEADLOCK FALSE
INVARIANTS
  ServicesTypeOK
  TreeIsClean
  OrdersOnFile
  BudgetBound
  FeedFaithful
  TranscriptKept
  TerminalFaithful
  ClientsServed
  ChargesAgree
  IndexCurrent
  GraphFaithful
  RetryToldWhy
PROPERTIES
  CommitIsOutput
  NoLostUpdate
