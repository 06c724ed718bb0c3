SPECIFICATION RequestsSpec
CONSTANTS
  VarKeys = {k1, k2}
  VarValues = {v1}
  ChartValues = {"loose", "strict"}
  Declared <- MCDeclared
  Strict = {"strict"}
  VarWriters = {w1, w2}
  NoVarWriter = NoVarWriter
  MaxVars = 2
  MaxRequests = 3
  MaxNamed = 1
  MaxVarReleases = 2
  Envs = {"prod", "dev"}
  DefaultEnv = "prod"
  Hosts = {h1, h2}
  ArchiveSize = 2
  LogSize = 1
  MaxApps = 2
  MaxCommands = 2
  MaxOutside = 1
  NameOrder <- MCNames
  BigNames <- MCBig
  FullMarkers <- MCFull
  Commands <- MCCommands
  Parts <- MCParts
  PageSize = 2
  MaxPending = 2
  DeleteBatch = 2
  MaxStoreFaults = 1
  MaxAppWrites = 1
  Catalogs <- MCCatalogs
  Scopes = {"unset"}
  MaxRuns = 2
  MaxContainerRestarts = 1
  MaxCancels = 1
  Files <- MCFilesOf
  ProjectFile <- MCProjectFile
  HardNames = {"git"}
  DefaultNames = {"m"}
  DefaultFiles = {"swp"}
  RootIgnores <- MCRootIgnores
  NestedAt <- MCNestedAt
  NestedIgnores <- MCNestedIgnores
  FreepodIgnores <- MCFreepodIgnores
  B1 = b1
  B2 = b2
  B3 = b3
  B4 = b4
  OwnedApps = {d1}
  ImageBuilds = {b1, b2, b3, b4}
  ImageOf <- MCImageOf
  RetainedPast = 1
  MaxAppReleases = 4
  MaxPrunes = 1
SYMMETRY Symmetry
CHECK_DEADLOCK FALSE
INVARIANTS
  TransfersAreSound
  RunsKeepApart
  PacksAreRight
PROPERTIES
  VarsCompose
  CheckoutHolds
  RetentionHolds
