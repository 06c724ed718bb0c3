SPECIFICATION DeploymentsSpec
CONSTANTS
  App = app
  Workers = {w1, w2}
  NoWorker = NoWorker
  MayWedge = FALSE
  MaxJobs = 4
  MaxCrashes = 1
  MaxAttempts = 2
  Requests = {c1, c2}
  HasDatabase = FALSE
  MaxReleases = 3
  MaxPowers = 2
  Hooks = {h1, h2}
  OwnerEdits = FALSE
  MaxRenewals = 1
  Artifacts = {a1, a2}
  BuildWorkers = {v1}
  Archives <- MCArchives
  MaxArchive = 2
  MaxEntries = 2
  MaxExtracted = 3
  Levels = {0, 2}
  KeepsPeak = FALSE
  MaxErrorChars = 4
  MessageCap = 8
  FrameSize = 1
  UsageSize = 2
  MaxTicks = 2
  MaxTransient = 1
  Allowances = {0, 1, 2}
  KeyIds = {1, 2, 3}
  MaxStorageJobs = 3
  MaxStorageFaults = 2
  MaxRuleWrites = 1
SYMMETRY Symmetry
INVARIANTS
  RowIsTrue
  OutcomesAgree
  BillingAgrees
  BuildsReportTruly
  JobsMatchRows
PROPERTIES
  StorageHolds
  FinalIsFinal
  UsesTheQueue
  RowsOnlyGrow
