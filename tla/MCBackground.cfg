SPECIFICATION BackgroundSpec
CONSTANTS
  Deployments = {d1, d2}
  Workers = {w1, w2}
  NoWorker = NoWorker
  MayWedge = FALSE
  MaxJobs = 3
  MaxAttempts = 2
  MaxCrashes = 2
  Sources = {s1}
  Builds = {b1, b2}
  B1 = b1
  Window = 2
  Settle = 1
  Lookback = 9
  MaxPerPass = 2
  RunOf <- MCRunOf
  Rates <- MCRates
  NoSource = NoSource
  MaxTick = 7
  MaxFaults = 1
  Buckets = {1, 2}
  MaxWrites = 1
  MaxOutages = 1
  MaxTenantJobs = 2
  MaxResizes = 2
  MaxTenantFaults = 1
  Catalogs <- MCCatalogs
  Scopes = {"unset"}
  MaxRuns = 2
  MaxContainerRestarts = 1
  MaxCancels = 1
CHECK_DEADLOCK FALSE
INVARIANTS
  TypeOK
  OneWorkerPerDeployment
  AttemptsCountDeaths
  LedgerHolds
  SizesKeepUp
PROPERTIES
  AllGetsThere
  DatabasesHold
  RunsEndApart
