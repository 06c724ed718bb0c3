SPECIFICATION OverlapSpec
CONSTANTS
  Deployments = {d1, d2}
  App = app
  Workers = {w1, w2}
  NoWorker = NoWorker
  MayWedge = TRUE
  MaxJobs = 3
  MaxCrashes = 1
  MaxAttempts = 2
  Requests = {c1}
  MaxReleases = 2
  Artifacts = {a1, a2}
  BuildWorkers = {v1, v2}
  MaxBuilds = 2
  Rollouts = {r1, r2}
  Admins = {m1}
  ProductNames = {"n1", "n2"}
  SlugOf <- MCSlugs
  Documents <- MCDocuments
  FirstImage = {}
  InitialProducts <- MCProducts
  InitialTemplates <- MCTemplates
  MaxProducts = 3
  MaxTemplates = 4
  MaxImages = 2
  MaxStarts = 2
  MaxAdminWrites = 2
  Secrets = {s1, s2}
  FirstSecret = s1
  Servers = {p1, p2}
  NoSecret = NoSecret
  BatchSize = 1
  MaxStored = 2
  MaxEdits = 3
  MaxSweeps = 1
  People = {k1, k2}
  k1 = k1
  k2 = k2
  e1 = e1
  e2 = e2
  Callers <- MCCallers
  Nobody = Nobody
  Emails = {e1, e2}
  Handles = {h1}
  NoHandle = NoHandle
  Labels = {l1}
  Fingerprints = {f1}
  Calls = {x1, x2}
  MaxUsers = 2
  MaxApps = 1
SYMMETRY Symmetry
CHECK_DEADLOCK FALSE
INVARIANTS
  OneLeaseHolder
  NeverStranded
  ClaimedOnce
  AccountsAreSound
PROPERTIES
  StaleReportsChangeNothing
  CatalogHolds
  SecretsStayReadable
