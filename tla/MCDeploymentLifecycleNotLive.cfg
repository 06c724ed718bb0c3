SPECIFICATION Spec
CONSTANTS
  App = app
  Workers = {w1}
  NoWorker = NoWorker
  MayWedge = FALSE
  MaxJobs = 2
  MaxCrashes = 0
  MaxAttempts = 1
  Requests = {c1}
  HasDatabase = FALSE
  MaxReleases = 1
  MaxPowers = 0
INVARIANTS
  AppliedIsLive
