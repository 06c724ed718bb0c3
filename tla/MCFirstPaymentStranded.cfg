SPECIFICATION BillingSpec
CONSTANTS
  App = app
  Workers = {w1}
  NoWorker = NoWorker
  MayWedge = FALSE
  MaxJobs = 2
  MaxCrashes = 0
  MaxAttempts = 2
  Requests = {c1}
  HasDatabase = FALSE
  MaxReleases = 2
  MaxPowers = 0
  Hooks = {h1}
  OwnerEdits = TRUE
  MaxRenewals = 0
PROPERTIES
  PaymentEnqueuesJob
