SPECIFICATION ProgressSpec
CONSTANTS
  App = app
  Workers = {w1, w2}
  NoWorker = NoWorker
  Requests = {c1}
  Hooks = {h1}
  Payer = w1
  Artifacts = {a1, a2}
  BuildWorkers = {v1}
  MaxInFlight = 1
  LogCap = 2
  Marker <- MCMarker
  EvictionLine <- MCEvictionLine
  MaxBuilds = 2
  MaxOutput = 0
  MaxWorkerCrashes = 1
INVARIANTS
  NothingBeforePayment
PROPERTIES
  KeepsItsPromise
  RequestsSettle
  PaymentsComeThrough
  BuildsEnd
