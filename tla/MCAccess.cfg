SPECIFICATION AccessSpec
CONSTANTS
  Flows = {f1, f2}
  Apps = {a1}
  People = {p1, p2}
  Emails = {e0, e1}
  E0 = e0
  E1 = e1
  EmailOf <- MCEmailOf
  OwnerOf <- MCOwnerOf
  PkceApps = {a1}
  Nobody = Nobody
  NoFlow = NoFlow
  MaxEntries = 1
  MaxReleases = 1
  Tabs = {t1, t2}
  Logins = {l1, l2}
  SessionTTL = 2
  CodeTTL = 2
  ConsentTTL = 3
  EndedRetention = 2
  EndedLookback = 1
  SignInRetention = 2
  LoginLifespan = 2
  TxTimeout = 1
  TokenAge = 1
  MaxClock = 4
  MaxRestarts = 1
  MaxRotations = 1
  TailLines = 1
  DefaultTail = 2
  Batch = 2
  BatchFactor = 2
  MaxStreams = 2
  Attempts = 1
  MaxLines = 3
  MaxDrops = 2
  Writer = c1
  Leaver = c2
  Guest = c3
  Commands = {c1, c2, c3}
  EnvOf <- MCEnvOf
  KindOf <- MCKindOf
  Safe = {c3}
  Nonmember = {"dev"}
  MaxSends = 2
  MaxNetFaults = 2
  MaxRevocations = 1
  MaxExpiries = 1
CHECK_DEADLOCK FALSE
INVARIANTS
  SignInsAreSound
  StreamsAreExact
  SignOutsHold
  ClientHolds
PROPERTIES
  AllComeThrough
