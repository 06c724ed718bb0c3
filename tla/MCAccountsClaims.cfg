SPECIFICATION AccountsSpec
CONSTANTS
  People = {p1}
  Nobody = Nobody
  Emails = {e1}
  Callers <- OneCaller
  Handles = {h1, h2}
  NoHandle = NoHandle
  Labels = {l1}
  Fingerprints = {}
  Calls = {c1, c2}
  MaxUsers = 1
  MaxApps = 0
PROPERTIES
  ClaimIsFinal
CHECK_DEADLOCK FALSE
