SPECIFICATION AccountsSpec
CONSTANTS
  People = {p1}
  Nobody = Nobody
  Emails = {e1}
  Callers <- OneCaller
  Handles = {h1}
  NoHandle = NoHandle
  Labels = {l1}
  Fingerprints = {f1}
  Calls = {c1}
  MaxUsers = 1
  MaxApps = 0
INVARIANTS
  KeysGoWithAccount
CHECK_DEADLOCK FALSE
