SPECIFICATION FairSpec
CONSTANTS
  Caller = {c1, c2}
  Pool = w
  Name = {a}
  h1 = h1
  h2 = h2
  Host = {h1, h2}
  Bad = Bad
  Url <- MCUrls
  ConnectTimeout = 4
  Timeout = 60
  FusingTime = 60
  ClientCache = 2
  ClientAlertDiff = 1
  Factor = 2
  Calls = 5
  Faults = 1
  None = None
CHECK_DEADLOCK FALSE
INVARIANTS NoneLost
PROPERTIES LedgerSpec OneHostEnough Returns
