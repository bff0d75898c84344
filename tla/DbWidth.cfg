SPECIFICATION Spec
CONSTANTS
  t1 = t1
  t2 = t2
  c1 = c1
  c2 = c2
  None = None
  Thread <- MCThreads
  Conn <- MCConns
  MinConnections = 1
  MaxConnections = 2
  Pulls = 4
  Losses = 0
  Word = 16
  Long = 4
  MaxVal = 15
  Cycle = TRUE
CHECK_DEADLOCK FALSE
INVARIANTS Unique
