SPECIFICATION WorkerFairSpec
CONSTANTS
  t1 = t1
  t2 = t2
  c1 = c1
  c2 = c2
  db = db
  i1 = i1
  o1 = o1
  o2 = o2
  None = None
  Thread <- MCThreads
  Conn <- MCConns
  Database = db
  Interceptors <- MCInterceptors
  Outputs <- MCOutputs
  MinConnections = 1
  MaxConnections = 2
  Pulls = 2
  Losses = 1
  Tasks = 2
  AcceptMayFail = FALSE
  Word = 16
  Long = 16
  MaxVal = 3
  Cycle = FALSE
CHECK_DEADLOCK FALSE
INVARIANTS OneUser OwnParams UniqueUnlessLost 
 
