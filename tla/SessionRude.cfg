CONSTANTS
  s1 = s1
  s2 = s2
  w1 = w1
  w2 = w2
  None = None
  Session <- MCSessions
  Worker <- OneWorker
  KeepAlive <- MCKeepAlive
  Kinds = {"quick", "bad", "unknown", "task", "hang", "notify"}
  Requests = 1
  MaxTaskCount = 0
  Polite = FALSE
  Prompt = TRUE
  Late = TRUE
  KeysClash = FALSE
  TaskMayFail = TRUE
  MayExit = TRUE
SPECIFICATION Spec
INVARIANTS PoolKeeps NoStray
CONSTRAINT BeforeMisuse
CHECK_DEADLOCK FALSE
