CONSTANTS
  s1 = s1
  s2 = s2
  w1 = w1
  w2 = w2
  None = None
  Session <- MCSessions
  Worker <- MCWorkers
  KeepAlive <- MCKeepAlive
  Kinds = {"quick", "bad", "unknown", "task", "hang"}
  Requests = 2
  MaxTaskCount = 1
  Polite = TRUE
  Prompt = TRUE
  Late = FALSE
  KeysClash = FALSE
  TaskMayFail = FALSE
  MayExit = FALSE
SPECIFICATION FairSpec
INVARIANTS UseLive Custody
PROPERTIES Answered IdleClosed
CHECK_DEADLOCK FALSE
