SPECIFICATION FairSpec
CONSTANTS
  Thread = {a, b, c}
  Task = {k1, k2, k3}
  MinThreads = 1
  MaxThreads = 2
  Seed = 1
  RetryTimes = 0
  CreateMayFail = FALSE
  MayStop = TRUE
  LateTasks = FALSE
  Resize <- NoResize
  None = None
CHECK_DEADLOCK FALSE
 
PROPERTIES TaskRun StopEnds
