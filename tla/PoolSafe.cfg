SPECIFICATION Spec
CONSTANTS
  Thread = {a, b, c}
  Task = {k1, k2, k3, k4}
  MinThreads = 1
  MaxThreads = 2
  Seed = 1
  RetryTimes = 1
  CreateMayFail = TRUE
  MayStop = TRUE
  LateTasks = TRUE
  Resize <- AnyResize
  None = None
SYMMETRY Symmetry
CHECK_DEADLOCK FALSE
INVARIANTS SlotsOwned WithinLimits TaskOnce NoSleepOverWork
