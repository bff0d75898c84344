SPECIFICATION FairSpec
CONSTANTS
  Slots = 2
  Pid = {1, 2}
  MaxExit = 0
  NewCounts = {2}
  Reloads = 1
  Days = 1
  ForkMayFail = TRUE
  MayCrash = TRUE
INVARIANTS Accounted AskedItself
PROPERTIES StopEnds 
