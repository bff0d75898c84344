SPECIFICATION FairSpec
CONSTANTS
  Server = {s1, s2}
  Thread = {t1}
  Worker = {w1}
  Count <- MixedCount
  BatchFactor = 2
  Rule <- SingleRules
  StartVal = 1
  Modulus = 64
  CommitMayFail = FALSE
  TaskMayFail = TRUE
  NoRange = NoRange
INVARIANTS OnePrefetch
PROPERTIES Answered PrefetchEnds
