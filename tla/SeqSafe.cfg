SPECIFICATION Spec
CONSTANTS
  Server = {s1, s2}
  Thread = {t1, t2}
  Worker = {w1}
  Count <- MixedCount
  BatchFactor = 2
  Rule <- ConsoleRules
  StartVal = 0
  Modulus = 64
  CommitMayFail = FALSE
  TaskMayFail = FALSE
  NoRange = NoRange
SYMMETRY Symmetry
INVARIANTS TypeOK NoDuplicate EndReached
PROPERTIES LedgerSpec
