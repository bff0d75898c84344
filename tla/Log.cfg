SPECIFICATION Spec
CONSTANTS
  a = a
  b = b
  c = c
  p1 = p1
  p2 = p2
  None = None
  Process <- MCProcesses
  Thread <- MCThreads
  Owner <- MCOwner
  RotateSize = 3
  Factor = 2
  FileCount = 9
  Lines = 8
  Renewals = 1
  Failures = 1
INVARIANTS Kept 
SYMMETRY Perms
