SPECIFICATION Spec
CONSTANTS
  t1 = t1
  t2 = t2
  Threads = {t1, t2}
  MaxDepth = 1
  MaxBailouts = 0
  None = None
INVARIANTS
  OwnDetails
