SPECIFICATION Spec
CONSTANTS
  t1 = t1
  t2 = t2
  Threads = {t1, t2}
  MaxDepth = 2
  MaxBailouts = 1
  None = None
INVARIANTS
  HandleLive
  WalksCounted
PROPERTIES
  Contract
