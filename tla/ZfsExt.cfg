SPECIFICATION Spec
CONSTANTS
  t1 = t1
  t2 = t2
  Threads = {t1}
  MaxDepth = 3
  MaxBailouts = 2
  None = None
INVARIANTS
  TypeOK
  WalkedListIntact
  OwnDetails
