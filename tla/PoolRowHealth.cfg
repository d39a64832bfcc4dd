SPECIFICATION Spec
CONSTANTS
  UMod = 1024
  LMod = 32
  IMod = 512
  Absent = Absent
  Spaces <- MCSpaces
INVARIANTS
  OnlineMeansHealthy
