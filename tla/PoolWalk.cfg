SPECIFICATION FairSpec
CONSTANTS
  Pools <- MCPools
  Pos <- MCPos
  MaxBailouts = 2
INVARIANTS
  TypeOK
  HandlesAccounted
  InOrder
  Complete
PROPERTIES
  Contract
  FairContract
  EndDrawsNear
