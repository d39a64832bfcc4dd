SPECIFICATION Spec
CONSTANTS
  Root = Root
  Names <- MCNames
  Parent <- MCParent
  Depth <- MCDepth
  Kind <- MCKind
  Pos <- MCPos
  MaxBailouts = 1
INVARIANTS
  TypeOK
  HandlesAccounted
  NoDuplicates
  DepthFirst
  RecursionBounded
  ListedExisted
  Complete
PROPERTIES
  Contract
