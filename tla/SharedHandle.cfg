SPECIFICATION Spec
CONSTANTS
  Root = Root
  None = None
  Names <- MCNames
  Parent <- MCParent
  Level <- MCLevel
  Kind <- MCKind
  Pos <- MCPos
  MaxBailouts = 1
INVARIANTS
  TypeOK
  HeldOnlyByInnermost
  WarningsAreOwn
PROPERTIES
  KeepsDatasetWalk
  KeepsPoolWalk
  KeepsZfsExt
  OuterContract
