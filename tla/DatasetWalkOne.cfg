SPECIFICATION FairSpec
CONSTANTS
  Root = Root
  Names <- OneNames
  Parent <- OneParent
  Depth <- OneDepth
  Kind <- OneKind
  Pos <- OnePos
  MaxBailouts = 1
PROPERTIES
  FairContract
  EndDrawsNear
