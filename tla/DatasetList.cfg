SPECIFICATION ListSpec
CONSTANTS
  Absent = Absent
  Nobody = Nobody
  Root = Root
  Datasets <- MCDatasets
  TypeOf <- MCTypeOf
  Unreadable <- MCUnreadable
  Parent <- MCParent
  Depth <- MCDepth
  Pos <- MCPos
  MaxBailouts = 1
INVARIANTS
  TypeOK
  ReadsOpenHandle
  ArrayIsRight
PROPERTIES
  KeepsWalk
  KeepsRows
