SPECIFICATION Spec
CONSTANTS
  U64Max = 31
  MaxMembers = 3
  Side = 2
  HeadShapes <- MCHeadShapes
  Heads <- MCHeads
  Members <- MCMembers
INVARIANTS
  NoCellHasTwoOwners
  CoverageIsExact
  OverlayBaseShowsThrough
CHECK_DEADLOCK FALSE
