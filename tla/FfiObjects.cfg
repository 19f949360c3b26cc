SPECIFICATION Spec
CONSTANTS
  MaxCreated = 3
  MaxBuffers = 2
  Debug = TRUE
INVARIANTS
  PointersAreGood
  FreedExactlyOnce
CHECK_DEADLOCK FALSE
