SPECIFICATION FairSpec
CONSTANTS
  U64Max = 31
  PrefixLen = 2
  MinDescriptorLen = 3
  CrossMachine = FALSE
  MaxCalls = 2
  MaxCancels = 1
  MaxHiccups = 1
  Capacity = 3
  Writers = {"w1", "w2"}
  Readers = {"r1"}
  AwaitCancelled = TRUE
  MaxDescriptorBytes = 4
  MaxBufferBytes = 4
  MaxDepth = 3
  Desc <- MCDesc
  Items <- MCItems
  Nodes <- MCNodes
INVARIANTS
  AwaitsAreSafe
  ReadsResume
PROPERTIES
  EveryCallEnds
CHECK_DEADLOCK FALSE
