SPECIFICATION FairSpec
CONSTANTS
  U64Max = 31
  PrefixLen = 2
  MinDescriptorLen = 3
  CrossMachine = FALSE
  MaxItems = 2
  MaxDescriptorBytes = 4
  MaxBufferBytes = 4
  MaxDepth = 3
  Desc <- MCDesc
  Items <- MCItems
  Nodes <- MCNodes
INVARIANTS
  CompletedItemsAreReadable
PROPERTIES
  ImplementsChannel
  EverythingArrives
CHECK_DEADLOCK FALSE
