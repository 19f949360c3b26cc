SPECIFICATION Spec
CONSTANTS
  U64Max = 31
  PrefixLen = 2
  MinDescriptorLen = 3
  CrossMachine = FALSE
  MaxDepth = 2
  MaxFed = 5
  KeepGoing = FALSE
  Desc <- AssembleDesc
  Feed <- AllIds
INVARIANTS
  GroupingIsExact
CHECK_DEADLOCK FALSE
