SPECIFICATION FairSpec
CONSTANTS
  U64Max = 31
  PrefixLen = 2
  MinDescriptorLen = 3
  CrossMachine = TRUE
  MaxItems = 3
  Desc <- MCDesc
  Items <- MCItems
  Nodes <- MCNodes
INVARIANTS
  NoSplice
  EmittedIsExact
  WireIsEncoding
PROPERTIES
  RetiredIsFinal
  OperationEnds
CHECK_DEADLOCK FALSE
