SPECIFICATION FairDriversSpec
CONSTANTS
  U64Max = 31
  PrefixLen = 2
  MinDescriptorLen = 3
  CrossMachine = FALSE
  HeaderLen = 2
  TrailerLen = 2
  ItemAlign = 2
  Alignment = 4
  KvLen = 1
  ZerosLen = 1
  SortedIndex = TRUE
  CancelGroups = FALSE
  MaxOps = 10
  MaxDepth = 2
  Desc <- FileDesc
  Names <- MCNames
  BadNames = {""}
  Before <- MCBefore
  FileItems <- MCItems
  FileNodes <- MCNodes
  Asked = {"x", "g", "h", "k"}
  BetweenTensors = FALSE
  LoadSorted = FALSE
  RoleLen = 1
  CArrays <- MCArrays
  CTensors <- CTensorsMC
  Dicts <- MCDicts
  Wanted <- MCWanted
  Dotted <- MCDotted
  Drivers <- MCDrivers
INVARIANTS
  CallsAnswerForTheFile
  FilesHoldWholeItems
  FileStatusesAreTrue
  SaveLoadsBack
PROPERTIES
  CallsEnd
CHECK_DEADLOCK FALSE
