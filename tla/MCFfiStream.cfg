SPECIFICATION FairSpec
CONSTANTS
  U64Max = 31
  PrefixLen = 2
  MinDescriptorLen = 3
  CrossMachine = FALSE
  MaxCalls = 2
  MaxDescriptorBytes = 4
  MaxBufferBytes = 4
  max_composite_depth = 0
  DefaultDepth = 3
  Desc <- MCDesc
  Arrays <- MCArrays
  Tensors <- MCTensors
  Nodes <- MCNodes
INVARIANTS
  StatusesAreTrue
  StreamReadsBack
  ContextReleasedOnce
PROPERTIES
  CallsReturn
CHECK_DEADLOCK FALSE
