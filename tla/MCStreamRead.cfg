SPECIFICATION FairSpec
CONSTANTS
  U64Max = 31
  PrefixLen = 2
  MinDescriptorLen = 3
  CrossMachine = TRUE
  MaxDescriptorBytes = 4
  MaxBufferBytes = 4
  Desc <- ReadDesc
  Wires <- MCWires
INVARIANTS
  ReadIsFaithful
  OnlyWholeTensors
PROPERTIES
  EndsForGood
  EventuallyDelivered
CHECK_DEADLOCK FALSE
