CONSTANTS
  WordBits = 8
  MaxTiledDepth = 2
  Ragged = FALSE
  Tensors <- MCTensors
SPECIFICATION Spec
INVARIANTS
  AddressesAreExact
  NeighboursStayTogether
  IndexedElementsAreFound
  NoTwoElementsShare
CHECK_DEADLOCK FALSE
