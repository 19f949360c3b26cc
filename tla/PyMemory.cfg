SPECIFICATION Spec
CONSTANTS
  MaxObjects = 4
  MaxNesting = 2
  Fleeting = FALSE
  Reassigns = FALSE
  Payloads <- MCPayloads
  Incoming <- MCIncoming
INVARIANTS
  BytesOutliveReaders
  ReleasedExactlyOnce
  SharingIsHonest
CHECK_DEADLOCK FALSE
