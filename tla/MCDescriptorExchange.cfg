CONSTANTS
  U32 = 2
  U64 = 3
  WordBits = 24
  MaxTiledDepth = 3
  MAX_RANK = 6
  Descriptors <- MCDescriptors
  Replacements <- MCReplacements
  Trailer <- MCTrailer
  U16 = 1
  Sources <- MCSources
  SectionBytes <- MCSectionBytes
SPECIFICATION MetadataSpec
INVARIANTS
  SurvivesTheWire
  OneReadingOnly
  QuantizationIsUsable
CHECK_DEADLOCK FALSE
