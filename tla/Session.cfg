SPECIFICATION FairSpec
CONSTANTS
  FileContents <- Bytes2
  DATASIZE = 1
  WINDOW = 2
  SACK_BITS = 2
  HeaderMod = 4
INVARIANTS
  NotBeforeDelivered
PROPERTIES
  SessionEnds
  ImplementsTransfer
