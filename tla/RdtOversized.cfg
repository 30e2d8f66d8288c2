SPECIFICATION Spec
CONSTANTS
  FileContents <- Bytes9
  DATASIZE = 2
  WINDOW = 2
  SACK_BITS = 2
  HeaderMod = 4
INVARIANTS
  OversizedNotDelivered
