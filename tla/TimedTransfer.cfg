SPECIFICATION FairSpec
CONSTANTS
  FileContents <- Bytes4
  DATASIZE = 1
  SACK_BITS = 2
  HeaderMod = 8
  WINDOW = 2
  TIMEOUT_MS = 6
  ACK_KEEPALIVE_MS = 1
  MaxPause = 1
  MaxDelay = 1
  MaxLostData = 1
  MaxLostAcks = 1
INVARIANTS
  ResendsOnlyMissing
  RepeatedInTime
PROPERTIES
  TimersDeliver
  ImplementsUntimed
