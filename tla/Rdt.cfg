SPECIFICATION FairSpec
CONSTANTS
  FileContents <- Bytes7
  DATASIZE = 2
  WINDOW = 2
  SACK_BITS = 2
  HeaderMod = 5
INVARIANTS
  TypeOK
  IInv
  AckedIsReceived
  BaseIsUnacked
  WindowSpan
  AcksArePlausible
  FileIntact
  FinishedIsDelivered
PROPERTIES
  KeepsPromise
  EventuallyDelivered
