SPECIFICATION FairSpec
CONSTANT
  MaxPackets = 2
INVARIANTS
  TypeOK
  WireOrder
  FileIDIsSet
  NoThreadLeft
  AbortNeedsEnter
  OrderlyEndIsWhole
PROPERTIES
  SenderEnds
  ReceiverEnds
  DropEndsProcess
