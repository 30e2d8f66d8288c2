SPECIFICATION Spec
CONSTANT
  MaxPackets = 1
INVARIANT
  SenderLoopAlreadyJoined
