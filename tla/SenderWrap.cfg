SPECIFICATION Spec
CONSTANTS
  A = A
  B = B
  NoPacket = NoPacket
  UintMod = 8
  WindowSize = 4
  InitialCwnd = 2
  MaxCwnd = 4
  MaxRetries = 0
  FastRetransmitThreshold = 3
  MaxSends = 9
INVARIANTS
  BaseIsUnacked
CHECK_DEADLOCK FALSE
