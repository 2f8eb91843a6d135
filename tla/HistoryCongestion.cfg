SPECIFICATION HistorySpec
CONSTANTS
  A = A
  B = B
  NoPacket = NoPacket
  UintMod = 16
  WindowSize = 4
  InitialCwnd = 2
  MaxCwnd = 4
  MaxRetries = 1
  FastRetransmitThreshold = 3
  MaxSends = 6
INVARIANTS
  CongestionControlReacts
CHECK_DEADLOCK FALSE
