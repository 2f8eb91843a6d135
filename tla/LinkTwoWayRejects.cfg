SPECIFICATION Spec
CONSTANTS
  A = A
  B = B
  NoPacket = NoPacket
  Senders = {A, B}
  Faulty = FALSE
  UintMod = 8
  WindowSize = 4
  InitialCwnd = 2
  MaxCwnd = 4
  MaxRetries = 1
  FastRetransmitThreshold = 3
  MaxSends = 1
INVARIANTS
  RejectedIsDelivered
CHECK_DEADLOCK FALSE
