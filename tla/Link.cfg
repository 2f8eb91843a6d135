SPECIFICATION Spec
CONSTANTS
  A = A
  B = B
  NoPacket = NoPacket
  Senders = {A, B}
  Faulty = TRUE
  UintMod = 8
  WindowSize = 4
  InitialCwnd = 2
  MaxCwnd = 4
  MaxRetries = 1
  FastRetransmitThreshold = 3
  MaxSends = 3
CONSTRAINT OneMessageBack
INVARIANTS
  TypeOK
  DeliveredAtMostOnce
  AckedIsDelivered
  RejectedNumberIsUsed
PROPERTIES
  AckMarksPacket
  ImplementsChannel
CHECK_DEADLOCK FALSE
