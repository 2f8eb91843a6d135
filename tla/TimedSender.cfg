SPECIFICATION TimedSpec
CONSTANTS
  A = A
  B = B
  NoPacket = NoPacket
  UintMod = 8
  WindowSize = 4
  InitialCwnd = 2
  MaxCwnd = 4
  MaxRetries = 1
  FastRetransmitThreshold = 3
  MaxSends = 5
  InitialRTT = 1
  MilliMod = 256
  MaxRTT = 2
  MaxAge = 7
INVARIANTS
  SenderTypeOK
  HalfWindowInFlight
  BaseIsUnacked
  SlotsHoldTheirPackets
  SlowStartStopsAtThreshold
  EstimateWithinSamples
PROPERTIES
  OnlyFirstTransmissionsMeasured
  AckedSlotsOnlyCleared
  EventuallyResolved
  WindowReopensUnlessAbandoned
CHECK_DEADLOCK FALSE
