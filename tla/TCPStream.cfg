SPECIFICATION FairSpec
CONSTANTS
  HeaderSize = 2
  CRCSize = 1
  LenByte = 2
  PayloadSizes = {0, 2}
  MaxPackets = 3
  MaxErrors = 2
  ReadsFail = TRUE
  WritesFail = TRUE
INVARIANTS
  TCPTypeOK
  NeverOutOfOrder
  CleanErrorsKeepFraming
PROPERTIES
  EventuallyReceived
CHECK_DEADLOCK FALSE
