SPECIFICATION Spec
CONSTANTS
  Clients = {c1}
  Server = server
  Programs = {c1, server}
  MaxSignals = 2
  MaxMessages = 2
  MaxTicks = 1
INVARIANTS
  ProgramsTypeOK
  MapHoldsServedClients
  EchoesInOrder
PROPERTIES
  EchoArrives
  NothingLeftBehind
  SignalsEndProgram
CHECK_DEADLOCK FALSE
