CONSTANTS
  NumberOfThreads = 2
  MultiThreshold = 2
  BUFFERSIZE = 2
  Backlog = 1
  Coalesce = FALSE
  MaxLost = 1
  ReadErrors = FALSE
  MayQuit = TRUE
  MaxPosition = 4
  NoConn = NoConn
  Sizes <- AnySize
  Conns <- AllConns
  Positions <- AllPositions
SPECIFICATION Spec
INVARIANT TypeOK
INVARIANT HandshakeInStep
INVARIANT AcceptorDiesOfQuit
PROPERTY ImplementsCopy
CHECK_DEADLOCK FALSE
