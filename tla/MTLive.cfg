CONSTANTS
  NumberOfThreads = 2
  MultiThreshold = 2
  BUFFERSIZE = 2
  Backlog = 1
  Coalesce = FALSE
  MaxLost = 0
  ReadErrors = TRUE
  MayQuit = FALSE
  MaxPosition = 4
  NoConn = NoConn
  Sizes <- SplitSize
  Conns <- AllConns
  Positions <- AllPositions
SPECIFICATION Spec
PROPERTY ListerAnswered
PROPERTY ConnectReturns
PROPERTY StopEndsAcceptor
CHECK_DEADLOCK FALSE
