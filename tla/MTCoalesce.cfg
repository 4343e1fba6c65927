CONSTANTS
  NumberOfThreads = 2
  MultiThreshold = 2
  BUFFERSIZE = 2
  Backlog = 1
  Coalesce = TRUE
  MaxLost = 0
  ReadErrors = FALSE
  MayQuit = FALSE
  MaxPosition = 4
  NoConn = NoConn
  Sizes <- SplitSize
  Conns <- AllConns
  Positions <- AllPositions
SPECIFICATION Spec
INVARIANT DestIsFile
CHECK_DEADLOCK FALSE
