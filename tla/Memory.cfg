CONSTANTS
  PP = 4
  AP = 3
  total_instruction = 7
  CLEAR_PERIOD = 3
  INFINITE = 100
SPECIFICATION Spec
INVARIANT TypeOK
INVARIANT FramesMatchPages
INVARIANT QueueInLoadOrder
INVARIANT AgesAreExact
INVARIANT UsesAreExact
INVARIANT OPTIsBest
PROPERTY ImplementsPaging
CHECK_DEADLOCK FALSE
