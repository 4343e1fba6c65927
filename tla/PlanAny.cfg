CONSTANTS
  NumberOfThreads = 3
  MultiThreshold = 4
  MaxLength = 9
  FileLengths <- AnyLength
SPECIFICATION Spec
INVARIANT TypeOK
INVARIANT EachByteOnce
INVARIANT DoneMeansStopped
INVARIANT SplitSuccessMeansStopped
INVARIANT PlanInvariant
PROPERTY ConnectReturns
