CONSTANTS
  BUFFERSIZE = 3
  MaxSize = 7
  MaxLength = 8
  Requests <- AnyRequest
SPECIFICATION Spec
INVARIANT SegmentDelivered
INVARIANT LoopInvariant
