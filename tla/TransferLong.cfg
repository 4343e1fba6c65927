CONSTANTS
  BUFFERSIZE = 3
  MaxSize = 10
  MaxLength = 10
  Requests <- LongRequests
SPECIFICATION Spec
INVARIANT TypeOK
INVARIANT ExactLength
PROPERTY ImplementsStream
