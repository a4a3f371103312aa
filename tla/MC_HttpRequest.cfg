SPECIFICATION FairSpec
CONSTANTS
  Requests <- MCRequests
  LengthOf <- MCLengthOf
  SizeOf <- MCSizeOf
  IntLimit = 64
  LongLimit = 128
  ReadBufferSize = 5
  MaxHeaderSize = 12
INVARIANTS
  UploadExact
  MalformedNeverDone
  SplitIndependent
PROPERTIES
  EventuallyUploaded
CHECK_DEADLOCK FALSE
