SPECIFICATION FairSpec
CONSTANTS
  Header = 2
  Buffer = 2
  MaxBody = 5
  CgiHeaders = {1, 2, 3, 4}
  IntMax = 3
  SizeSpan = 100
INVARIANTS
  NothingPartial
  FramingAgrees
  BodyExact
  StuckCauses
PROPERTIES
  Delivered
CHECK_DEADLOCK FALSE
