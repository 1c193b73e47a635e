CONSTANTS
  BodyLen = 4
  BufSize = 3
  MaxStarts = 2
  MaxStale = 2
  Responses <- NoLengthLater
SPECIFICATION Spec
INVARIANTS
  LengthRequired
CHECK_DEADLOCK FALSE
