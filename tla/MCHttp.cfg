CONSTANTS
  BodyLen = 4
  BufSize = 3
  MaxStarts = 3
  MaxStale = 1
  Responses <- MostResponses
SPECIFICATION FairSpec
INVARIANTS
  TypeOK
  ImageExact
  BufferHeld
  NeverSpins
  WaitIsTimed
PROPERTIES
  Answered
CHECK_DEADLOCK FALSE
