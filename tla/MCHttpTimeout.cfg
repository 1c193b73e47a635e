CONSTANTS
  BodyLen = 4
  BufSize = 3
  MaxStarts = 1
  MaxStale = 0
  Responses <- OneResponse
SPECIFICATION Spec
PROPERTIES
  TimeoutMeansSilence
CHECK_DEADLOCK FALSE
