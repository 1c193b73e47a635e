CONSTANTS
  FileLen = 3
  BufLen = 2
  MaxAttempts = 3
  MaxStarts = 3
SPECIFICATION FairSpec
INVARIANTS
  ImageWhole
  ResultIsDue
PROPERTIES
  Answered
CHECK_DEADLOCK FALSE
