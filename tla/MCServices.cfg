SPECIFICATION ServSpec
CONSTANTS
    a = a
    b = b
    Item <- MCItem
    Nothing = Nothing
    N = 5
    MaxRilValue = 1
    MaxOldLines = 1
    CallSlots = 2
    UrcQueueCap = 2
    MaxUrcEvents = 3
    MaxRequests = 2
    Characters <- MCCharacters
    MaxText = 5
    SmsLen = 3
    RawLen = 11
    CommandLen = 11
    UssdLen = 15
    UssdRoom = 16
INVARIANTS ServTypeOK AnswersAreTrue UrcsAreTrue TextsExact
PROPERTY RingIsBoundedQueue
CHECK_DEADLOCK FALSE
