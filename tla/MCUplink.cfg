CONSTANTS
  m1 = m1
  m2 = m2
  NoSms = NoSms
  Sms <- TwoMessages
  EmptySms <- Empty
  Slot <- TwoSlots
  SmsIdxCap = 2
  PubCap = 1
  SmsTxCap = 1
  TicksPerSec = 1
  UssdTimeoutSec = 1
  MsgIdMod = 3
  MsgQueueCap = 2
  MaxReceived = 0
  MaxSimReady = 2
  LossyAT = TRUE
  Endless = FALSE
SPECIFICATION Spec
INVARIANTS
  TypeOK
  NoEraseBeforeForward
  PublishedOnce
PROPERTIES
  StallIsPermanent
  NoDeleteReplaced
  IsSmsRelay
