CONSTANTS
  m1 = m1
  m2 = m2
  NoSms = NoSms
  Sms <- OneMessage
  EmptySms <- NoMessages
  Slot <- OneSlot
  SmsIdxCap = 1
  PubCap = 1
  SmsTxCap = 1
  TicksPerSec = 1
  UssdTimeoutSec = 1
  MsgIdMod = 3
  MsgQueueCap = 2
  MaxReceived = 0
  MaxSimReady = 1
  LossyAT = FALSE
  Endless = FALSE
SPECIFICATION Spec
PROPERTIES
  AfterCmgrDone
