CONSTANTS
  m1 = m1
  m2 = m2
  NoSms = NoSms
  Sms <- OneMessage
  EmptySms <- NoMessages
  Slot <- OneSlot
  SmsIdxCap = 1
  PubCap = 1
  SmsTxCap = 1
  TicksPerSec = 1
  UssdTimeoutSec = 1
  MsgIdMod = 2
  MsgQueueCap = 1
  MaxReceived = 1
  MaxSimReady = 2
  LossyAT = FALSE
  Endless = TRUE
SPECIFICATION FairSpec
PROPERTIES
  BootCompletes
  
  PubQueueDrains
