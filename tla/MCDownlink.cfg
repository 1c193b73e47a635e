CONSTANTS
  m1 = m1
  m2 = m2
  NoSms = NoSms
  Sms <- NoMessages
  EmptySms <- NoMessages
  Slot <- OneSlot
  SmsIdxCap = 1
  PubCap = 1
  SmsTxCap = 2
  TicksPerSec = 2
  UssdTimeoutSec = 1
  MsgIdMod = 3
  MsgQueueCap = 2
  MaxReceived = 3
  MaxSimReady = 2
  LossyAT = FALSE
  Endless = FALSE
SPECIFICATION Spec
INVARIANTS
  OneSmsPerUrc
  ReadyMeansSubscribed
  BusyIsExact
  BalanceIsFromAnswer
