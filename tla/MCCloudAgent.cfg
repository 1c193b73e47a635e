CONSTANTS
  QueueCap = 4
  SnMod = 2
  InfoTries = 2
  AckTries = 2
  McuBeats = 2
  CloudBeats = 2
  ConnectTries = 2
  MaxFaults = 2
  MaxCommands = 1
  MaxReports = 1
  MaxResets = 1
  MaxBoots = 2
  MaxEvents = 2
SPECIFICATION FairSpec
INVARIANTS
  TypeOK
  DidHasItsPasscode
  RunningMeansLoggedIn
PROPERTIES
  WriteEnds
  LossRecovers
CHECK_DEADLOCK FALSE
