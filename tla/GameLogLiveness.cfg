SPECIFICATION FairSpec
CONSTANTS
  Human = {h1}
  Bot = {b1}
  SnapshotEvery = 2
  BotRetries = 0
  CleanFaults <- BeforeTheRow
  LostAcks <- NoStep
  EarlyBind = FALSE
  MayStall = FALSE
  MaxRows = 2
  MaxFrames = 1
  MaxQueue = 2
  MaxFaults = 1
  MaxCrashes = 0
PROPERTIES
  BotMoves
  CommandsAnswered
CHECK_DEADLOCK FALSE
