SPECIFICATION Spec
CONSTANTS
  Human = {h1}
  Bot = {b1}
  SnapshotEvery = 2
  BotRetries = 1
  CleanFaults <- EveryStep
  LostAcks <- EveryWrite
  EarlyBind = FALSE
  MayStall = TRUE
  MaxRows = 3
  MaxFrames = 1
  MaxQueue = 1
  MaxFaults = 1
  MaxCrashes = 1
INVARIANTS
  WriteAhead
  SnapshotsAreStates
  AtMostOneLateRow
  BotNeverForgotten
PROPERTIES
  RecoveryLosesNothing
  AtMostOnce
  JournalSpec
CHECK_DEADLOCK FALSE
