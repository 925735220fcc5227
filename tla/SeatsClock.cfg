SPECIFICATION Spec
CONSTANTS
  Human = {h1, h2}
  Bot = {}
  Conn = {c1, c2}
  None = None
  PauseAfter = 3
  TakeoverAfter = 2
  LandInOrder = TRUE
  MayBan = FALSE
  MaxMoves = 4
  MaxDials = 2
  MaxQueue = 2
  MaxFaults = 1
  MaxCrashes = 1
CONSTRAINT OneAccident
SYMMETRY Interchangeable
INVARIANTS
  WaitingIsTimed
  DesertedRests
  StoreFollowsHub
PROPERTIES
  TakeoverIsEarned
CHECK_DEADLOCK FALSE
