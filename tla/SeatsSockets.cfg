SPECIFICATION Spec
CONSTANTS
  Human = {h1, h2}
  Bot = {}
  Conn = {c1, c2, c3}
  None = None
  PauseAfter = 2
  TakeoverAfter = 1
  LandInOrder = TRUE
  MayBan = TRUE
  MaxMoves = 1
  MaxDials = 3
  MaxQueue = 1
  MaxFaults = 1
  MaxCrashes = 1
SYMMETRY Interchangeable
INVARIANTS
  NoticesAreRight
  LastHelloKeepsTheSeat
CHECK_DEADLOCK FALSE
