SPECIFICATION Spec
CONSTANTS
  a = a  b = b  c = c  ab = ab  bc = bc  twin = twin  None = None  Locked = Locked
  N = 3
  City = {a, b, c}  Route = {ab, bc, twin}
  Ends <- Line  Twins <- Pairs  Length <- Lengths  OpenTracks <- Ones  Tunnel = {ab}
  TrainsStart = 3  EndThreshold = 0  QuietMargin = 1
  Cards = 4  DeckStart = 3  Reveal = 3  MaxHive = 3
  Kinds = {"SPRING_FESTIVAL_RUSH"}
  Duration <- TwoRounds  Targets <- Places  Path <- Procession
  Gaps = {0}  Starts = {2}  Entries = 1
  MaxRound = 6  MaxDraw = 1
INVARIANT EveryoneTakesAFinalTurn
CHECK_DEADLOCK FALSE
