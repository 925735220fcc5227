SPECIFICATION Spec
CONSTANTS
  p1 = p1  p2 = p2  p3 = p3  p4 = p4
  Red = {r1, r2}  Blue = {}  Gold = {g1, g2}
  twinA = twinA  twinB = twinB  bore = bore
  long1 = long1  long2 = long2  long3 = long3  long4 = long4
  k1 = k1  k2 = k2  k3 = k3  k4 = k4
  Player = {p1, p2, p3, p4}
  Order <- Square
  TeamGame = TRUE
  Side <- Partners
  PoolCapacity = 2
  Card <- Cards
  Colour = {"red"}
  Loco = "loco"
  Hue <- Hues
  HandStart = 0
  MarketSize = 1
  RecycleAt = 2
  TunnelReveal = 1
  BlindLocoGoesOn = TRUE
  MaxRecycles = 1
  Route = {twinA, twinB, bore}
  Length <- Ones
  Paint <- Plain
  Gray = "gray"
  Ferry <- None0
  Tunnel = {}
  Twins <- Pair
  Broken <- None0
  OneTrackAt23 = TRUE
  TrainsStart = 2
  EndThreshold = 0
  City = {}
  StationsPerPlayer = 0
  Ticket = {long1, long2, long3, long4, k1, k2, k3, k4}
  Ways <- TeamWays
  LongDeck <- Longs
  ShortDeck <- Shuffled
  InitialLong = 1
  InitialShort = 1
  MinKeepInitial = 2
  MinKeep = 1
  TicketDraw = 1
  None = None
SYMMETRY Alike
INVARIANTS
  LocksAreRight
  StalledGameEnds
  SomebodyCanPlay
  GuardsAreEnabled
CHECK_DEADLOCK FALSE
