SPECIFICATION Spec
CONSTANTS
  p1 = p1  p2 = p2  p3 = p3  p4 = p4
  Red = {r1}  Blue = {b1}  Gold = {g1, g2}
  twinA = twinA  twinB = twinB  bore = bore
  long1 = long1  long2 = long2  long3 = long3  long4 = long4
  k1 = k1  k2 = k2  k3 = k3  k4 = k4
  Player = {p1, p2}
  Order <- Duel
  TeamGame = FALSE
  Side <- Alone
  PoolCapacity = 4
  Card <- Cards
  Colour = {"red", "blue"}
  Loco = "loco"
  Hue <- Hues
  HandStart = 1
  MarketSize = 2
  RecycleAt = 2
  TunnelReveal = 1
  BlindLocoGoesOn = FALSE
  MaxRecycles = 2
  Route = {twinA, twinB, bore}
  Length <- DuelLength
  Paint <- DuelPaint
  Gray = "gray"
  Ferry <- DuelFerry
  Tunnel = {bore}
  Twins <- Pair
  Broken <- DuelBroken
  OneTrackAt23 = TRUE
  TrainsStart = 2
  EndThreshold = 0
  City = {west}
  StationsPerPlayer = 1
  Ticket = {long1, long2, long3, k1, k2, k3, k4}
  Ways <- DuelWays
  LongDeck <- ThreeLong
  ShortDeck <- Shuffled
  InitialLong = 1
  InitialShort = 1
  MinKeepInitial = 2
  MinKeep = 1
  TicketDraw = 2
  None = None
SYMMETRY Alike
INVARIANTS
  Conserved
  ParallelTracks
  FinalRound
  RailWindow
  PassIsLast
  GuardsAreEnabled
CHECK_DEADLOCK FALSE
