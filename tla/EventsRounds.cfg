SPECIFICATION Spec
CONSTANTS
  a = a  b = b  c = c  ab = ab  bc = bc  twin = twin  None = None  Locked = Locked
  N = 3
  City = {a, b, c}  Route = {ab, bc, twin}
  Ends <- Line  Twins <- Pairs  Length <- Lengths  OpenTracks <- Ones  Tunnel = {ab}
  TrainsStart = 3  EndThreshold = 0  QuietMargin = 1
  Cards = 4  DeckStart = 3  Reveal = 3  MaxHive = 3
  Kinds = {"TYPHOON_LANDFALL", "TYPHOON_DAY_OFF", "AFTERSHOCK", "SLOPE_REPAIR_ORDER",
           "SPRING_FESTIVAL_RUSH", "RAILWAY_GALA", "CHARTER_SPECIAL", "LUCKY_TICKET_STUB",
           "LANTERN_HOST_CITY", "ROLLING_STOCK_ALLOCATION_DAY", "HIVE_OF_SPARKS",
           "BREAKTHROUGH_BORING_MACHINE", "GODDESS_PROCESSION", "STATION_FRONT_NIGHT_MARKET"}
  Duration <- Windows  Targets <- Places  Path <- Procession
  Gaps = {0}  Starts = {2}  Entries = 2
  MaxRound = 4  MaxDraw = 1
INVARIANTS OneDecision MarkerInDeck ContractsAwarded
PROPERTIES OneTurnPerRound PromisesKept
CHECK_DEADLOCK FALSE
