SPECIFICATION Spec
CONSTANTS
  h = h  u = u  v = v  b = b
  None = None
  Humans = {h, u, v}
  Bots = {b}
  Owner = h
  BaseCap = 2
  MaxGames <- MCGames
  MaxBans = 1
  Layouts <- MCLayouts
  Settings <- MCSettings
  Classes = {"over"}
CONSTRAINT RoomIsOpen
SYMMETRY Swap
CHECK_DEADLOCK FALSE
PROPERTY LiveSeatsStay
