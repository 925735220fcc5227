SPECIFICATION FairSpec
CONSTANTS
  Sweeper = sweeper
  Desk = desk
  None = none
  Objects = {1, 2}
  MaxRows = 1
  MaxQueue = 1
  MaxMishaps = 1
  MaxOrders = 2
  EarlyRequests = FALSE
INVARIANTS
  NoOrphans
  ResidentIsCurrent
  HistoryIsTheEnded
PROPERTY
  RoomsAreFreed
