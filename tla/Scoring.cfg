SPECIFICATION Spec
CONSTANTS
  Player = {1, 2, 3, 4}
  City = {1, 2, 3, 4}
  Route = {1, 2, 3, 4, 5}
  Ticket = {1, 2, 3, 4}
  Ends <- MCEnds
  Length <- MCLength
  Group <- MCGroup
  Goal <- MCGoal
  StationsPer = 3
  Rules <- MCRules
  Claimers = {1, 2}
  Builders = {3}
  Builds = {2, 3, 4}
  Keeper = 3
  FirstTickets <- MCTickets
CHECK_DEADLOCK FALSE
INVARIANTS
  TrailIsLongest
  BorrowsAreBest
  LockedIsFinal
