SPECIFICATION Spec
CONSTANTS
  Width = 4
  Height = 3
  Margin = 0
  Reach = 1
  Live = TRUE
  UnknownCost = 3
  LimitFactor = 20
  Budgets = {3, 100}
  Starts <- HallStarts
  Goals <- HallGoals
  Maps <- HallMaps
  Novelties <- HallNovelties
  PeerAreas <- HallPeers
  MaxEvents = 3
  None = None
INVARIANTS
  TypeOK
  SearchIsConsistent
  AnswersAreTrue
