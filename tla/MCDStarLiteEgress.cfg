\* A vehicle drifts into the clearance of a wall while a scan reports a far cell.
SPECIFICATION Spec
CONSTANTS
  Width = 8
  Height = 1
  Margin = 0
  Reach = 1
  Live = TRUE
  UnknownCost = 3
  LimitFactor = 20
  Budgets = {100}
  Starts <- LaneStarts
  Goals <- LaneGoals
  Maps <- LaneMaps
  Novelties <- LaneNovelties
  PeerAreas <- NoPeers
  MaxEvents = 5
  None = None
INVARIANT
  NoPathIsRealAnywhere
