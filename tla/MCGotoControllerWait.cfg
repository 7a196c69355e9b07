SPECIFICATION FairSpec
CONSTANTS
  Exact = "goal"
  Nearby <- MCNearby
  Connected <- MCConnected
  Worlds <- MCPeerWorlds
  None = None
  Slices = 1
  MaxInspections = 3
  Shared = FALSE
  MaxPending = 1
  MaxChanges = 1
PROPERTIES
  WaitsEnd
