SPECIFICATION FairSpec
CONSTANTS
  Exact = "goal"
  Nearby <- MCNearby
  Connected <- MCConnected
  Worlds <- MCPeerWorlds
  None = None
  Slices = 2
  MaxInspections = 3
  Shared = TRUE
  MaxPending = 1
  MaxChanges = 1
INVARIANTS
  TypeOK
  VerdictIsRight
PROPERTIES
  Settles
