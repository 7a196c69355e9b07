SPECIFICATION FairSpec
CONSTANTS
  c1 = c1
  c2 = c2
  NoClient = NoClient
  Clients <- MCClients
  BufferFrames = 2
  MaxFrames = 5
  MaxEvents = 3
  MaxCommands = 2
  MaxSessions = 2
INVARIANTS
  TypeOK
  ArrivesInTurn
  NoOrphanMotion
PROPERTY ImplementsFeed
CHECK_DEADLOCK FALSE
