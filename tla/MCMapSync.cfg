SPECIFICATION FairSpec
CONSTANTS
  p1 = p1
  NoPayload = NoPayload
  Unknown = Unknown
  Cells <- MCCells
  CellStates <- MCCellStates
  Peers <- MCPeers
  QueueSize = 3
  MaxCells = 1
  MaxSequence = 1
  MaxChanges = 2
INVARIANTS
  TypeOK
  PipelineIsInflight
  CleanIsPublished
  PublishedInOrder
  NoGapMeansComplete
PROPERTY DirtyDrains
CHECK_DEADLOCK FALSE
