SPECIFICATION Spec
CONSTANTS
  Self = 2
  Silent = Silent
  Nothing = Nothing
  Catalog <- MCCatalog
  Routes <- MCRoutes
  Detours <- MCDetours
  Headings = {0, 1}
  Reach <- MCReach
  Travel = 2
  Turn = 1
  Margin = 1
  Horizon = 8
  Commit = 1
  Ttl = 1
  MaxWait = 1
  MaxHold = 1
INVARIANTS
  TypeOK
  ScheduleKeepsClear
  ScheduleIsEarliest
