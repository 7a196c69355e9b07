SPECIFICATION Spec
CONSTANTS
  Vehicles = {1, 2, 3}
  Left = 0
  Right = 12
  Radius = 1
  Speed = 2
  Hard = 1
  AutoMin = 2
  Slow = 5
  Steps = 2
  ScanAge = 1
INVARIANTS
  TypeOK
  KeepsApart
  BrakesInTime
