\* Three vehicles, the code's times, every intent heard in time.
SPECIFICATION FairSpec
CONSTANTS
  Vehicles <- ThreeVehicles
  Ttl = 3
  ClaimTicks = 3
  MaxWait = 1
  MaxDelay = 0
  MaxTrips = 0
  Faults = {}
INVARIANTS
  TypeOK
  AtMostOneOwner
PROPERTIES
  LeaseIsKept
  EveryonePasses
