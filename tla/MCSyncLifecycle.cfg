SPECIFICATION FairSpec
CONSTANTS
  R = 2
  Fleet <- MCFleet
  Stubborn = {"server"}
  None = None
  MaxFaults = 1
INVARIANTS
  TypeOK
  LeaseGuardsAll
  OneIdentity
PROPERTIES
  CloseEnds
CHECK_DEADLOCK FALSE
