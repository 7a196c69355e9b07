\* Intents are lost, vehicles are paused, yield, or do not detect the corridor.
SPECIFICATION Spec
CONSTANTS
  Vehicles <- TwoVehicles
  Ttl = 1
  ClaimTicks = 2
  MaxWait = 1
  MaxDelay = 0
  MaxTrips = 0
  Faults = {"loss", "blind", "pause", "yield"}
PROPERTIES
  LateComersWait
  OneExchangeAgrees
