---------------------------- MODULE MCCorridorLease ----------------------------
EXTENDS CorridorLease
TwoVehicles == 1..2
ThreeVehicles == 1..3
=============================================================================
