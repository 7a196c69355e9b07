---------------------------- MODULE MCFleetSession ----------------------------
EXTENDS FleetSession
CONSTANTS c1, c2
MCClients == {c1, c2}
=============================================================================
