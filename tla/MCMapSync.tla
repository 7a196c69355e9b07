------------------------------ MODULE MCMapSync -------------------------------
(* One source and one peer (peers do not affect each other or the source):    *)
(* two cells, the queue of three and batches of one cell, so one change may   *)
(* need several deltas and a cell may change while its delta is in flight.    *)
EXTENDS MapSync
CONSTANTS p1

MCPeers == {p1}
MCCells == 1..2
MCCellStates == {"free", "occupied"}
=============================================================================
