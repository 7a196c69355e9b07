--------------------------- MODULE MCRobotController ---------------------------
(* Instances of RobotController for TLC. *)
EXTENDS RobotController, TLC

Symmetry == Permutations(MissionIds)

MCSubgoals == [d \in Definitions |-> IF d = "goto" THEN 1 ELSE 2]
=============================================================================
