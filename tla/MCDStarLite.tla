---------------------------- MODULE MCDStarLite ----------------------------
EXTENDS DStarLite

\* A hall of four by three, crossed from the far corner or left from beside a wall.
HallStarts == {<<3, 2>>, <<1, 0>>}
HallGoals == {<<0, 0>>}
HallMaps == {[c \in Cells |-> IF c = <<1, 1>> THEN "unknown" ELSE "free"],
             [c \in Cells |-> IF c = <<2, 0>> THEN "occupied" ELSE "unknown"]}
HallNovelties == {<<<<2, 0>>, "occupied">>, <<<<2, 0>>, "free">>, <<<<1, 2>>, "occupied">>}
HallPeers == {{}, {<<2, 2>>}}
\* A lane of eight cells, left towards its first cell.
LaneStarts == {<<1, 0>>, <<2, 0>>, <<4, 0>>}
LaneGoals == {<<0, 0>>}
LaneMaps == {[c \in Cells |-> "unknown"]}
LaneNovelties == {<<<<3, 0>>, "occupied">>, <<<<7, 0>>, "free">>}
NoPeers == {{}}

=============================================================================
