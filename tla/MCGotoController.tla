---------------------------- MODULE MCGotoController ----------------------------
(* Instances of GotoController for TLC. *)
EXTENDS GotoController

MCNearby == <<"near", "side">>
MCConnected == {"side"}

MCGoals == {"goal", "near", "side"}

\* What may happen to the goal, and to the two candidates.  The way to a candidate
\* with a clear segment to the goal is cut when the way to the goal is.
AtGoal == {<<"none", "none">>, <<"wall", "none">>, <<"peer", "none">>,
           <<"none", "peer">>, <<"none", "anonymous">>, <<"none", "wall">>}
AtNear == {<<"none", "none">>, <<"beside", "none">>, <<"none", "peer">>, <<"none", "wall">>}
AtSide == {"none", "wall"}

World(g, n, s, seen, start, peers) ==
  [here  |-> [x \in MCGoals |-> CASE x = "goal" -> g[1] [] x = "near" -> n[1] [] OTHER -> s],
   way   |-> [x \in MCGoals |-> IF x = "near" THEN n[2] ELSE g[2]],
   seen  |-> [x \in MCGoals |-> x # "near" \/ seen],
   start |-> start, peers |-> peers]

\* A start that is not clear, and a candidate the scanner has not seen, go with at
\* most one other obstacle.
MCWorlds ==
  LET clear == <<"none", "none">>
      few(g, n, s) == Cardinality({k \in 1..3 : <<g # clear, n # clear, s # "none">>[k]}) <= 1
  IN  {World(g, n, s, TRUE, "none", peers) :
         g \in AtGoal, n \in AtNear, s \in AtSide, peers \in BOOLEAN}
      \cup {World(v[1], v[2], v[3], FALSE, "none", v[4]) :
              v \in {x \in AtGoal \X AtNear \X AtSide \X BOOLEAN : few(x[1], x[2], x[3])}}
      \cup {World(v[1], v[2], v[3], TRUE, start, v[4]) :
              v \in {x \in AtGoal \X AtNear \X AtSide \X BOOLEAN : few(x[1], x[2], x[3])},
              start \in {"peer", "wall"}}

SomePeer(w) == w.start = "peer" \/ \E x \in MCGoals : {w.here[x], w.way[x]} \cap {"peer", "beside"} # {}
MCPeerWorlds == {w \in MCWorlds : SomePeer(w) => w.peers}
=============================================================================
