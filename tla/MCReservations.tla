----------------------------- MODULE MCReservations -----------------------------
(* Instances of Reservations for TLC: a field of 3 x 3 cells whose middle row   *)
(* the vehicle follows, with a peer below and a peer above.                     *)
EXTENDS Reservations

Field == (0..2) \X (0..2)

Beside(c, d) == Dot(Apart(c, d), Apart(c, d)) = 1

\* Trajectories as prioritized_sipp returns them: stay, one step or two, after
\* waits of the given lengths.
Stay(c) == <<[cell |-> c, enter |-> 0, leave |-> Horizon]>>
OneStep(c, d, t) == <<[cell |-> c, enter |-> 0, leave |-> t],
                      [cell |-> d, enter |-> t + Travel, leave |-> Horizon]>>
TwoSteps(c, d, e, t, u) == <<[cell |-> c, enter |-> 0, leave |-> t],
                             [cell |-> d, enter |-> t + Travel, leave |-> u],
                             [cell |-> e, enter |-> u + Travel, leave |-> Horizon]>>

Below == <<1, 0>>
Above == <<1, 2>>
FromBelow ==
  {Stay(Below)}
  \cup {OneStep(Below, c, t) : c \in {d \in Field : Beside(Below, d)}, t \in {0}}
  \cup {TwoSteps(Below, x[1], x[2], t, t + Travel + u) :
           x \in {y \in Field \X Field : Beside(Below, y[1]) /\ Beside(y[1], y[2])},
           t \in {0, 2}, u \in {0}}
FromAbove == {Stay(Above), OneStep(Above, <<1, 1>>, 0)}

\* The peer below goes first; the peer above is younger than this vehicle unless
\* it has waited longer.
MCCatalog == (1 :> [path : FromBelow, hold : BOOLEAN, reserved : {TRUE}, wait : {0}]) @@
             (3 :> [path : FromAbove, hold : {FALSE}, reserved : {FALSE}, wait : {1}])

MCRoutes == {<< <<0, 1>>, <<1, 1>>, <<2, 1>> >>, << <<0, 1>>, <<1, 1>>, <<1, 2>> >>,
             << <<1, 1>>, <<2, 1>> >>, << <<2, 1>> >>}
MCDetours == {<<>>, << <<0, 0>>, <<0, 2>> >>}

\* (0.5 + 0.5 + 0.3)^2 is a little more than 5/3.
MCReach == <<5, 3>>
=============================================================================
