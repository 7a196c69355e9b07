------------------------------ MODULE Reservations ------------------------------
(***************************************************************************)
(* Space-time reservations of one vehicle (coordination.py) and the part   *)
(* of RobotController that asks for them (_schedule_temporal_motion).      *)
(*                                                                         *)
(* Peers announce timed trajectories over cells.  ReservationTable turns   *)
(* the trajectories of the peers that precede this vehicle into cell, edge *)
(* and goal reservations, widened by the sender's margin; prioritized_sipp *)
(* schedules the vehicle's own route around them, and the controller       *)
(* announces the schedule, or holds the cell when there is none.           *)
(*                                                                         *)
(* Times are whole units relative to the present, positions are cells;     *)
(* a position in the middle of an edge is a fraction, compared exactly by  *)
(* scaling.  Routes are made of straight steps.                            *)
(***************************************************************************)
EXTENDS Integers, Sequences, FiniteSets, SequencesExt, TLC

CONSTANTS
  Self,        \* vehicle_id of this vehicle
  Silent,      \* nothing fresh is known of a peer
  Nothing,     \* nothing is announced yet
  Catalog,     \* what a peer may announce: its trajectory, goal hold, priority
  Routes,      \* routes of D*, cell by cell, that the vehicle may follow
  Detours,     \* the side steps found passable: sequences of cells
  Headings,    \* headings of the pose: 0 east, 1 north, 2 west, 3 south
  Travel,      \* units one step takes
  Turn,        \* units a quarter turn takes
  Margin,      \* _reservation_time_margin_s, the same for all vehicles
  Horizon,     \* MOTION_PLAN_HORIZON_S
  Commit,      \* MOTION_COMMIT_HORIZON_S
  Ttl,         \* MOTION_INTENT_TTL_S
  MaxWait,     \* MAX_INTENT_WAIT_TICKS
  MaxHold,     \* PEER_RESERVATION_MAX_HOLD_TICKS
  Reach        \* <<a, b>>: a/b is (radii + clearance)^2 in cells

ASSUME ReservationAssumption ==
  /\ Self \in Nat /\ {Travel, Turn, Horizon, Commit} \subseteq Nat \ {0}
  /\ {Margin, Ttl, MaxWait, MaxHold} \subseteq Nat
  /\ Commit <= Horizon /\ Headings \subseteq 0..3

Forever == 1000        \* math.inf: the end of a goal reservation
NoCell  == <<>>
NoPlan  == <<>>

(***************************************************************************)
(* Geometry.  A motion leaves cell "from" at "enter", reaches cell "to" at *)
(* "leave" and is linear in between; a motion from a cell to itself waits. *)
(***************************************************************************)
Motion(c, d, s, e) == [from |-> c, to |-> d, enter |-> s, leave |-> e]

Clamp(t, most) == IF t < 0 THEN 0 ELSE IF t > most THEN most ELSE t

\* Positions of m are multiples of 1/Scale(m).
Scale(m) == IF m.from = m.to THEN 1 ELSE m.leave - m.enter

At(m, t) == [i \in {1, 2} |-> m.from[i] * Scale(m)
                            + Clamp(t - m.enter, Scale(m)) * (m.to[i] - m.from[i])]

Apart(p, q) == [i \in {1, 2} |-> p[i] - q[i]]

Dot(p, q) == p[1] * q[1] + p[2] * q[2]

\* The segment from p to q comes closer to the origin than the square root of
\* reach, both in units of 1/k of a cell.
Within(p, q, k, reach) ==
  LET d      == Apart(q, p)
      length == Dot(d, d)
      along  == -Dot(p, d)
      Less(x, y) == x * reach[2] < reach[1] * k * k * y
  IN  IF length = 0 \/ along <= 0 THEN Less(Dot(p, p), 1)
      ELSE IF along >= length     THEN Less(Dot(q, q), 1)
      ELSE Less(Dot(p, p) * length - along * along, length)

\* While both m and n last, their circles overlap.
Overlap(m, n, reach) ==
  LET s == Max({m.enter, n.enter})
      e == Min({m.leave, n.leave})
      Relative(t) == [i \in {1, 2} |-> At(m, t)[i] * Scale(n) - At(n, t)[i] * Scale(m)]
  IN  s < e /\ Within(Relative(s), Relative(e), Scale(m) * Scale(n), reach)

(***************************************************************************)
(* ReservationTable: what the trajectories of a set of intents occupy.     *)
(***************************************************************************)
\* An intent was received i.age units ago; its offsets count from there.
SpanWithoutMargin(i, k, s, e) ==
  Motion(i.path[k].cell, i.path[k].cell, s - i.age, e - i.age)
Span(i, k, s, e) == Motion(i.path[k].cell, i.path[k].cell, s - i.age - Margin, e - i.age + Margin)

CellReservations(I) ==
  UNION {{ LET r == Span(i, k, i.path[k].enter, i.path[k].leave)
           IN  IF i.hold /\ k = Len(i.path) THEN [r EXCEPT !.leave = Forever] ELSE r
           : k \in DOMAIN i.path} : i \in I}

EdgeReservations(I) ==
  UNION {{ [Span(i, k, i.path[k].leave, i.path[k + 1].enter) EXCEPT !.to = i.path[k + 1].cell]
           : k \in 1..(Len(i.path) - 1)} : i \in I}

Still(c, s, e) == Motion(c, c, s, e)

\* The reservations that come too close to cell c, as intervals.
Blocked(c, I) ==
  {<<r.enter, r.leave>> :
     r \in {s \in CellReservations(I) \cup EdgeReservations(I) :
              Overlap(Still(c, s.enter, s.leave), s, Reach)}}

Before(a, b) == a[1] < b[1] \/ (a[1] = b[1] /\ a[2] < b[2])

Sorted(S) ==
  FoldLeft(LAMBDA acc, k : Append(acc, CHOOSE x \in S \ ToSet(acc) :
                                         \A y \in S \ ToSet(acc) : x = y \/ Before(x, y)),
           <<>>, [k \in 1..Cardinality(S) |-> k])

\* The rest of start..end after the blocked intervals are taken out, in order.
SafeIntervals(c, I, start, end) ==
  LET Cut(acc, b) ==
        IF b[2] <= acc.cursor \/ b[1] >= end THEN acc
        ELSE [cursor |-> Max({acc.cursor, b[2]}),
              safe   |-> IF b[1] > acc.cursor
                           THEN Append(acc.safe, <<acc.cursor, b[1]>>)
                           ELSE acc.safe]
      Rest(acc) == IF acc.cursor < end THEN Append(acc.safe, <<acc.cursor, end>>) ELSE acc.safe
  IN  Rest(FoldLeft(Cut, [cursor |-> start, safe |-> <<>>], Sorted(Blocked(c, I))))

\* When the reservations that a step would run into end.
EdgeConflictEnds(m, I) ==
  {r.leave : r \in {s \in CellReservations(I) \cup EdgeReservations(I) : Overlap(m, s, Reach)}}

(***************************************************************************)
(* prioritized_sipp: per cell of the route and safe interval, the earliest *)
(* arrival found, the interval it came from and the departure from there.  *)
(***************************************************************************)
Direction(c, d) == CASE d[1] > c[1] -> 0 [] d[2] > c[2] -> 1 [] d[1] < c[1] -> 2 [] OTHER -> 3

Turning(h, g) == LET d == (g - h + 4) % 4 IN Turn * Min({d, 4 - d})

WindowStart == -Margin
WindowEnd   == Horizon + Margin

\* A shorter arrival in the same interval replaces the one that is there.
Offer(found, x) ==
  IF \E k \in DOMAIN found : found[k].at = x.at
    THEN [k \in DOMAIN found |->
            IF found[k].at = x.at /\ x.arrival < found[k].arrival THEN x ELSE found[k]]
    ELSE Append(found, x)

\* Not before the vehicle has turned, nor such that it arrives before dest begins.
FirstDepartureTight(ready, dest) == Max({ready, dest[1] - Travel})
FirstDeparture(ready, dest) == Max({ready, dest[1] + Margin - Travel})

\* The departures tried from d on: each conflict delays to its end.  {} when none
\* is possible in the two intervals.
Departures(c, next, d, own, dest, I) ==
  LET Try[t \in Nat] ==
        IF \/ t + Travel > Horizon
           \/ t + Margin > own[2]
           \/ t + Travel - Margin < dest[1]
           \/ t + Travel + Margin > dest[2]
        THEN {}
        ELSE LET Until(ends) == IF ends = {} THEN {t}
                                ELSE IF Max(ends) = Forever \/ Max(ends) + Margin <= t THEN {}
                                ELSE Try[Max(ends) + Margin]
             IN  Until(EdgeConflictEnds(Motion(c, next, t - Margin, t + Travel + Margin), I))
  IN  Try[d]

\* From the arrivals at c, those at the next cell.
Extend(found, c, next, turning, here, there, I) ==
  LET From(acc, x) ==
        IF x.arrival - Margin < here[x.at][1] THEN acc
        ELSE LET Into(acc2, j) ==
                   LET first == FirstDeparture(x.arrival + turning, there[j])
                       Arrive(acc3, t) == Offer(acc3, [at |-> j, arrival |-> t + Travel,
                                                       prev |-> x.at, depart |-> t])
                   IN  FoldLeft(Arrive, acc2,
                                SetToSeq(Departures(c, next, first, here[x.at], there[j], I)))
             IN  FoldLeft(Into, acc, [j \in 1..Len(there) |-> j])
  IN  FoldLeft(From, <<>>, found)

\* Standing now with the margin on both sides is safe.
StartIntervals(here) ==
  {j \in DOMAIN here : here[j][1] <= -Margin /\ here[j][2] >= Margin}

\* The safe intervals of each cell of the route.
Safe(route, I) ==
  FoldLeft(LAMBDA acc, c : Append(acc, SafeIntervals(c, I, WindowStart, WindowEnd)), <<>>, route)

\* The arrivals found at each cell of the route.
Search(route, heading, safe, I) ==
  LET start == {[at |-> j, arrival |-> 0, prev |-> 0, depart |-> 0] :
                  j \in {i \in StartIntervals(safe[1]) : i = Min(StartIntervals(safe[1]))}}
      Facing(k) == IF k = 1 THEN heading ELSE Direction(route[k - 1], route[k])
  IN  FoldLeft(LAMBDA acc, k :
                 Append(acc, Extend(acc[k], route[k], route[k + 1],
                                    Turning(Facing(k), Direction(route[k], route[k + 1])),
                                    safe[k], safe[k + 1], I)),
               <<SetToSeq(start)>>, [k \in 1..(Len(route) - 1) |-> k])

\* The arrivals at which the vehicle may stay for the rest of the window.
Stays(found, safe) == {x \in ToSet(found) : safe[x.at][2] >= WindowEnd}

Earliest(S) ==
  CHOOSE x \in S : \A y \in S : x.arrival < y.arrival \/ (x.arrival = y.arrival /\ x.at <= y.at)

\* The way to cell last: each arrival names the interval and departure before it.
WayBack(found, safe, last) ==
  FoldLeft(LAMBDA acc, k :
             <<CHOOSE x \in ToSet(found[last - k]) : x.at = Head(acc).prev>> \o acc,
           <<Earliest(Stays(found[last], safe[last]))>>, [k \in 1..(last - 1) |-> k])

Timed(route, back) ==
  [k \in DOMAIN back |->
     [cell  |-> route[k], enter |-> back[k].arrival,
      leave |-> IF k = Len(back) THEN Horizon ELSE back[k + 1].depart]]

\* The trajectory to the farthest cell where the vehicle may stay.
Planned(route, safe, found) ==
  LET ends == {k \in DOMAIN route : Stays(found[k], safe[k]) # {}}
  IN  IF ends = {} THEN NoPlan
      ELSE IF ends = {1} /\ Len(route) > 1 THEN NoPlan
      ELSE Timed(route, WayBack(found, safe, Max(ends)))

ScheduleIn(route, heading, safe, I) == Planned(route, safe, Search(route, heading, safe, I))

Schedule(route, heading, I) == ScheduleIn(route, heading, Safe(route, I), I)

(***************************************************************************)
(* The vehicle.  Every tick it looks at its pose and route, and at the     *)
(* intents it holds, and announces a schedule.                             *)
(***************************************************************************)
VARIABLES
  cell,      \* the cell of the pose
  intents,   \* intents: what each peer announced and how long ago
  wait,      \* _reservation_wait_ticks
  reserved,  \* _intent_reserved
  left,      \* _temporal_commit_deadline_s - now
  pair, held,\* _reservation_cells, _reservation_hold_ticks
  announced, \* _temporal_trajectory and what goes with it, Nothing between ticks
  against    \* the intents the trajectory was made against

vars == <<cell, intents, wait, reserved, left, pair, held, announced, against>>

Peers == DOMAIN Catalog

\* What is held of peer p, with the identity it is compared by.
Intent(p) == [peer |-> p, age |-> intents[p].age] @@ intents[p].said

Current(i) == i.path[1].cell
TargetOf(i) == IF Len(i.path) > 1 THEN i.path[2].cell ELSE NoCell

\* motion_intent_precedes: reservations first, then the longest wait, then ids.
Precedes(a, b) ==
  LET key(i) == <<IF i.reserved THEN 0 ELSE 1, IF i.reserved THEN 0 ELSE -i.wait, i.peer>>
      x == key(a)
      y == key(b)
  IN  \/ x[1] < y[1]
      \/ x[1] = y[1] /\ x[2] < y[2]
      \/ x[1] = y[1] /\ x[2] = y[2] /\ x[3] < y[3]

Own == [peer |-> Self, wait |-> wait, reserved |-> reserved /\ left > 0 /\ held < MaxHold]

\* The peers this vehicle plans around.
Higher == {i \in {Intent(p) : p \in {q \in Peers : intents[q] # Silent}} :
             TargetOf(i) # cell /\ Precedes(i, Own)}

Quorum == \A p \in Peers : intents[p] # Silent

MoreWaitUncapped == wait + 1
MoreWait == Min({wait + 1, MaxWait})

Holding == <<[cell |-> cell, enter |-> 0, leave |-> Horizon]>>

Reasons == {"none", "reservation_sync", "space_time_reservation"}

\* _temporal_trajectory, _temporal_committed_until_s, the target of the intent,
\* _temporal_goal_hold and _coordination_wait_reason.
Announcement(plan, until, target, hold, reason) ==
  [plan |-> plan, until |-> until, target |-> target, hold |-> hold, reason |-> reason]

TypeOK ==
  /\ intents \in [Peers -> {Silent} \cup [said : UNION {Catalog[p] : p \in Peers}, age : 0..Ttl]]
  /\ wait \in 0..MaxWait /\ held \in 0..MaxHold /\ left \in 0..Commit
  /\ reserved \in BOOLEAN
  /\ announced # Nothing =>
       /\ announced.hold \in BOOLEAN /\ announced.reason \in Reasons
       /\ announced.until \in 0..Min({Commit, announced.plan[Len(announced.plan)].leave})

Init ==
  /\ cell \in {r[1] : r \in Routes}
  /\ intents = [p \in Peers |-> Silent]
  /\ wait = 0 /\ held = 0 /\ left = 0
  /\ reserved = FALSE /\ pair = NoCell
  /\ announced = Nothing /\ against = {}

\* receive_motion_intent: a peer announces something, or repeats it.
Hear(p) ==
  /\ announced = Nothing
  /\ \E said \in Catalog[p] :
       /\ said.path[1].cell # cell
       /\ intents' = [intents EXCEPT ![p] = [said |-> said, age |-> 0]]
  /\ UNCHANGED <<cell, wait, reserved, left, pair, held, announced, against>>

\* _coordinate_desired without a fresh quorum: hold the cell and say so.
Sync ==
  /\ announced = Nothing
  /\ ~Quorum
  /\ announced' = Announcement(Holding, Commit, NoCell, FALSE, "reservation_sync")
  /\ left' = 0 /\ reserved' = FALSE /\ wait' = MoreWait
  /\ UNCHANGED <<cell, intents, pair, held, against>>

\* _schedule_temporal_motion: the route, or the first detour that has a schedule.
Choice(route, heading, detours) ==
  LET direct == Schedule(route, heading, Higher)
      open   == {k \in DOMAIN detours : Schedule(<<cell, detours[k]>>, heading, Higher) # NoPlan}
  IN  IF direct # NoPlan
        THEN [plan |-> direct, target |-> IF Len(route) > 1 THEN route[2] ELSE NoCell, left |-> left]
      ELSE IF open # {}
        THEN [plan |-> Schedule(<<cell, detours[Min(open)]>>, heading, Higher),
              target |-> detours[Min(open)], left |-> 0]
      ELSE [plan |-> NoPlan, target |-> NoCell, left |-> left]

\* The first departure is later than the turn towards it takes.
Delayed(schedule, heading) ==
  Len(schedule) > 1
  /\ schedule[1].leave > Turning(heading, Direction(cell, schedule[2].cell))

\* The trajectory ends where the mission does, and is the whole route.
GoalHold(schedule, route) ==
  schedule # NoPlan /\ Len(schedule) = Len(route) /\ schedule[Len(schedule)].cell = route[Len(route)]

\* _hold_for_temporal_reservation.
Blocks(choice, route, heading) ==
  /\ choice.plan = NoPlan \/ Delayed(choice.plan, heading)
  /\ announced' = Announcement(IF choice.plan = NoPlan THEN Holding ELSE choice.plan, 0,
                               choice.target, GoalHold(choice.plan, route), "space_time_reservation")
  /\ left' = 0 /\ reserved' = FALSE /\ wait' = MoreWait
  /\ UNCHANGED <<pair, held>>

\* A peer stands where the vehicle is heading, or wants the same cell and precedes
\* the reservation this vehicle now has.
Conflicts(aim) ==
  \E p \in Peers : LET i == Intent(p) IN
    aim # NoCell /\ \/ aim = Current(i)
                    \/ /\ aim = TargetOf(i) \/ (cell = TargetOf(i) /\ aim = Current(i))
                       /\ Precedes(i, [Own EXCEPT !.reserved = TRUE])

\* The schedule starts at once: the vehicle commits to a short prefix and goes,
\* unless it yields to a peer, or lingers until that peer has been clear a while.
Starts(choice, route, heading) ==
  /\ choice.plan # NoPlan /\ ~Delayed(choice.plan, heading)
  /\ left' = IF choice.left = 0 THEN Commit ELSE choice.left
  /\ announced' = Announcement(choice.plan, Min({left', choice.plan[Len(choice.plan)].leave}),
                               choice.target, GoalHold(choice.plan, route), "none")
  /\ \/ /\ ~Conflicts(choice.target)                                     \* goes
        /\ IF choice.target \in {NoCell, cell}
             THEN pair' = NoCell /\ held' = 0 /\ reserved' = FALSE
             ELSE /\ pair' = choice.target
                  /\ held' = IF pair = choice.target THEN Min({held + 1, MaxHold}) ELSE 0
                  /\ reserved' = (held' < MaxHold)
        /\ UNCHANGED wait
     \/ reserved' = FALSE /\ wait' = MoreWait /\ UNCHANGED <<pair, held>>   \* yields
     \/ UNCHANGED <<reserved, wait, pair, held>>                          \* lingers

Tick ==
  /\ announced = Nothing
  /\ Quorum
  /\ \E route \in Routes, heading \in Headings, detours \in Detours :
       /\ route[1] = cell /\ \A k \in DOMAIN detours : Dot(Apart(detours[k], cell), Apart(detours[k], cell)) = 1
       /\ \E choice \in {Choice(route, heading, detours)} :
            Blocks(choice, route, heading) \/ Starts(choice, route, heading)
  /\ against' = Higher
  /\ UNCHANGED <<cell, intents>>

\* The announcement is sent and time passes: intents age and expire, and the
\* vehicle may reach its target, where its wait and its hold on a cell start anew.
Elapse ==
  /\ announced # Nothing
  /\ announced' = Nothing /\ against' = {}
  /\ intents' = [p \in Peers |->
                   IF intents[p] = Silent THEN Silent
                   ELSE IF intents[p].age >= Ttl THEN Silent
                   ELSE [intents[p] EXCEPT !.age = @ + 1]]
  /\ left' = Max({left - 1, 0})
  /\ \/ UNCHANGED <<cell, wait, pair, held>>
     \/ /\ announced.reason = "none" /\ announced.target \in {r[1] : r \in Routes}
        /\ cell' = announced.target /\ wait' = 0 /\ pair' = NoCell /\ held' = 0
  /\ UNCHANGED reserved

Next == (\E p \in Peers : Hear(p)) \/ Sync \/ Tick \/ Elapse

Spec == Init /\ [][Next]_vars

(***************************************************************************)
(* Properties                                                              *)
(***************************************************************************)
\* The motions of a trajectory that began age units ago, shift units late.
Motions(path, age, shift, end) ==
  {Still(path[k].cell, path[k].enter - age + shift,
         IF k = Len(path) THEN end ELSE path[k].leave - age + shift) : k \in DOMAIN path}
  \cup {Motion(path[k].cell, path[k + 1].cell, path[k].leave - age + shift,
               path[k + 1].enter - age + shift) : k \in 1..(Len(path) - 1)}

\* A schedule keeps the vehicle's circle clear of every peer it was made around, to
\* the end of the horizon, also when both are up to the margin early or late: the
\* widened cell, edge and goal reservations of coordination.py leave no gap.
ScheduleKeepsClear ==
  announced # Nothing /\ (announced.reason = "none" \/ Len(announced.plan) > 1) =>
      \A i \in against : \A shift \in (-2 * Margin)..(2 * Margin) :
        \A m \in Motions(announced.plan, 0, 0, Horizon),
           n \in Motions(i.path, i.age, shift, Horizon) : ~Overlap(m, n, Reach)

Unsafe(c, s, e, I) == \E b \in Blocked(c, I) : b[1] < e /\ s < b[2]

\* Every arrival some choice of departures allows, by search over all of them.
Arrivals(route, heading, I) ==
  LET Facing(k) == IF k = 1 THEN heading ELSE Direction(route[k - 1], route[k])
      Onward(A, k) ==
        {d + Travel : d \in
           {t \in 0..(Horizon - Travel) :
              /\ \E a \in A : /\ a + Turning(Facing(k), Direction(route[k], route[k + 1])) <= t
                              /\ ~Unsafe(route[k], a - Margin, t + Margin, I)
              /\ EdgeConflictEnds(Motion(route[k], route[k + 1], t - Margin, t + Travel + Margin), I) = {}
              /\ ~Unsafe(route[k + 1], t + Travel - Margin, t + Travel + Margin, I)}}
      start == IF Unsafe(route[1], -Margin, Margin, I) THEN {} ELSE {0}
  IN  {t \in FoldLeft(Onward, start, [k \in 1..(Len(route) - 1) |-> k]) :
         ~Unsafe(route[Len(route)], t - Margin, WindowEnd, I)}

\* Whenever the whole route can be driven safely within the horizon, the schedule
\* drives it and no choice of departures arrives earlier (coordination.py:416,
\* "the earliest safe traversal"): keeping one arrival per safe interval and
\* jumping to the end of a conflict loses nothing.
ScheduleIsEarliest ==
  announced = Nothing /\ Quorum =>
    \A route \in {r \in Routes : r[1] = cell}, heading \in Headings :
      LET possible == Arrivals(route, heading, Higher)
          schedule == Schedule(route, heading, Higher)
      IN  possible # {} => /\ schedule # NoPlan /\ Len(schedule) = Len(route)
                           /\ schedule[Len(schedule)].enter = Min(possible)
=============================================================================
