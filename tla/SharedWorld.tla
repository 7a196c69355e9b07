------------------------------ MODULE SharedWorld ------------------------------
(***************************************************************************)
(* The physics of the fleet (fleet.py, FleetRuntime.tick and SharedWorld;  *)
(* safety.py, LocalSafetyRuntime; vehicle.py): in a tick every controller  *)
(* sets its vehicle's target, then the world advances step by step: every  *)
(* vehicle's local safety limits its motion by what it senses of the       *)
(* static map, all move on copies, and copies that meet are taken back.    *)
(*                                                                         *)
(* Vehicles drive to and fro on one lane between two walls.  A unit of     *)
(* time is one step; velocity changes by at most 1 in it, and a step from  *)
(* velocity a to b goes a + b units of length, so braking from a takes     *)
(* a * a.  With steps of 0.1 s and the defaults of the code a unit is      *)
(* 5 mm: Speed = 5, Hard = 50, AutoMin = 60, Slow = 200.                   *)
(***************************************************************************)
EXTENDS Integers, FiniteSets

CONSTANTS
  Vehicles,  \* numbers, in the order in which they stand on the lane
  Left, Right, \* the walls
  Radius,
  Speed,     \* linear_speed
  Hard,      \* HARD_STOP_CLEARANCE_M
  AutoMin,   \* AUTOMATIC_MINIMUM_CLEARANCE_M
  Slow,      \* SLOW_ZONE_CLEARANCE_M
  Steps,     \* steps of a tick
  ScanAge    \* steps for which a scan is fresh, scan_time

ASSUME WorldAssumption ==
  /\ Vehicles \subseteq Nat /\ IsFiniteSet(Vehicles)
  /\ {Left, Right} \subseteq Int
  /\ {Radius, Speed, Hard, Slow, Steps} \subseteq Nat \ {0}
  /\ AutoMin \in Nat /\ ScanAge \in Nat /\ Hard <= AutoMin /\ Hard < Slow

VARIABLES
  pos, vel,   \* each vehicle's place and executed velocity
  target,     \* its controller's requested velocity
  auto,       \* is_automatic_motion_active
  seen, age,  \* the places at the last scan, and how long ago that was
  collision,  \* physics had to hold it at a wall
  left,       \* steps of this tick to go
  pc,         \* "control", "plan" or "arbitrate"
  next,       \* in "arbitrate": the candidates of the step
  blocked     \* in "arbitrate": candidates that are taken back

vars == <<pos, vel, target, auto, seen, age, collision, left, pc, next, blocked>>

Abs(n) == IF n < 0 THEN -n ELSE n
Sign(n) == IF n < 0 THEN -1 ELSE IF n > 0 THEN 1 ELSE 0
Lesser(a, b) == IF a < b THEN a ELSE b
Greater(a, b) == IF a > b THEN a ELSE b

Velocities == -Speed..Speed
Still == [v \in Vehicles |-> 0]

\* The free length between v, standing at p, and the wall in direction d.
ToWall(p, d) == IF d > 0 THEN Right - (p + Radius) ELSE (p - Radius) - Left

\* _point_segment_distance_squared on a line: how close two vehicles come that move evenly
\* from s to e, as seen from one of them.
Closest(s, e) == IF Sign(s) = Sign(e) THEN Lesser(Abs(s), Abs(e)) ELSE 0

Init ==
  /\ pos \in [Vehicles -> Left + Radius..Right - Radius]
  /\ \A u, v \in Vehicles : u < v => pos[v] - pos[u] >= 2 * Radius
  /\ vel = Still /\ target = Still /\ auto = [v \in Vehicles |-> FALSE]
  /\ seen = pos /\ age = 0 /\ collision = {}
  /\ left = 0 /\ pc = "control" /\ next = [pos |-> pos, vel |-> Still] /\ blocked = {}

(***************************************************************************)
(* SafetyGovernor.limit: the velocity allowed at a clearance.              *)
(***************************************************************************)
Stopped(clearance, automatic, minimum) ==
  LET stopping == Greater(minimum, IF automatic THEN AutoMin ELSE Hard) IN
    clearance < stopping \/ (automatic /\ clearance = stopping)

LimitedUnscaled(desired, clearance, automatic) ==   \* mutant: not divided by the zone's width
  IF automatic /\ clearance < Slow THEN desired * (clearance - Hard) ELSE desired
Limited(desired, clearance, automatic) ==
  IF automatic /\ clearance < Slow
    THEN Sign(desired) * ((Abs(desired) * (clearance - Hard)) \div (Slow - Hard))
    ELSE desired

(***************************************************************************)
(* Control.  A controller senses static walls and, by its last scan, the   *)
(* other vehicles, and installs what local safety leaves of the velocity   *)
(* it wants, or stops.  What it wants is RobotController's affair.         *)
(***************************************************************************)
Nearest(v, d) ==
  LET ahead == {u \in Vehicles \ {v} : d * (seen[u] - seen[v]) > 0}
      gaps == {Abs(seen[u] - seen[v]) - 2 * Radius : u \in ahead} \cup {ToWall(seen[v], d)} IN
    {g \in gaps : \A h \in gaps : g <= h}

Verdict(desired, clearance, automatic) ==
  IF desired = 0 \/ Stopped(clearance, automatic, 0) THEN 0 ELSE Limited(desired, clearance, automatic)

Allowed(v, automatic) ==
  UNION {{Verdict(desired, c, automatic) : c \in Nearest(v, Sign(desired))} : desired \in Velocities}

Control ==
  /\ pc = "control"
  /\ auto' \in [Vehicles -> BOOLEAN]
  /\ \E allowed \in {[v \in Vehicles |-> Allowed(v, auto'[v])]} :
       target' \in {f \in [Vehicles -> UNION {allowed[v] : v \in Vehicles}] :
                    \A v \in Vehicles : f[v] \in allowed[v]}
  /\ pc' = "plan" /\ left' = Steps
  /\ UNCHANGED <<pos, vel, seen, age, collision, next, blocked>>

(***************************************************************************)
(* One step of the world.                                                  *)
(***************************************************************************)
\* prepare_advance.
Direction(v) == Sign(IF vel[v] # 0 THEN vel[v] ELSE target[v])
Requested(v) == IF vel[v] * target[v] >= 0 THEN target[v] ELSE 0
AfterStep(v) ==
  IF Abs(Requested(v)) > Abs(vel[v]) THEN Abs(vel[v]) + 1 ELSE Greater(Abs(Requested(v)), Abs(vel[v]) - 1)
MinimumClearanceNow(v) == Hard + AfterStep(v) * AfterStep(v)   \* mutant: forgets the step itself
MinimumClearance(v) == Hard + 2 * Greater(Abs(vel[v]), AfterStep(v)) + AfterStep(v) * AfterStep(v)
Policy(v) ==
  IF auto[v] THEN Direction(v) * Speed ELSE IF Requested(v) # 0 THEN Requested(v) ELSE vel[v]
MustStop(v) == Direction(v) # 0 /\ Stopped(ToWall(pos[v], Direction(v)), auto[v], MinimumClearance(v))
Effective(v) ==
  IF Direction(v) = 0 \/ MustStop(v) THEN 0
  ELSE Sign(Requested(v)) *
         Lesser(Abs(Requested(v)), Abs(Limited(Policy(v), ToWall(pos[v], Direction(v)), auto[v])))

\* _integrate_velocity; Vehicle.advance holds a vehicle that would enter a wall.
Ramp(v) == IF vel[v] < Effective(v) THEN vel[v] + 1 ELSE IF vel[v] > Effective(v) THEN vel[v] - 1 ELSE vel[v]
Reach(v) == pos[v] + vel[v] + Ramp(v)
Hits(v) == Reach(v) - Radius < Left \/ Reach(v) + Radius > Right

\* prepare_advance of all, then advance_to on copies.
Plan ==
  /\ pc = "plan"
  /\ next' = [pos |-> [v \in Vehicles |-> IF Hits(v) THEN pos[v] ELSE Reach(v)],
              vel |-> [v \in Vehicles |-> IF Hits(v) THEN 0 ELSE Ramp(v)]]
  /\ collision' = {v \in Vehicles : Hits(v) \/ (v \in collision /\ vel[v] = 0 /\ Ramp(v) = 0)}
  /\ target' = [v \in Vehicles |-> IF Hits(v) \/ MustStop(v) THEN 0 ELSE target[v]]
  /\ blocked' = {} /\ pc' = "arbitrate"
  /\ UNCHANGED <<pos, vel, auto, seen, age, left>>

End(v) == IF v \in blocked THEN pos[v] ELSE next.pos[v]
Meet(u, v) == Closest(pos[v] - pos[u], End(v) - End(u)) < 2 * Radius
NewlyBlockedOnce ==   \* mutant: one round only
  IF blocked = {} THEN {u \in Vehicles : \E v \in Vehicles \ {u} : Meet(u, v)} ELSE {}
NewlyBlocked == {u \in Vehicles \ blocked : \E v \in Vehicles \ {u} : Meet(u, v)}

\* One round of the loop over all pairs.
Arbitrate ==
  /\ pc = "arbitrate" /\ NewlyBlocked # {}
  /\ blocked' = blocked \cup NewlyBlocked
  /\ UNCHANGED <<pos, vel, target, auto, seen, age, collision, left, pc, next>>

\* The candidates become the vehicles, those taken back forced to stop; scans are taken
\* when they are due.
Commit ==
  /\ pc = "arbitrate" /\ NewlyBlocked = {}
  /\ pos' = [v \in Vehicles |-> End(v)]
  /\ vel' = [v \in Vehicles |-> IF v \in blocked THEN 0 ELSE next.vel[v]]
  /\ target' = [v \in Vehicles |-> IF v \in blocked \/ left = 1 THEN 0 ELSE target[v]]
  /\ collision' = collision \ blocked
  /\ \/ seen' = pos' /\ age' = 0
     \/ age < ScanAge /\ age' = age + 1 /\ UNCHANGED seen
  /\ left' = left - 1 /\ pc' = IF left = 1 THEN "control" ELSE "plan"
  /\ next' = [pos |-> pos', vel |-> Still] /\ blocked' = {}
  /\ UNCHANGED auto

Next == Control \/ Plan \/ Arbitrate \/ Commit

Spec == Init /\ [][Next]_vars

(***************************************************************************)
(* Properties                                                              *)
(***************************************************************************)
TypeOK ==
  /\ pos \in [Vehicles -> Int] /\ vel \in [Vehicles -> Velocities]
  /\ target \in [Vehicles -> Velocities] /\ auto \in [Vehicles -> BOOLEAN]
  /\ seen \in [Vehicles -> Int] /\ age \in 0..ScanAge /\ collision \subseteq Vehicles
  /\ left \in 0..Steps /\ pc \in {"control", "plan", "arbitrate"}
  /\ pc # "control" => left > 0
  /\ next \in [pos : [Vehicles -> Int], vel : [Vehicles -> Velocities]] /\ blocked \subseteq Vehicles

\* Vehicles never overlap and never pass through each other, whatever their controllers
\* want and however stale their scans: they keep their order and their distance.
KeepsApart == \A u, v \in Vehicles : u < v => pos[v] - pos[u] >= 2 * Radius

\* A moving vehicle can always brake at its bounded rate and still keep Hard away from the
\* wall ahead, in Auto and Manual, whatever is commanded when; physics never has to hold it.
BrakesInTime ==
  /\ \A v \in Vehicles : vel[v] # 0 => ToWall(pos[v], Sign(vel[v])) >= Hard + vel[v] * vel[v]
  /\ collision = {}
=============================================================================
