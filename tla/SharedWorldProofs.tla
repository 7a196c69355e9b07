--------------------------- MODULE SharedWorldProofs ---------------------------
(***************************************************************************)
(* SharedWorld keeps vehicles apart and lets them brake in time, on every  *)
(* lane, for every set of vehicles, speeds, clearances and scan delays.    *)
(***************************************************************************)
EXTENDS SharedWorld, TLAPS

\* The body of a vehicle at p is between the walls.
Between(p) == p - Radius >= Left /\ p + Radius <= Right

\* A vehicle at p can brake from velocity w and keep Hard away from the wall ahead.
Braking(p, w) == w # 0 => ToWall(p, Sign(w)) >= Hard + w * w

\* BrakesInTime of the candidates of a step, and of what they started from.
Candidates ==
  \A v \in Vehicles : Between(next.pos[v]) /\ Braking(next.pos[v], next.vel[v])

IInv ==
  /\ TypeOK
  /\ \A v \in Vehicles : Between(pos[v])
  /\ KeepsApart
  /\ BrakesInTime
  /\ pc = "arbitrate" => Candidates

(***************************************************************************)
(* Arithmetic.                                                             *)
(***************************************************************************)
LEMMA ScaledDown ==
  ASSUME NEW a \in Nat, NEW p \in Nat, NEW q \in Nat \ {0}, p <= q
  PROVE  (a * p) \div q \in 0..a
<1> DEFINE k == (a * p) \div q
<1>1. k \in Nat /\ k * q <= a * p
  OBVIOUS
<1>2. a * p <= a * q
  OBVIOUS
<1>3. ~(k >= a + 1)
  <2> SUFFICES ASSUME k >= a + 1 PROVE FALSE
    OBVIOUS
  <2>1. k * q >= (a + 1) * q
    BY <1>1
  <2>2. (a + 1) * q = a * q + q
    OBVIOUS
  <2> QED
    BY <1>1, <1>2, <2>1, <2>2
<1> QED
  BY <1>1, <1>3

\* One step of a vehicle with speed a towards a wall at distance c, asked for r and
\* allowed e of it: its next speed w can again be braked.
LEMMA BrakeStep ==
  ASSUME NEW a \in Nat, NEW c \in Nat, NEW r \in Nat, NEW e \in 0..r, NEW w \in Nat,
         NEW after \in Nat,
         after = IF r > a THEN a + 1 ELSE Greater(r, a - 1),
         w = IF a < e THEN a + 1 ELSE IF a > e THEN a - 1 ELSE a,
         a > 0 => c >= Hard + a * a,
         e > 0 => c >= Hard + 2 * Greater(a, after) + after * after
  PROVE  c - (a + w) >= 0 /\ (w > 0 => c - (a + w) >= Hard + w * w)
<1>0. Hard \in Nat
  BY WorldAssumption
<1>1. CASE a < e
  <2>1. after = a + 1 /\ w = a + 1 /\ e > 0
    BY <1>1
  <2>2. c >= Hard + 2 * (a + 1) + (a + 1) * (a + 1)
    BY <2>1 DEF Greater
  <2>3. (a + 1) * (a + 1) >= 0
    OBVIOUS
  <2> QED
    BY <1>0, <2>1, <2>2, <2>3
<1>2. CASE a > e
  <2>1. w = a - 1 /\ c >= Hard + a * a
    BY <1>2
  <2>2. a * a = (a - 1) * (a - 1) + 2 * a - 1 /\ (a - 1) * (a - 1) >= 0
    BY <1>2
  <2> QED
    BY <1>0, <2>1, <2>2
<1>3. CASE a = e /\ a = 0
  BY <1>3
<1>4. CASE a = e /\ a > 0
  <2>1. w = a /\ after >= a /\ Greater(a, after) = after
    BY <1>4 DEF Greater
  <2>2. c >= Hard + 2 * after + after * after
    BY <1>4, <2>1
  <2>3. after * after >= a * a /\ a * a >= 0
    BY <2>1
  <2> QED
    BY <1>0, <2>1, <2>2, <2>3
<1> QED
  BY <1>1, <1>2, <1>3, <1>4

\* The sign of an integer and the product of two whose signs agree.
LEMMA Signs ==
  ASSUME NEW a \in Int, NEW b \in Int
  PROVE  /\ Sign(a) \in {-1, 0, 1} /\ Abs(a) \in Nat /\ Sign(a) * Abs(a) = a
         /\ a * b >= 0 <=> (a >= 0 /\ b >= 0) \/ (a <= 0 /\ b <= 0)
<1>1. CASE a > 0
  <2>1. b >= 0 => a * b >= 0
    BY <1>1
  <2>2. b < 0 => a * b < 0
    BY <1>1
  <2> QED
    BY <1>1, <2>1, <2>2 DEF Sign, Abs
<1>2. CASE a < 0
  <2>1. b <= 0 => a * b >= 0
    BY <1>2
  <2>2. b > 0 => a * b < 0
    BY <1>2
  <2> QED
    BY <1>2, <2>1, <2>2 DEF Sign, Abs
<1>3. CASE a = 0
  <2>1. a * b = 0
    BY <1>3
  <2> QED
    BY <1>3, <2>1 DEF Sign, Abs
<1> QED
  BY <1>1, <1>2, <1>3

(***************************************************************************)
(* SafetyGovernor.limit never asks for more than was desired, and never    *)
(* for the other direction, where it does not order a stop.                *)
(***************************************************************************)
LEMMA LimitedType ==
  ASSUME NEW desired \in Velocities, NEW clearance \in Int, NEW automatic \in BOOLEAN,
         NEW minimum \in Int, ~Stopped(clearance, automatic, minimum)
  PROVE  Limited(desired, clearance, automatic) \in Velocities
<1>0. /\ Speed \in Nat /\ Hard \in Nat /\ Slow \in Nat /\ AutoMin \in Nat
      /\ Hard <= AutoMin /\ Hard < Slow
  BY WorldAssumption
<1>1. CASE automatic /\ clearance < Slow
  <2>1. clearance >= Hard
    BY <1>0, <1>1 DEF Stopped, Greater
  <2> DEFINE p == clearance - Hard
             q == Slow - Hard
             k == (Abs(desired) * p) \div q
  <2>2. p \in Nat /\ q \in Nat \ {0} /\ p <= q /\ desired \in Int /\ Abs(desired) \in Nat
    BY <1>0, <1>1, <2>1 DEF Velocities, Abs
  <2>3. k \in 0..Abs(desired)
    <3> HIDE DEF p, q
    <3> QED
      BY <2>2, ScaledDown DEF k
  <2>4. Limited(desired, clearance, automatic) = Sign(desired) * k
    BY <1>1 DEF Limited
  <2> HIDE DEF k
  <2> QED
    BY <1>0, <2>2, <2>3, <2>4 DEF Velocities, Sign, Abs
<1>2. CASE ~(automatic /\ clearance < Slow)
  BY <1>2 DEF Limited
<1> QED
  BY <1>1, <1>2

\* Control installs velocities within the vehicle's speed.
LEMMA AllowedType ==
  ASSUME TypeOK, NEW v \in Vehicles, NEW automatic \in BOOLEAN
  PROVE  Allowed(v, automatic) \subseteq Velocities
<1>0. /\ Speed \in Nat /\ Radius \in Int /\ Left \in Int /\ Right \in Int
      /\ \A u \in Vehicles : seen[u] \in Int
  BY WorldAssumption DEF TypeOK
<1> SUFFICES ASSUME NEW desired \in Velocities, NEW c \in Nearest(v, Sign(desired))
             PROVE  Verdict(desired, c, automatic) \in Velocities
  BY DEF Allowed
<1>1. c \in Int
  BY <1>0 DEF Nearest, ToWall, Abs
<1>2. CASE desired = 0 \/ Stopped(c, automatic, 0)
  BY <1>0, <1>2 DEF Verdict, Velocities
<1>3. CASE ~(desired = 0 \/ Stopped(c, automatic, 0))
  <2>1. Limited(desired, c, automatic) \in Velocities
    BY <1>1, <1>3, LimitedType
  <2> QED
    BY <1>3, <2>1 DEF Verdict
<1> QED
  BY <1>2, <1>3

(***************************************************************************)
(* One vehicle, one step.                                                  *)
(***************************************************************************)
\* What local safety leaves of a request points the same way and is no more than the
\* request; something is left only where the step and the braking after it fit.
LEMMA EffectiveIsSafe ==
  ASSUME TypeOK, NEW v \in Vehicles
  PROVE  /\ Requested(v) \in Velocities
         /\ \E e \in 0..Abs(Requested(v)) :
              /\ Effective(v) = Sign(Requested(v)) * e
              /\ e > 0 => ToWall(pos[v], Direction(v)) >= MinimumClearance(v)
<1>0. /\ Speed \in Nat /\ Speed > 0 /\ Radius \in Int /\ Left \in Int /\ Right \in Int /\ Hard \in Nat
      /\ vel[v] \in Velocities /\ target[v] \in Velocities /\ auto[v] \in BOOLEAN /\ pos[v] \in Int
  BY WorldAssumption DEF TypeOK
<1>1. Requested(v) \in Velocities /\ Requested(v) \in Int /\ Abs(Requested(v)) \in Nat
  BY <1>0 DEF Requested, Velocities, Abs
<1>2. CASE Direction(v) = 0 \/ MustStop(v)
  <2>1. Effective(v) = Sign(Requested(v)) * 0
    BY <1>0, <1>1, <1>2 DEF Effective, Sign
  <2> QED
    BY <1>1, <2>1
<1>3. CASE ~(Direction(v) = 0 \/ MustStop(v))
  <2> DEFINE c == ToWall(pos[v], Direction(v))
             l == Limited(Policy(v), c, auto[v])
             e == Lesser(Abs(Requested(v)), Abs(l))
  <2>1. Direction(v) \in {-1, 1}
    BY <1>0, <1>3 DEF Direction, Sign, Velocities
  <2>2. c \in Int /\ ~Stopped(c, auto[v], MinimumClearance(v))
    BY <1>0, <1>3, <2>1 DEF MustStop, ToWall
  <2>3. MinimumClearance(v) \in Int
    BY <1>0, <1>1 DEF MinimumClearance, AfterStep, Abs, Greater, Velocities
  <2>4. Policy(v) \in Velocities
    BY <1>0, <1>1, <2>1 DEF Policy, Velocities
  <2>5. l \in Velocities
    <3> HIDE DEF c
    <3> QED
      BY <1>0, <2>2, <2>3, <2>4, LimitedType
  <2>6. c >= MinimumClearance(v)
    BY <1>0, <2>2, <2>3, WorldAssumption DEF Stopped, Greater
  <2>7. e \in 0..Abs(Requested(v))
    <3> HIDE DEF l
    <3> QED
      BY <1>0, <1>1, <2>5 DEF Velocities, Abs, Lesser
  <2>8. Effective(v) = Sign(Requested(v)) * e
    BY <1>3 DEF Effective
  <2> HIDE DEF e
  <2> QED
    BY <1>1, <2>6, <2>7, <2>8
<1> QED
  BY <1>1, <1>2, <1>3

\* A vehicle that can brake does not hit a wall in the step, and can brake after it.
LEMMA VehicleStep ==
  ASSUME TypeOK, NEW v \in Vehicles, Between(pos[v]), Braking(pos[v], vel[v])
  PROVE  /\ Reach(v) \in Int /\ Ramp(v) \in Velocities
         /\ ~Hits(v) /\ Between(Reach(v)) /\ Braking(Reach(v), Ramp(v))
<1>0. /\ Speed \in Nat /\ Radius \in Int /\ Left \in Int /\ Right \in Int /\ Hard \in Nat
      /\ vel[v] \in Velocities /\ target[v] \in Velocities /\ pos[v] \in Int
      /\ vel[v] \in Int /\ target[v] \in Int
  BY WorldAssumption DEF TypeOK, Velocities
<1> DEFINE d == Direction(v)
           a == Abs(vel[v])
           r == Abs(Requested(v))
           c == ToWall(pos[v], d)
           after == AfterStep(v)
<1>1. PICK e \in 0..r : /\ Effective(v) = Sign(Requested(v)) * e
                        /\ e > 0 => c >= MinimumClearance(v)
  BY EffectiveIsSafe
<1>2. Requested(v) \in Velocities /\ Requested(v) \in Int
  BY EffectiveIsSafe, <1>0 DEF Velocities
<1>3. a \in Nat /\ r \in Nat /\ a <= Speed /\ r <= Speed /\ e \in Nat /\ e <= Speed /\ after \in Nat
  BY <1>0, <1>1, <1>2 DEF Abs, Velocities, AfterStep, Greater
<1>4. CASE d = 0
  <2>1. vel[v] = 0 /\ target[v] = 0 /\ Requested(v) = 0
    BY <1>0, <1>4 DEF Direction, Sign, Requested
  <2>2. Effective(v) = 0
    BY <1>1, <2>1 DEF Sign
  <2>3. Ramp(v) = 0 /\ Reach(v) = pos[v]
    BY <1>0, <2>1, <2>2 DEF Ramp, Reach
  <2> QED
    BY <1>0, <2>3 DEF Hits, Between, Braking, Velocities
<1>5. CASE d # 0
  <2> DEFINE w == IF a < e THEN a + 1 ELSE IF a > e THEN a - 1 ELSE a
  <2>1. /\ d \in {-1, 1}
        /\ d = 1 => vel[v] = a /\ Requested(v) = r /\ Effective(v) = e
        /\ d = -1 => vel[v] = -a /\ Requested(v) = -r /\ Effective(v) = -e
    <3>1. d \in {-1, 1} /\ (vel[v] # 0 => d = Sign(vel[v])) /\ (vel[v] = 0 => d = Sign(target[v]))
      BY <1>0, <1>5 DEF Direction, Sign
    <3>2. vel[v] * target[v] >= 0
            <=> (vel[v] >= 0 /\ target[v] >= 0) \/ (vel[v] <= 0 /\ target[v] <= 0)
      BY <1>0, Signs
    <3>3. (d = 1 => vel[v] >= 0 /\ Requested(v) >= 0) /\ (d = -1 => vel[v] <= 0 /\ Requested(v) <= 0)
      BY <1>0, <3>1, <3>2 DEF Requested, Sign
    <3>4. e \in Int /\ (Requested(v) = 0 => e = 0)
      BY <1>1, <1>3 DEF Abs
    <3>5. CASE d = 1
      BY <1>0, <1>1, <1>2, <3>3, <3>4, <3>5 DEF Abs, Sign
    <3>6. CASE d = -1
      BY <1>0, <1>1, <1>2, <3>3, <3>4, <3>6 DEF Abs, Sign
    <3> QED
      BY <3>1, <3>5, <3>6
  <2>2. c \in Nat /\ (a > 0 => c >= Hard + a * a)
    <3>1. c \in Nat
      BY <1>0, <2>1 DEF ToWall, Between
    <3>2. a > 0 => vel[v] # 0 /\ Sign(vel[v]) = d /\ vel[v] * vel[v] = a * a
      BY <1>0, <1>3, <2>1 DEF Sign
    <3> QED
      BY <3>1, <3>2 DEF Braking
  <2>3. w \in Nat /\ w <= Speed
    BY <1>0, <1>3
  <2>4. c - (a + w) >= 0 /\ (w > 0 => c - (a + w) >= Hard + w * w)
    <3>1. after = IF r > a THEN a + 1 ELSE Greater(r, a - 1)
      BY DEF AfterStep
    <3>2. e > 0 => c >= Hard + 2 * Greater(a, after) + after * after
      BY <1>1 DEF MinimumClearance
    <3> HIDE DEF a, r, c, after
    <3> QED
      BY <1>1, <1>3, <2>2, <2>3, <3>1, <3>2, BrakeStep
  <2>5. CASE d = 1
    <3>1. Ramp(v) = w /\ Reach(v) = pos[v] + (a + w)
      BY <1>0, <1>3, <2>1, <2>5 DEF Ramp, Reach
    <3>2. c = Right - (pos[v] + Radius)
      BY <2>5 DEF ToWall
    <3> HIDE DEF a, c, w, d
    <3> QED
      BY <1>0, <1>3, <2>3, <2>4, <3>1, <3>2 DEF Hits, Between, Braking, Velocities, ToWall, Sign
  <2>6. CASE d = -1
    <3>1. Ramp(v) = -w /\ Reach(v) = pos[v] - (a + w)
      BY <1>0, <1>3, <2>1, <2>6 DEF Ramp, Reach
    <3>2. c = (pos[v] - Radius) - Left
      BY <2>6 DEF ToWall
    <3>3. (-w) * (-w) = w * w
      BY <2>3
    <3> HIDE DEF a, c, w, d
    <3> QED
      BY <1>0, <1>3, <2>3, <2>4, <3>1, <3>2, <3>3 DEF Hits, Between, Braking, Velocities, ToWall, Sign
  <2> QED
    BY <2>1, <2>5, <2>6
<1> QED
  BY <1>4, <1>5

(***************************************************************************)
(* The vehicles of a step together.                                        *)
(***************************************************************************)
\* Two vehicles that are apart and do not meet while they move evenly end apart, in the
\* same order.
LEMMA ApartAfterMove ==
  ASSUME NEW s \in Int, NEW e \in Int, s >= 2 * Radius, Closest(s, e) >= 2 * Radius
  PROVE  e >= 2 * Radius
<1>0. Radius \in Nat \ {0}
  BY WorldAssumption
<1> QED
  BY <1>0 DEF Closest, Sign, Lesser, Abs

\* The same, seen from the vehicle ahead.
LEMMA ApartAfterMoveMirrored ==
  ASSUME NEW s \in Int, NEW e \in Int, s >= 2 * Radius, Closest(-s, -e) >= 2 * Radius
  PROVE  e >= 2 * Radius
<1>0. Radius \in Nat \ {0}
  BY WorldAssumption
<1> QED
  BY <1>0 DEF Closest, Sign, Lesser, Abs

\* When a round of arbitration takes nobody back, everybody ends apart.
LEMMA SettledIsApart ==
  ASSUME TypeOK, KeepsApart, NewlyBlocked = {},
         NEW u \in Vehicles, NEW v \in Vehicles, u < v
  PROVE  End(v) - End(u) >= 2 * Radius
<1>0. /\ u # v /\ pos[u] \in Int /\ pos[v] \in Int /\ End(u) \in Int /\ End(v) \in Int
      /\ Radius \in Nat /\ pos[v] - pos[u] >= 2 * Radius
  BY WorldAssumption DEF TypeOK, KeepsApart, End
<1>1. CASE u \in blocked /\ v \in blocked
  BY <1>0, <1>1 DEF End
<1>2. CASE u \notin blocked
  <2>1. ~Meet(u, v)
    BY <1>0, <1>2 DEF NewlyBlocked
  <2>2. Closest(pos[v] - pos[u], End(v) - End(u)) >= 2 * Radius
    BY <1>0, <2>1 DEF Meet, Closest, Sign, Lesser, Abs
  <2> QED
    BY <1>0, <2>2, ApartAfterMove
<1>3. CASE v \notin blocked
  <2> DEFINE s == pos[v] - pos[u]
             e == End(v) - End(u)
  <2>1. ~Meet(v, u)
    BY <1>0, <1>3 DEF NewlyBlocked
  <2>2. s \in Int /\ e \in Int /\ pos[u] - pos[v] = -s /\ End(u) - End(v) = -e
    BY <1>0
  <2>3. Closest(-s, -e) >= 2 * Radius
    <3>1. ~(Closest(-s, -e) < 2 * Radius)
      BY <2>1, <2>2 DEF Meet
    <3> HIDE DEF s, e
    <3> QED
      BY <1>0, <2>2, <3>1 DEF Closest, Sign, Lesser, Abs
  <2>4. e >= 2 * Radius
    <3>1. s >= 2 * Radius
      BY <1>0
    <3> HIDE DEF s, e
    <3> QED
      BY <2>2, <2>3, <3>1, ApartAfterMoveMirrored
  <2> QED
    BY <2>4
<1> QED
  BY <1>1, <1>2, <1>3

(***************************************************************************)
(* The actions.                                                            *)
(***************************************************************************)
LEMMA InitEstablishes == Init => IInv
<1> SUFFICES ASSUME Init PROVE IInv
  OBVIOUS
<1>0. /\ Speed \in Nat /\ Radius \in Int /\ Left \in Int /\ Right \in Int
      /\ Steps \in Nat /\ ScanAge \in Nat /\ 0 \in Velocities
  BY WorldAssumption DEF Velocities
<1>1. pos \in [Vehicles -> Int] /\ \A v \in Vehicles : Between(pos[v])
  BY <1>0 DEF Init, Between
<1>2. Still \in [Vehicles -> Velocities]
  BY <1>0 DEF Still
<1>3. TypeOK
  BY <1>0, <1>1, <1>2 DEF Init, TypeOK
<1>4. KeepsApart
  BY DEF Init, KeepsApart
<1>5. BrakesInTime
  BY DEF Init, BrakesInTime, Still
<1> QED
  BY <1>1, <1>3, <1>4, <1>5 DEF IInv, Init

\* The controllers decide.
LEMMA ControlPreserves == IInv /\ Control => IInv'
<1> SUFFICES ASSUME IInv, Control PROVE IInv'
  OBVIOUS
<1> USE DEF IInv
<1>1. target' \in [Vehicles -> Velocities]
  <2>0. auto' \in [Vehicles -> BOOLEAN]
    BY DEF Control
  <2> DEFINE allowed == [v \in Vehicles |-> Allowed(v, auto'[v])]
  <2>1. target' \in {f \in [Vehicles -> UNION {allowed[v] : v \in Vehicles}] :
                       \A v \in Vehicles : f[v] \in allowed[v]}
    BY DEF Control
  <2>2. \A v \in Vehicles : allowed[v] \subseteq Velocities
    BY <2>0, AllowedType
  <2> HIDE DEF allowed
  <2> QED
    BY <2>1, <2>2
<1>2. Steps \in Nat \ {0}
  BY WorldAssumption
<1>3. TypeOK'
  BY <1>1, <1>2 DEF TypeOK, Control
<1>4. (\A v \in Vehicles : Between(pos[v]))'
  BY DEF Control, Between
<1>5. KeepsApart'
  BY DEF Control, KeepsApart
<1>6. BrakesInTime'
  BY DEF Control, BrakesInTime, ToWall
<1> QED
  BY <1>3, <1>4, <1>5, <1>6 DEF Control

\* Local safety and physics plan the moves of a step.
LEMMA PlanPreserves == IInv /\ Plan => IInv'
<1> SUFFICES ASSUME IInv, Plan PROVE IInv'
  OBVIOUS
<1> USE DEF IInv
<1>1. \A v \in Vehicles : /\ Reach(v) \in Int /\ Ramp(v) \in Velocities
                          /\ ~Hits(v) /\ Between(Reach(v)) /\ Braking(Reach(v), Ramp(v))
  BY VehicleStep DEF BrakesInTime, Braking
<1>2. next' = [pos |-> [v \in Vehicles |-> Reach(v)], vel |-> [v \in Vehicles |-> Ramp(v)]]
  BY <1>1 DEF Plan
<1>3. collision' = {}
  BY <1>1 DEF Plan, BrakesInTime
<1>4. target' \in [Vehicles -> Velocities]
  <2>1. 0 \in Velocities
    BY WorldAssumption DEF Velocities
  <2> QED
    BY <2>1 DEF Plan, TypeOK
<1>5. TypeOK'
  BY <1>1, <1>2, <1>3, <1>4 DEF TypeOK, Plan
<1>6. (\A v \in Vehicles : Between(pos[v]))'
  BY DEF Plan, Between
<1>7. KeepsApart'
  BY DEF Plan, KeepsApart
<1>8. BrakesInTime'
  BY <1>3 DEF Plan, BrakesInTime, ToWall
<1>9. Candidates'
  BY <1>1, <1>2 DEF Candidates, Between, Braking, ToWall
<1> QED
  BY <1>5, <1>6, <1>7, <1>8, <1>9

\* Moves that meet another vehicle are taken back.
LEMMA ArbitratePreserves == IInv /\ Arbitrate => IInv'
<1> SUFFICES ASSUME IInv, Arbitrate PROVE IInv'
  OBVIOUS
<1> USE DEF IInv
<1>1. blocked' \subseteq Vehicles
  BY DEF Arbitrate, NewlyBlocked, TypeOK
<1>2. TypeOK'
  BY <1>1 DEF TypeOK, Arbitrate
<1>3. (\A v \in Vehicles : Between(pos[v]))' /\ KeepsApart' /\ BrakesInTime'
  BY DEF Arbitrate, Between, KeepsApart, BrakesInTime, ToWall
<1>4. Candidates'
  BY DEF Arbitrate, Candidates, Between, Braking, ToWall
<1> QED
  BY <1>2, <1>3, <1>4

\* The moves that are left are committed and clocks and scans go on.
LEMMA CommitPreserves == IInv /\ Commit => IInv'
<1> SUFFICES ASSUME IInv, Commit PROVE IInv'
  OBVIOUS
<1> USE DEF IInv
<1>0. 0 \in Velocities /\ Steps \in Nat /\ ScanAge \in Nat
  BY WorldAssumption DEF Velocities
<1>1. /\ pos' = [v \in Vehicles |-> End(v)] /\ \A v \in Vehicles : End(v) \in Int
      /\ vel' = [v \in Vehicles |-> IF v \in blocked THEN 0 ELSE next.vel[v]]
      /\ collision' = {}
  BY DEF Commit, End, TypeOK, BrakesInTime
<1>2. TypeOK'
  <2>1. pos' \in [Vehicles -> Int] /\ seen' \in [Vehicles -> Int]
    BY <1>1 DEF Commit, TypeOK
  <2>2. vel' \in [Vehicles -> Velocities] /\ target' \in [Vehicles -> Velocities]
    BY <1>0, <1>1 DEF Commit, TypeOK
  <2>3. age' \in 0..ScanAge
    BY <1>0 DEF Commit, TypeOK
  <2>4. /\ left' \in 0..Steps /\ pc' \in {"control", "plan", "arbitrate"}
        /\ pc' # "control" => left' > 0
    BY <1>0 DEF Commit, TypeOK
  <2>5. next' \in [pos : [Vehicles -> Int], vel : [Vehicles -> Velocities]]
    BY <1>0, <2>1 DEF Commit, Still
  <2>6. auto' \in [Vehicles -> BOOLEAN] /\ blocked' = {}
    BY DEF Commit, TypeOK
  <2> QED
    BY <1>1, <2>1, <2>2, <2>3, <2>4, <2>5, <2>6 DEF TypeOK
<1>3. (\A v \in Vehicles : Between(pos[v]))'
  BY <1>1 DEF Commit, Candidates, End, Between
<1>4. KeepsApart'
  <2>1. \A u, v \in Vehicles : u < v => End(v) - End(u) >= 2 * Radius
    BY SettledIsApart DEF Commit
  <2> QED
    BY <1>1, <2>1 DEF KeepsApart
<1>5. BrakesInTime'
  BY <1>1 DEF Commit, Candidates, End, Braking, BrakesInTime, ToWall
<1>6. pc' # "arbitrate"
  BY DEF Commit
<1> QED
  BY <1>2, <1>3, <1>4, <1>5, <1>6

\* The inductive invariant holds in every state the fleet reaches.
LEMMA Inductive == Spec => []IInv
<1>1. IInv /\ [Next]_vars => IInv'
  <2> SUFFICES ASSUME IInv, [Next]_vars PROVE IInv'
    OBVIOUS
  <2>1. CASE UNCHANGED vars
    BY <2>1 DEF vars, IInv, TypeOK, Between, KeepsApart, BrakesInTime, ToWall, Candidates, Braking
  <2> QED
    BY <2>1, ControlPreserves, PlanPreserves, ArbitratePreserves, CommitPreserves DEF Next
<1> QED
  BY <1>1, InitEstablishes, PTL DEF Spec

(***************************************************************************)
(* Theorems.                                                               *)
(***************************************************************************)
\* Type correctness: local safety never asks for more than the vehicle's speed, and no
\* step leaves the ranges of the clocks and counters.
THEOREM TypeCorrect == Spec => []TypeOK
BY Inductive, PTL DEF IInv

\* fleet.py, SharedWorld: on the committed poses, which the bridges publish, no two
\* vehicles are nearer than two radii, nor have they passed through each other.
THEOREM StaysApart == Spec => []KeepsApart
BY Inductive, PTL DEF IInv

\* safety.py, LocalSafetyRuntime: whatever is commanded when, a vehicle can always brake
\* Hard short of the wall ahead, so that physics never has to hold one.
THEOREM CanBrake == Spec => []BrakesInTime
BY Inductive, PTL DEF IInv
=============================================================================
