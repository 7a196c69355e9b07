----------------------------- MODULE GotoController -----------------------------
(***************************************************************************)
(* Goal following (navigation.py, GotoController) as RobotController.tick  *)
(* drives it: exact goal or a safe stop nearby, planning spread over       *)
(* control ticks, waits for peers, and the classification of "no path"     *)
(* against the vehicle's own map.                                          *)
(*                                                                         *)
(* The planner is an oracle that answers by the world as it is; DStarLite  *)
(* models how it gets there.  The world says of every goal what covers it  *)
(* and what cuts the way to it: a peer (known from its state), an          *)
(* anonymous dynamic obstacle (LiDAR only) or a wall (in the own map).     *)
(* A tick is a sequence of steps, named by pc; the world and the pose      *)
(* change between ticks only.                                              *)
(***************************************************************************)
EXTENDS Naturals, Sequences, FiniteSets

CONSTANTS
  Exact,       \* requested_goal
  Nearby,      \* _safe_candidates, in their order
  Connected,   \* candidates with a clear segment to the requested goal
  Worlds,      \* the situations that occur
  None,
  Slices,      \* ticks a search on the own map takes
  MaxInspections, \* MAX_CANDIDATE_INSPECTIONS_PER_MISSION
  Shared,      \* BOOLEAN: coordination uses the own-map planner too
  MaxPending,  \* bound: ticks one planning session is left pending
  MaxChanges   \* bound: changes of the world

Goals == {Exact} \cup {Nearby[k] : k \in DOMAIN Nearby}

\* "beside": a peer touches the last segment to the goal, not the goal itself.
Causes == {"none", "beside", "peer", "anonymous", "wall"}

ASSUME GotoAssumption ==
  /\ Nearby \in Seq(Goals) /\ Connected \subseteq Goals \ {Exact} /\ Shared \in BOOLEAN
  /\ {Slices, MaxInspections} \subseteq Nat \ {0} /\ {MaxPending, MaxChanges} \subseteq Nat
  /\ Worlds \subseteq [here : [Goals -> Causes], way : [Goals -> Causes \ {"beside"}],
                       seen : [Goals -> BOOLEAN], start : {"none", "peer", "wall"},
                       peers : BOOLEAN]

\* Only peers whose state is known block anything as peers, and where the segment from a
\* candidate to the goal is clear, what cuts the way to the goal cuts the way to it.
ASSUME WorldAssumption ==
  \A w \in Worlds :
    /\ w.start = "peer" => w.peers
    /\ \A g \in Goals : w.here[g] \in {"peer", "beside"} \/ w.way[g] = "peer" => w.peers
    /\ w.way[Exact] \in {"anonymous", "wall"} =>
         \A c \in Connected : w.here[Exact] \in {"none", "beside"} /\ w.here[c] \in {"none", "beside"}
                              => w.way[c] \notin {"none", "peer"}

ASSUME NoneAssumption ==
  None \notin Goals \cup {"goal", "candidate", "step", "exact", "approaching_safe_stop",
                        "nearby_safe", "no_path", "safety"}

VARIABLES
  nav,      \* the attributes of the controller
  route,    \* _coordination_request and the slices its search still needs
  pc,       \* where the control tick is
  at, there,\* the goal whose cell the pose is in, and whether it is within tolerance
  moved,    \* _path[0] is not the cell of the pose
  delta,    \* the changes of this tick that the planner was not told yet
  missed,   \* history: changes were dropped untold
  world,
  quiet,    \* history: the world has not changed since this plan was begun, for Exact
  changes, pending  \* bounds

vars == <<nav, route, pc, at, there, moved, delta, missed, world, quiet, changes, pending>>

(***************************************************************************)
(* The world as the planner and its segment queries see it.                *)
(***************************************************************************)
PeerCauses(ignore) == IF ignore THEN {"peer", "beside"} ELSE {}

CandidateIsSafe(g, observed, ignore) ==
  world.here[g] \in {"none"} \cup PeerCauses(ignore) /\ (observed => world.seen[g])

FinalApproachSegmentIsSafe(g, ignore) ==
  world.here[g] \in {"none", "beside"} \cup PeerCauses(ignore)

StartConnection(ignore) == world.start \in {"none"} \cup PeerCauses(ignore)

Covered(g) == world.here[g] \notin {"none", "beside"}

\* What advance_plan may answer for goal g, and whether it blames peers.
Answers(g) ==
  LET answer(failure, peer) == [failure |-> failure, peer |-> peer] IN
  IF missed THEN [failure : {"ready", "goal_unreachable"}, peer : {FALSE}]
                 \cup [failure : {"goal_unreachable"}, peer : {world.peers}]
  ELSE UNION {
    IF world.start = "none" THEN {} ELSE {answer("start_blocked", world.start = "peer")},
    IF Covered(g) THEN {answer("goal_blocked", world.here[g] = "peer")}
    ELSE IF world.way[g] # "none" THEN {answer("goal_unreachable", world.way[g] = "peer")}
    ELSE {answer("ready", FALSE)}}

TransientActive ==
  world.peers \/ \E g \in Goals : "anonymous" \in {world.here[g], world.way[g]}

\* The own map has a route to the requested goal.
OwnMapRoute == /\ world.here[Exact] # "wall" /\ world.way[Exact] # "wall"
               /\ world.start # "wall"

(***************************************************************************)
(* The attributes of the controller.                                       *)
(***************************************************************************)
Idle ==
  [status |-> "idle", reason |-> None, mode |-> None, goal |-> Exact, path |-> None,
   target |-> None, planning |-> None, final |-> FALSE, waiting |-> FALSE,
   restart |-> FALSE, probe |-> FALSE, attributed |-> FALSE, grace |-> FALSE,
   index |-> 0, candidate |-> FALSE, inspections |-> 0, skip |-> FALSE, stop |-> FALSE,
   blame |-> FALSE, recovered |-> FALSE]

\* _clear_pending_planning.
Cleared(n) == [n EXCEPT !.planning = None, !.index = 0, !.candidate = FALSE,
                        !.skip = FALSE, !.blame = FALSE]

NotWaiting(n) == [n EXCEPT !.waiting = FALSE, !.restart = FALSE, !.probe = FALSE,
                           !.attributed = FALSE]

\* block.
Blocked(n, reason) ==
  [Cleared(NotWaiting(n)) EXCEPT !.status = "blocked", !.reason = reason,
                                 !.final = FALSE, !.stop = FALSE]

\* _wait_for_peer_replan.
WaitsStillPlanning(n, restart) ==
  [NotWaiting(n) EXCEPT !.status = "active", !.reason = None, !.path = None,
                        !.target = None, !.waiting = TRUE, !.restart = restart]
Waits(n, restart) ==
  [Cleared(NotWaiting(n)) EXCEPT !.status = "active", !.reason = None, !.path = None,
                                 !.target = None, !.waiting = TRUE, !.restart = restart]

\* _block_no_path.
BlockNoPathAlways(n, peer) == [Blocked(n, "no_path") EXCEPT !.path = None, !.target = None]
BlockNoPath(n, peer) ==
  IF peer THEN Waits(n, FALSE)
  ELSE [Blocked(n, "no_path") EXCEPT !.path = None, !.target = None]

\* _complete_planning, with the path to the goal.
Completed(n) ==
  [Cleared(NotWaiting(n)) EXCEPT !.status = "active", !.reason = None,
                                 !.path = n.goal, !.target = None]

\* _begin_safe_goal_search.
BeginSafeGoalSearch(n, skip, peer) ==
  [n EXCEPT !.final = FALSE, !.planning = "candidate", !.mode = "approaching_safe_stop",
            !.skip = skip, !.index = 0, !.candidate = FALSE, !.target = None,
            !.stop = FALSE, !.blame = peer]

\* _resume_after_transient.
ResumeAfterTransient(n) ==
  [Cleared(NotWaiting(n)) EXCEPT !.path = None, !.goal = Exact, !.mode = "exact",
     !.final = FALSE, !.status = "active", !.reason = None, !.target = None,
     !.stop = FALSE, !.planning = "goal", !.recovered = FALSE]

Mode(g) == IF CandidateIsSafe(g, TRUE, FALSE) THEN "nearby_safe" ELSE "approaching_safe_stop"

(***************************************************************************)
(* Commands, the world and the pose: between two ticks.                    *)
(***************************************************************************)
Init ==
  /\ nav = Idle /\ pc = "idle"
  /\ route = [request |-> None, left |-> 0]
  /\ at = None /\ there = FALSE /\ moved = FALSE
  /\ delta = FALSE /\ missed = FALSE
  /\ world \in Worlds /\ quiet = FALSE
  /\ changes = 0 /\ pending = 0

Start ==
  /\ pc = "idle" /\ nav.status # "active"
  /\ nav' = [Idle EXCEPT !.status = "active", !.mode = "exact", !.planning = "goal"]
  /\ route' = [request |-> None, left |-> 0]
  /\ at' = None /\ there' = FALSE /\ moved' = FALSE
  /\ missed' = FALSE /\ quiet' = ~delta /\ pending' = 0
  /\ UNCHANGED <<pc, delta, world, changes>>

Cancel ==
  /\ pc = "idle" /\ nav.status \in {"active", "blocked"}
  /\ nav' = [Cleared(NotWaiting(nav)) EXCEPT !.final = FALSE, !.stop = FALSE,
                                             !.status = "cancelled", !.reason = None]
  /\ UNCHANGED <<route, pc, at, there, moved, delta, missed, world, quiet, changes, pending>>

\* The scanner or a peer's state changes one thing about the world; a peer may come or
\* go with it.
OneChange(w, v) ==
  \/ \E g \in Goals : \/ v = [w EXCEPT !.here[g] = v.here[g], !.peers = v.peers]
                    \/ v = [w EXCEPT !.way[g] = v.way[g], !.peers = v.peers]
                    \/ v = [w EXCEPT !.seen[g] = v.seen[g]]
  \/ v = [w EXCEPT !.start = v.start, !.peers = v.peers]
Successors == [w \in Worlds |-> {v \in Worlds \ {w} : OneChange(w, v)}]

\* A change of the own map restarts the search on it.
Change ==
  /\ pc = "idle" /\ changes < MaxChanges
  /\ world' \in Successors[world]
  /\ delta' = TRUE /\ quiet' = FALSE
  /\ route' = [route EXCEPT !.request = None]
  /\ changes' = changes + 1
  /\ UNCHANGED <<nav, pc, at, there, moved, missed, pending>>

\* The vehicle follows its setpoint: on along the path, into the cell of the goal, to
\* within the tolerance.
Move ==
  /\ pc = "idle" /\ nav.status = "active" /\ nav.target # None
  /\ \/ /\ nav.target = "step" /\ at # nav.path
        /\ at' \in {None, nav.path} /\ there' = FALSE /\ moved' = TRUE
     \/ /\ nav.target = "goal"
        /\ at' = nav.goal /\ there' = TRUE /\ moved' = (moved \/ at # nav.goal)
  /\ UNCHANGED <<nav, route, pc, delta, missed, world, quiet, changes, pending>>

(***************************************************************************)
(* A control tick.                                                         *)
(***************************************************************************)
Keep == UNCHANGED <<at, there, world, changes>>

Go(n, next) == nav' = n /\ pc' = next

\* Collision, safety stop, lost localisation: the end of the attempt, or a stop that
\* is near enough to count (finish_nearby_safe_stop).
TickUnsafe ==
  /\ pc = "idle" /\ nav.status = "active"
  /\ \/ Go(Blocked(nav, "safety"), "idle")
     \/ /\ at # None
        /\ Go([Cleared(nav) EXCEPT !.status = "reached", !.mode = "nearby_safe",
                  !.final = FALSE, !.target = None, !.stop = FALSE, !.restart = FALSE,
                  !.probe = FALSE, !.attributed = FALSE], "idle")
  /\ delta' = FALSE /\ missed' = (missed \/ delta)
  /\ UNCHANGED <<route, moved, quiet, pending>> /\ Keep

\* The navigation is not asked: the static probe goes on, or a corridor is waited for.
TickProbe ==
  /\ pc = "idle" /\ nav.status = "active" /\ nav.probe
  /\ pc' = "classify"
  /\ UNCHANGED <<nav, route, moved, delta, missed, quiet, pending>> /\ Keep

TickCorridorWait ==
  /\ pc = "idle" /\ nav.status = "active" /\ ~nav.probe /\ Shared
  /\ pc' = "coordinate"
  /\ UNCHANGED <<nav, route, moved, delta, missed, quiet, pending>> /\ Keep

\* update, up to planning.  A wait ends when the world changes.
Updating == pc = "idle" /\ nav.status = "active" /\ ~nav.probe

UpdateWaits ==
  /\ Updating /\ nav.waiting /\ ~delta
  /\ pc' = "coordinate"
  /\ UNCHANGED <<nav, route, moved, delta, missed, quiet, pending>> /\ Keep

Woken(n) ==
  IF ~n.waiting THEN n
  ELSE [n EXCEPT !.waiting = FALSE, !.restart = FALSE, !.goal = Exact, !.mode = "exact",
                 !.planning = "goal", !.blame = FALSE,
                 !.recovered = @ /\ ~n.restart]

\* Given a controller that does not wait: what it plans, if anything.
Planning(n) ==
  IF ~n.final /\ n.planning = None /\ (n.path = None \/ moved \/ delta)
    THEN [n EXCEPT !.planning = "goal", !.target = None, !.blame = FALSE]
    ELSE n

Update ==
  /\ Updating /\ (nav.waiting => delta)
  /\ LET n == Woken(nav)
         p == Planning(n)
         told == n.final \/ nav.restart  \* observe_changes, restart_plan
     IN  /\ IF n.final /\ ~FinalApproachSegmentIsSafe(n.goal, FALSE)
              THEN Go(BeginSafeGoalSearch(n, FALSE, FinalApproachSegmentIsSafe(n.goal, TRUE)),
                      "coordinate")
              ELSE Go(p, CASE p.planning = "goal"      -> "plan"
                           [] p.planning = "candidate" -> "search"
                           [] OTHER                    -> "drive")
         /\ delta' = (delta /\ ~told)
         /\ missed' = (missed /\ ~nav.restart)
         /\ quiet' = IF p.planning # nav.planning THEN p.goal = Exact ELSE quiet /\ ~n.final
         /\ pending' = IF p.planning # nav.planning THEN 0 ELSE pending
  /\ UNCHANGED <<route, moved>> /\ Keep

\* The planner has not finished its slice of this tick.
PlanPending ==
  /\ pc = "plan" \/ (pc = "search" /\ nav.candidate)
  /\ pending < MaxPending
  /\ pending' = pending + 1
  /\ delta' = FALSE
  /\ pc' = "coordinate"
  /\ UNCHANGED <<nav, route, moved, missed, quiet>> /\ Keep

After(n) == IF n.status = "blocked" THEN "classify" ELSE "coordinate"

\* _advance_planning, the search for the current goal.
PlanGoal ==
  /\ pc = "plan"
  /\ \E a \in Answers(nav.goal) :
       LET ready == a.failure = "ready"
           set   == [nav EXCEPT !.path = nav.goal]
           safe  == IF nav.mode = "exact" THEN ~Covered(nav.goal)
                    ELSE CandidateIsSafe(nav.goal, FALSE, FALSE) /\ StartConnection(FALSE)
           peer  == IF nav.mode = "exact" THEN world.here[nav.goal] = "peer"
                    ELSE CandidateIsSafe(nav.goal, FALSE, TRUE) /\ StartConnection(TRUE)
       IN  /\ \/ /\ ready /\ safe
                 /\ Go([Completed(nav) EXCEPT
                          !.mode = IF @ = "exact" THEN @ ELSE Mode(nav.goal)], "drive")
              \/ /\ ready /\ ~safe
                 /\ Go(BeginSafeGoalSearch(set, FALSE, peer), "search")
              \/ /\ ~ready /\ a.failure # "start_blocked"
                 /\ Go(BeginSafeGoalSearch(nav, a.failure = "goal_unreachable", a.peer), "search")
              \/ /\ a.failure = "start_blocked"
                 /\ LET n == BlockNoPath(nav, a.peer) IN Go(n, After(n))
           /\ moved' = (moved /\ ~ready)
  /\ delta' = FALSE
  /\ UNCHANGED <<route, missed, quiet, pending>> /\ Keep

\* _next_safe_candidate: the next candidate worth a search, or none is left.
Skipped(c) ==
  \/ nav.skip /\ c \in Connected /\ ~Covered(Exact) /\ ~Covered(c)
  \/ ~delta /\ ~CandidateIsSafe(c, FALSE, FALSE) /\ ~CandidateIsSafe(c, FALSE, TRUE)

NextCandidate ==
  /\ pc = "search" /\ ~nav.candidate
  /\ nav.index < Len(Nearby) /\ nav.inspections < MaxInspections
  /\ LET c == Nearby[nav.index + 1]
         n == [nav EXCEPT !.index = @ + 1, !.inspections = @ + 1]
     IN  nav' = IF Skipped(c) THEN n
                ELSE [n EXCEPT !.candidate = TRUE, !.goal = c, !.stop = @ /\ c = nav.goal,
                               !.mode = "approaching_safe_stop"]
  /\ UNCHANGED <<route, pc, moved, delta, missed, quiet, pending>> /\ Keep

NoCandidateLeft ==
  /\ pc = "search" /\ ~nav.candidate
  /\ nav.index = Len(Nearby) \/ nav.inspections = MaxInspections
  /\ LET n == BlockNoPath(nav, nav.blame) IN Go(n, After(n))
  /\ UNCHANGED <<route, moved, delta, missed, quiet, pending>> /\ Keep

\* _advance_safe_candidate, the search for a candidate.
Blame(a) ==
  /\ CandidateIsSafe(nav.goal, FALSE, TRUE)
  /\ IF a.failure = "ready" THEN ~CandidateIsSafe(nav.goal, FALSE, FALSE) ELSE a.peer

PlanCandidate ==
  /\ pc = "search" /\ nav.candidate
  /\ \E a \in Answers(nav.goal) :
       LET useful == a.failure = "ready" /\ CandidateIsSafe(nav.goal, FALSE, FALSE) IN
         \/ /\ ~useful
            /\ Go([nav EXCEPT !.blame = @ \/ Blame(a), !.candidate = FALSE], "search")
            /\ UNCHANGED moved
         \/ /\ useful /\ ~StartConnection(FALSE)
            /\ IF ~nav.recovered
                 THEN Go([nav EXCEPT !.recovered = TRUE, !.target = None], "coordinate")
                 ELSE Go([nav EXCEPT !.blame = @ \/ StartConnection(TRUE),
                                     !.candidate = FALSE], "search")
            /\ UNCHANGED moved
         \/ /\ useful /\ StartConnection(FALSE)
            /\ Go([Completed(nav) EXCEPT !.mode = Mode(nav.goal)], "drive")
            /\ moved' = FALSE
  /\ delta' = FALSE
  /\ UNCHANGED <<route, missed, quiet, pending>> /\ Keep

\* update, after planning.
Final(n) == n.final \/ /\ n.mode \in {"nearby_safe", "approaching_safe_stop"}
                       /\ at = n.path /\ FinalApproachSegmentIsSafe(n.goal, FALSE)

DriveReached ==
  /\ pc = "drive" /\ at = nav.goal /\ there
  /\ LET confirmed == nav.mode # "approaching_safe_stop" \/ CandidateIsSafe(nav.goal, TRUE, FALSE)
         n == [nav EXCEPT !.final = Final(nav)]
     IN  \/ /\ confirmed
            /\ Go([Cleared(n) EXCEPT !.final = FALSE, !.status = "reached", !.stop = FALSE,
                     !.mode = IF @ = "exact" THEN @ ELSE "nearby_safe"], "idle")
         \/ /\ ~confirmed /\ ~nav.stop
            /\ Go([n EXCEPT !.stop = TRUE], "coordinate")
         \/ /\ ~confirmed /\ nav.stop
            /\ LET b == BlockNoPath(n, CandidateIsSafe(nav.goal, TRUE, TRUE)) IN Go(b, After(b))
  /\ delta' = (delta /\ pc' # "idle")
  /\ UNCHANGED <<route, moved, missed, quiet, pending>> /\ Keep

DriveOnForever ==
  /\ pc = "drive" /\ ~(at = nav.goal /\ there)
  /\ LET n == [nav EXCEPT !.final = Final(nav)]
         ahead == ~n.final /\ at # nav.path
     IN  \/ /\ ahead => StartConnection(FALSE)
            /\ Go([n EXCEPT !.target = IF ahead THEN "step" ELSE "goal"], "coordinate")
            /\ UNCHANGED quiet
         \/ /\ ahead /\ ~StartConnection(FALSE)
            /\ Go([n EXCEPT !.planning = "goal", !.target = None], "coordinate")
            /\ quiet' = (nav.goal = Exact)
  /\ UNCHANGED <<route, moved, delta, missed, pending>> /\ Keep
DriveOn ==
  /\ pc = "drive" /\ ~(at = nav.goal /\ there)
  /\ LET n == [nav EXCEPT !.final = Final(nav)]
         ahead == ~n.final /\ at # nav.path
     IN  \/ /\ ahead => StartConnection(FALSE)
            /\ Go([n EXCEPT !.recovered = FALSE, !.target = IF ahead THEN "step" ELSE "goal"],
                  "coordinate")
            /\ UNCHANGED quiet
         \/ /\ ahead /\ ~StartConnection(FALSE) /\ ~nav.recovered
            /\ Go([n EXCEPT !.recovered = TRUE, !.planning = "goal", !.target = None],
                  "coordinate")
            /\ quiet' = (nav.goal = Exact)
         \/ /\ ahead /\ ~StartConnection(FALSE) /\ nav.recovered
            /\ LET b == BlockNoPath(n, StartConnection(TRUE)) IN Go(b, After(b))
            /\ UNCHANGED quiet
  /\ UNCHANGED <<route, moved, delta, missed, pending>> /\ Keep

\* _advance_coordination_route: one slice of the search for goal g on the own map; a
\* search for another goal starts anew.
Sought(g) ==
  LET left == IF route.request = g THEN route.left ELSE Slices
  IN  [request |-> g, left |-> IF left = 0 THEN 0 ELSE left - 1]

\* classify_no_path_against_persistent.
Classify ==
  /\ pc = "classify"
  /\ LET attributed == IF nav.probe THEN nav.attributed ELSE world.peers IN
       \/ /\ ~attributed /\ nav.grace
          /\ Go(IF nav.status = "blocked" THEN nav ELSE Blocked(nav, "no_path"), "idle")
          /\ UNCHANGED <<route, missed, quiet, pending>>
       \/ /\ attributed \/ ~nav.grace
          /\ route' = Sought(Exact)
          /\ \/ /\ route'.left > 0
                /\ Go([Cleared(nav) EXCEPT !.path = None, !.status = "active", !.reason = None,
                         !.target = None, !.probe = TRUE, !.attributed = attributed],
                      "coordinate")
                /\ UNCHANGED <<missed, quiet, pending>>
             \/ /\ route'.left = 0 /\ OwnMapRoute
                /\ IF attributed /\ TransientActive
                     THEN /\ Go(Waits(nav, TRUE), "coordinate")
                          /\ UNCHANGED <<missed, quiet, pending>>
                     ELSE /\ Go([ResumeAfterTransient(nav) EXCEPT
                                   !.grace = @ \/ ~attributed], "coordinate")
                          /\ missed' = FALSE /\ quiet' = TRUE /\ pending' = 0
             \/ /\ route'.left = 0 /\ ~OwnMapRoute
                /\ Go(IF nav.status = "blocked" THEN NotWaiting(nav)
                      ELSE Blocked(nav, "no_path"), "idle")
                /\ UNCHANGED <<missed, quiet, pending>>
  /\ delta' = (delta /\ pc' # "idle")
  /\ UNCHANGED moved /\ Keep

\* _coordinate_desired may look for a route to the current goal on the own map.  The
\* changes of this tick are dropped, told or not.
Coordinate ==
  /\ pc = "coordinate"
  /\ \/ UNCHANGED route
     \/ Shared /\ route' = Sought(nav.goal)
  /\ pc' = "idle"
  /\ missed' = (missed \/ delta) /\ delta' = FALSE
  /\ UNCHANGED <<nav, moved, quiet, pending>> /\ Keep

Step ==
  \/ TickProbe \/ UpdateWaits \/ Update \/ PlanPending \/ PlanGoal \/ NextCandidate
  \/ NoCandidateLeft \/ PlanCandidate \/ DriveReached \/ DriveOn \/ Classify \/ Coordinate

Next == Start \/ Cancel \/ Change \/ Move \/ TickUnsafe \/ TickCorridorWait \/ Step

Spec == Init /\ [][Next]_vars

\* The control loop ticks on, and a corridor is not waited for at every tick.
FairSpec == Spec /\ WF_vars(Step) /\ SF_vars(Update)

(***************************************************************************)
(* Properties                                                              *)
(***************************************************************************)
\* What the controller is about to do is one thing: it plans, waits, probes, follows a
\* path or has ended, whatever interrupted what.  A stop near the goal that counts as
\* reached may leave the mark of an earlier wait (finish_nearby_safe_stop).
TypeOK ==
  /\ nav.status \in {"idle", "active", "blocked", "reached", "cancelled"}
  /\ nav.goal \in Goals /\ nav.path \in Goals \cup {None}
  /\ nav.mode \in {None, "exact", "approaching_safe_stop", "nearby_safe"}
  /\ nav.index \in 0..Len(Nearby) /\ nav.inspections \in 0..MaxInspections
  /\ nav.planning # None \/ nav.probe => nav.status = "active"
  /\ nav.waiting => nav.status = "active" \/ (nav.status = "reached" /\ nav.mode = "nearby_safe")
  /\ pc = "idle" /\ nav.status = "active" =>
       /\ Cardinality({k \in 1..3 : <<nav.planning # None, nav.waiting, nav.probe>>[k]}) <= 1
       /\ nav.waiting \/ nav.probe => nav.path = None /\ nav.target = None
       /\ nav.target # None => nav.path = nav.goal /\ nav.planning = None
       /\ nav.candidate => nav.planning = "candidate"

\* A vehicle could get to g if all peers went away.
Open(g) == /\ world.here[g] \in {"none", "beside", "peer"}
           /\ world.way[g] \in {"none", "peer"}
           /\ world.start \in {"none", "peer"}

\* A mission is given up for want of a path only if, peers aside, neither the goal nor
\* any stop near it can be reached, and waits only while there are peers: however the
\* search was spread over ticks and whatever the candidates failed for.  It may stand
\* on a candidate the scanner does not confirm.
VerdictIsRight ==
  pc = "idle" /\ quiet /\ ~missed /\ nav.inspections < MaxInspections =>
    /\ nav.status = "blocked" /\ nav.reason = "no_path" =>
         \/ \A g \in Goals : ~Open(g)
         \/ at = nav.goal /\ there /\ ~world.seen[nav.goal]
    /\ nav.status = "active" /\ nav.waiting => world.peers

\* Navigation never plans for ever: again and again the vehicle has a waypoint, has
\* ended or waits.  It may hang in a wait (WaitsEnd), and because changes were dropped
\* while it waited for a corridor.
Settles == []<>(nav.status # "active" \/ nav.target # None \/ nav.waiting \/ nav.probe \/ missed)

\* A vehicle waits only for a peer whose lease is valid, and a wall of the own map is not
\* hidden by an endless wait (docs/pathfinding.md:96-100): without peers or anonymous
\* obstacles, a wait or a probe of the own map ends.
WaitsEnd ==
  (nav.waiting \/ nav.probe) /\ ~TransientActive ~>
    ~(nav.waiting \/ nav.probe) \/ TransientActive \/ missed
=============================================================================
