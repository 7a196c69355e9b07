----------------------------- MODULE DStarLite -----------------------------
(* The incremental planner of src/src/mockvehicle2d/pathfinding/d_star_lite.py *)
(* over the grid a vehicle has observed.  A call of advance_plan may stop     *)
(* when its expansion budget is spent and is continued by a later call;       *)
(* between two calls the map, the peers and the vehicle move.  Each expansion *)
(* of a call is a step of its own, so a call is the steps from the one that   *)
(* leaves pc = "idle" to the one that returns to it, and nothing else runs    *)
(* in between, as in the code.                                                *)
(*                                                                            *)
(* Abstractions.  Costs are integers: a straight step is 12, a diagonal 17,   *)
(* and 17/12 orders all sums of fewer than twelve of each as sqrt(2) does.    *)
(* The vehicle stands in the centre of its start cell.  Reach is the radius   *)
(* of the planning footprint: 0, a point, or 1, a radius between 1/2 and      *)
(* sqrt(2)/2 of a cell, which overlaps the four adjacent cells; with either   *)
(* a swept move between two centres meets nothing that _blocked does not see. *)
(* FORBIDDEN cells block as OCCUPIED ones do.                                 *)
EXTENDS Integers, FiniteSets, Sequences

CONSTANTS
    Width, Height,    \* the cells that can change
    Margin,           \* bounds_margin in cells
    Reach,            \* footprint radius, 0 or 1
    Live,             \* TRUE: the grid has cell_without_peers (planning overlay)
    UnknownCost,      \* factor of an unknown cell
    LimitFactor,      \* expansions per cell and planning session
    Budgets,          \* expansion budgets a caller gives
    Starts, Goals,    \* cells a caller asks for
    Maps,             \* grids the planner may be created over
    Novelties,        \* <<cell, state>>: what a scan may find
    PeerAreas,        \* peer exclusions that may appear
    MaxEvents,        \* bound on scans, peer moves and new requests
    None

Span == Width + Height + 2 * Margin
Inf == 100 * Span * Span * UnknownCost

ASSUME DStarLiteAssumption ==
    /\ Width \in Nat \ {0} /\ Height \in Nat \ {0} /\ Margin \in Nat
    /\ Reach \in {0, 1} /\ Live \in BOOLEAN
    /\ UnknownCost \in Nat \ {0} /\ LimitFactor \in Nat \ {0}
    /\ Budgets \subseteq Nat \ {0} /\ MaxEvents \in Nat

World == (0 .. Width - 1) \X (0 .. Height - 1)
Cells == (0 - Margin .. Width - 1 + Margin) \X (0 - Margin .. Height - 1 + Margin)
States == {"unknown", "free", "occupied"}

ASSUME WorldAssumption ==
    /\ Starts \cup Goals \subseteq World /\ Maps \subseteq [Cells -> States]
    /\ Novelties \subseteq World \X States /\ PeerAreas \subseteq SUBSET Cells
    /\ None \notin Cells \cup (Int \X Int \X Int \X Int) \cup (Cells \X Cells \X Cells)

ASSUME ResultAssumption == None \notin {"pending", "ready", "unreachable"}

VARIABLES
    grid,          \* base state of every cell, as the grid holds it now
    peers,         \* cells the peers exclude now
    delta,         \* cells that changed since the planner was last told
    states,        \* _states
    peerForbidden, \* _peer_forbidden_cells
    missed,        \* a delta was lost since the last reset
    bounds,        \* _bounds, <<min x, min y, max x, max y>>
    start,         \* _start, which is _last_start between two calls
    position,      \* _start_position_cells: None or the cell it is the centre of
    goal, km,      \* _goal, _key_modifier_cost
    g, rhs,        \* _g, _rhs, Inf where the dictionary has no entry
    open,          \* _open_keys, which is _queue without its stale entries
    pending,       \* _planning_pending
    spent,         \* _planning_expansions
    probe,         \* _peer_route_probe: None or <<start, goal, position>>
    frontier, visited,  \* _peer_route_frontier, _peer_route_visited
    recovery,      \* _unusable_plan_recovery: None or <<start, goal>>
    failure,       \* last_failure
    byPeer,        \* last_failure_caused_by_peer
    pc, left,      \* where the call is, and its budget left
    result, path,  \* what the last call answered, None once outdated
    events         \* scans, peer moves and new requests so far

worldVars == <<grid, peers, delta, events>>
mapVars == <<states, peerForbidden>>
searchVars == <<missed, bounds, start, goal, km, g, rhs, open>>
probeVars == <<probe, frontier, visited>>
answerVars == <<failure, byPeer, result, path>>
vars == <<worldVars, mapVars, searchVars, position, pending, spent, probeVars,
          recovery, answerVars, pc, left>>

-----------------------------------------------------------------------------
(* Geometry *)

Least(S) == CHOOSE m \in S : \A n \in S : m <= n
Lesser(a, b) == IF a <= b THEN a ELSE b
Greater(a, b) == IF a >= b THEN a ELSE b
Distance(a, b) == IF a <= b THEN b - a ELSE a - b
Plus(a, b) == Lesser(a + b, Inf)

Straight == 12
Diagonal == 17

Octile(c, d) ==
    LET dx == Distance(c[1], d[1])
        dy == Distance(c[2], d[2])
    IN  Straight * Greater(dx, dy) + (Diagonal - Straight) * Lesser(dx, dy)

PlanningBounds(s, t) ==
    <<Lesser(s[1], t[1]) - Margin, Lesser(s[2], t[2]) - Margin,
      Greater(s[1], t[1]) + Margin, Greater(s[2], t[2]) + Margin>>

Within(b, c) == /\ b # None
                /\ b[1] <= c[1] /\ c[1] <= b[3]
                /\ b[2] <= c[2] /\ c[2] <= b[4]

Inside(c) == Within(bounds, c)
Window == IF bounds = None THEN {}
          ELSE (bounds[1] .. bounds[3]) \X (bounds[2] .. bounds[4])

Square(c, r) == (c[1] - r .. c[1] + r) \X (c[2] - r .. c[2] + r)
Neighbours(c) == {d \in Square(c, 1) : d # c /\ Inside(d)}
IsDiagonal(c, d) == c[1] # d[1] /\ c[2] # d[2]
Corners(c, d) == {<<c[1], d[2]>>, <<d[1], c[2]>>}
Step(c, d) == IF IsDiagonal(c, d) THEN Diagonal ELSE Straight

\* Cells the footprint overlaps when its centre is that of c.
Footprint(c) ==
    {d \in Square(c, Reach) : Distance(c[1], d[1]) + Distance(c[2], d[2]) <= Reach}

\* A move from the centre of c to that of d leaves the obstacle o at once.
LeavesBehind(c, d, o) ==
    (d[1] - c[1]) * (o[1] - c[1]) + (d[2] - c[2]) * (o[2] - c[2]) < 0

-----------------------------------------------------------------------------
(* Costs.  P is the set of peer cells that count: peerForbidden, or {} where  *)
(* the code ignores peers; B is BlockedCells(P).                              *)

BaseState(c) == IF Live THEN grid[c] ELSE states[c]
Obstacles == {c \in Cells : BaseState(c) = "occupied"}

\* _blocked: a footprint overlaps an obstacle when the obstacle's overlaps it.
BlockedCells(P) == Window \cap (P \cup UNION {Footprint(o) : o \in Obstacles})

StepCost(c, d) ==
    Step(c, d) * IF states[d] = "free" THEN 1 ELSE UnknownCost

StartConnectionCost(P, B, c, d) ==
    IF \/ c # start \/ position = None \/ d \in B
       \/ ({c, d} \cup Corners(c, d)) \cap P # {}
       \/ Reach = 1 /\ \E o \in Footprint(c) \cap Obstacles : ~LeavesBehind(c, d, o)
    THEN Inf
    ELSE StepCost(c, d)

Cost(P, B, c, d) ==
    IF c \in B THEN StartConnectionCost(P, B, c, d)
    ELSE IF d \in B \/ (IsDiagonal(c, d) /\ Corners(c, d) \cap B # {}) THEN Inf
    ELSE StepCost(c, d)

HasStartEgress(P, B) ==
    \E d \in Neighbours(start) : StartConnectionCost(P, B, start, d) < Inf

StartBlocked(P) ==
    LET B == BlockedCells(P) IN start \in B /\ ~HasStartEgress(P, B)

-----------------------------------------------------------------------------
(* The search *)

Key(c) ==
    LET value == Lesser(g[c], rhs[c])
    IN  <<Plus(value, Octile(start, c) + km), value>>

KeyLess(k, l) == k[1] < l[1] \/ (k[1] = l[1] /\ k[2] < l[2])

\* The order of the heap entries (key, x, y).
Before(c, d) ==
    \/ KeyLess(open[c], open[d])
    \/ /\ open[c] = open[d]
       /\ c[1] < d[1] \/ (c[1] = d[1] /\ c[2] < d[2])

Top == CHOOSE c \in DOMAIN open : \A d \in DOMAIN open \ {c} : Before(c, d)
TopKey == IF DOMAIN open = {} THEN <<Inf, Inf>> ELSE open[Top]

Best(B, c) ==
    Least({Inf} \cup {Plus(Cost(peerForbidden, B, c, d), g[d]) : d \in Neighbours(c)})

Without(f, S) == [c \in DOMAIN f \ S |-> f[c]]

\* f, with values that TLC computes once, for the comparison.
Evaluated(f) == CHOOSE h \in {f} : h = h

\* _update_vertex of every cell of A, whose order does not matter: it reads g
\* only, and changes rhs and the queue entry of its own cell.  Everything else
\* already has its new value.
UpdateVertices(A, queue) ==
    \E B \in {BlockedCells(peerForbidden)'} :
        /\ rhs' = Evaluated([c \in Cells |->
                      IF c \in A \ {goal'} THEN Best(B, c)' ELSE rhs[c]])
        /\ open' = [c \in {a \in A : g'[a] # rhs'[a]} \cup (DOMAIN queue \ A) |->
                       IF c \in A THEN Key(c)' ELSE queue[c]]

\* Mutant of Affected: without the footprint and the neighbours.
AffectedCells(C) == {d \in C : Inside(d)}

\* What _apply_changes updates after changes of the cells C.
Affected(C) ==
    LET near == {d \in UNION {Square(c, Reach + 1) : c \in C} : Inside(d)}
    IN  near \cup UNION {Neighbours(d) : d \in near}

\* Mutant of CancelProbe: the cells visited are not forgotten.
CancelProbeOnly == probe' = None /\ frontier' = <<>> /\ visited' = visited

CancelProbe == probe' = None /\ frontier' = <<>> /\ visited' = {}

Reset(s, t) ==
    /\ missed' = FALSE
    /\ bounds' = PlanningBounds(s, t)
    /\ start' = s /\ goal' = t /\ km' = 0
    /\ g' = [c \in Cells |-> Inf]
    /\ rhs' = [c \in Cells |-> IF c = t THEN 0 ELSE Inf]
    /\ open' = [c \in {t} |-> <<Octile(s, t), 0>>]
    /\ CancelProbe

\* What the grid reports of a cell: the overlay reports peer cells as FORBIDDEN.
Reported(c) == IF c \in peers THEN "occupied" ELSE grid[c]
RecordChanges == states' = [c \in Cells |-> IF c \in delta THEN Reported(c) ELSE states[c]]

-----------------------------------------------------------------------------
(* The world between two calls *)

Init ==
    /\ grid \in Maps
    /\ peers = {} /\ delta = {} /\ events = 0
    /\ states = grid /\ peerForbidden = {}
    /\ missed = FALSE /\ bounds = None /\ start = None /\ goal = None /\ km = 0
    /\ g = [c \in Cells |-> Inf] /\ rhs = g /\ open = [c \in {} |-> <<0, 0>>]
    /\ position = None /\ pending = FALSE /\ spent = 0
    /\ probe = None /\ frontier = <<>> /\ visited = {} /\ recovery = None
    /\ failure = None /\ byPeer = FALSE /\ result = None /\ path = <<>>
    /\ pc = "idle" /\ left = 0

Outdate == result' = None /\ path' = <<>> /\ UNCHANGED <<failure, byPeer>>
PlannerIdle == UNCHANGED <<mapVars, searchVars, position, pending, spent, probeVars,
                           recovery, pc, left>>
NewEvent == events < MaxEvents /\ events' = events + 1

\* A scan finds a cell in another state.
Scan(c, s) ==
    /\ pc = "idle" /\ NewEvent
    /\ grid[c] # s
    /\ grid' = [grid EXCEPT ![c] = s]
    /\ delta' = delta \cup {c}
    /\ Outdate /\ PlannerIdle /\ UNCHANGED peers

\* The peers exclude other cells.
PeersMove(P) ==
    /\ pc = "idle" /\ NewEvent
    /\ Live /\ peers # P
    /\ peers' = P
    /\ delta' = delta \cup (peers \ P) \cup (P \ peers)
    /\ Outdate /\ PlannerIdle /\ UNCHANGED grid

\* While the vehicle waits for the owner of a corridor its planner is not called,
\* and the delta of the control step is dropped.
MissDelta ==
    /\ pc = "idle" /\ Live /\ delta # {}
    /\ delta' = {} /\ missed' = TRUE
    /\ Outdate
    /\ UNCHANGED <<grid, peers, events, mapVars, bounds, start, goal, km, g, rhs, open,
                   position, pending, spent, probeVars, recovery, pc, left>>

-----------------------------------------------------------------------------
(* The calls *)

Limit == LimitFactor * Cardinality(Window)

\* set_peer_forbidden_cells, the first call of a control step with a map delta.
SetPeerForbiddenCells ==
    LET changed == (peerForbidden \ peers) \cup (peers \ peerForbidden)
    IN  /\ pc = "idle" /\ delta # {} /\ changed # {}
        /\ peerForbidden' = peers
        /\ CancelProbe
        /\ UNCHANGED <<worldVars, states, missed, bounds, start, goal, km, g, position,
                       pending, spent, recovery, pc, left>>
        /\ IF bounds = None
           THEN UNCHANGED <<rhs, open>>
           ELSE UpdateVertices({c \in changed : Inside(c)}
                                 \cup UNION {Neighbours(c) : c \in changed}, open)
        /\ Outdate

PeersTold == delta = {} \/ peerForbidden = peers

\* observe_changes: a map delta during the final approach.
ObserveChanges ==
    /\ pc = "idle" /\ PeersTold /\ delta # {}
    /\ RecordChanges /\ delta' = {}
    /\ CancelProbe
    /\ UNCHANGED <<grid, peers, events, peerForbidden, missed, bounds, start, goal, km, g,
                   position, pending, spent, recovery, pc, left>>
    /\ IF bounds = None
       THEN UNCHANGED <<rhs, open>>
       ELSE UpdateVertices(Affected(delta), open)
    /\ Outdate

\* restart_plan after a transient blockage.
RestartPlan(s, t) ==
    /\ pc = "idle"
    /\ NewEvent
    /\ states' = [c \in Cells |-> Reported(c)] /\ peerForbidden' = peers /\ delta' = {}
    /\ position' = None
    /\ Reset(s, t)
    /\ recovery' = None /\ spent' = 0 /\ pending' = TRUE
    /\ Outdate /\ UNCHANGED <<grid, peers, pc, left>>

\* recover_unusable_plan, called when the vehicle cannot reach the route it got.
CanRecover ==
    /\ start # None /\ goal # None
    /\ g[start] < Inf /\ recovery # <<start, goal>>

RecoverUnusablePlan ==
    /\ pc = "idle" /\ result = "ready" /\ ~pending /\ CanRecover
    /\ Reset(start, goal)
    /\ recovery' = <<start, goal>> /\ spent' = 0 /\ pending' = TRUE
    /\ Outdate /\ UNCHANGED <<worldVars, mapVars, position, pc, left>>

\* accept_plan, called when it can.
AcceptPlan ==
    /\ pc = "idle" /\ result = "ready"
    /\ recovery' = None
    /\ Outdate
    /\ UNCHANGED <<worldVars, mapVars, searchVars, position, pending, spent, probeVars,
                   pc, left>>

\* advance_plan gives up: the call answers "unreachable".
Fail(why, peer) ==
    /\ failure' = why /\ byPeer' = peer /\ result' = "unreachable" /\ path' = <<>>
    /\ recovery' = None /\ pending' = FALSE /\ pc' = "idle" /\ left' = 0

\* The call answers "pending".
Suspend ==
    /\ failure' = None /\ byPeer' = FALSE /\ result' = "pending" /\ path' = <<>>
    /\ pending' = TRUE /\ pc' = "idle" /\ left' = 0

\* A request that differs from the one before counts as an event.
Asks(s, t) ==
    /\ pc = "idle" /\ PeersTold
    /\ IF goal = None \/ <<s, t>> = <<start, goal>> THEN UNCHANGED events ELSE NewEvent
    /\ RecordChanges /\ delta' = {}
    /\ position' = s
    /\ UNCHANGED <<grid, peers, peerForbidden>>

\* Mutant of Probes: a probe goes on although the map changed.
ProbesThrough(s, t) == probe = <<s, t, s>>

Probes(s, t) == delta = {} /\ probe = <<s, t, s>>

\* Expansions of the planning session that the call belongs to.
SpentSoFar(t) == IF pending /\ goal = t THEN spent ELSE 0

\* advance_plan, up to the search: it takes the delta, the start and the goal.
BeginSearch(s, t, budget) ==
    LET again == goal = t /\ Inside(s)
        P == peerForbidden
    IN  /\ Asks(s, t)
        /\ ~Probes(s, t)
        /\ IF again
           THEN /\ km' = km + Octile(start, s) /\ start' = s
                /\ UNCHANGED <<missed, bounds, goal, g>>
                /\ CASE delta # {} -> UpdateVertices(Affected(delta), open)
                     [] delta = {} /\ position # s /\ s \in BlockedCells(P) ->
                            UpdateVertices({s}, open)
                     [] OTHER -> UNCHANGED <<rhs, open>>
                /\ CancelProbe
           ELSE Reset(s, t)
        /\ LET spentNow == SpentSoFar(t)
               goalBlocked == (t \in BlockedCells(P))'
           IN  /\ spent' = spentNow
               /\ CASE StartBlocked(P)' -> Fail("start_blocked", ~StartBlocked({})')
                    [] ~StartBlocked(P)' /\ goalBlocked ->
                           Fail("goal_blocked", (t \notin BlockedCells({}))')
                    [] ~StartBlocked(P)' /\ ~goalBlocked /\ spentNow >= Limit' ->
                           Fail("expansion_limit", FALSE)
                    [] OTHER -> /\ pc' = "search" /\ left' = budget
                                /\ recovery' = IF again THEN recovery ELSE None
                                /\ failure' = None /\ byPeer' = FALSE
                                /\ result' = None /\ path' = <<>>
                                /\ UNCHANGED pending

\* advance_plan while a probe of the same request is under way.
BeginProbe(s, t, budget) ==
    /\ Asks(s, t)
    /\ Probes(s, t)
    /\ pc' = "probe" /\ left' = budget
    /\ failure' = None /\ byPeer' = FALSE /\ result' = None /\ path' = <<>>
    /\ UNCHANGED <<searchVars, pending, spent, probeVars, recovery>>

-----------------------------------------------------------------------------
(* _advance_shortest_path *)

Unsettled == KeyLess(TopKey, Key(start)) \/ rhs[start] # g[start]
Searching == pc = "search" /\ Unsettled
MayExpand == left > 0 /\ spent < Limit

Expand ==
    /\ Searching /\ MayExpand /\ DOMAIN open # {}
    /\ left' = left - 1 /\ spent' = spent + 1
    /\ UNCHANGED <<worldVars, mapVars, missed, bounds, start, goal, km, position, pending,
                   probeVars, recovery, answerVars, pc>>
    /\ LET c == Top
           rest == Without(open, {c})
       IN  CASE KeyLess(open[c], Key(c)) ->
                    /\ open' = [open EXCEPT ![c] = Key(c)]
                    /\ UNCHANGED <<g, rhs>>
             [] ~KeyLess(open[c], Key(c)) /\ g[c] > rhs[c] ->
                    /\ g' = [g EXCEPT ![c] = rhs[c]]
                    /\ UpdateVertices(Neighbours(c), rest)
             [] OTHER ->
                    /\ g' = [g EXCEPT ![c] = Inf]
                    /\ UpdateVertices({c} \cup Neighbours(c), rest)

SuspendSearch ==
    /\ Searching /\ ~MayExpand
    /\ IF spent < Limit THEN Suspend /\ UNCHANGED recovery
                        ELSE Fail("expansion_limit", FALSE)
    /\ UNCHANGED <<worldVars, mapVars, searchVars, position, spent, probeVars>>

\* _extract_path: the cells from the start by least total, octile distance and
\* cell, <<>> when it runs into a dead end or a loop.
Choices(c) ==
    LET B == BlockedCells(peerForbidden)
    IN  {<<Plus(Cost(peerForbidden, B, c, d), g[d]), Octile(d, goal), d[1], d[2]>> :
           d \in Neighbours(c)}

Precedes(a, b) ==
    \E i \in 1 .. 4 : a[i] < b[i] /\ \A j \in 1 .. i - 1 : a[j] = b[j]

Following(c) ==
    LET finite == {a \in Choices(c) : a[1] < Inf}
        first == CHOOSE a \in finite : \A b \in finite \ {a} : Precedes(a, b)
    IN  IF finite = {} THEN None ELSE <<first[3], first[4]>>

Extended(route) ==
    LET last == route[Len(route)]
        next == Following(last)
    IN  IF last = goal THEN route
        ELSE IF next = None \/ \E i \in DOMAIN route : route[i] = next THEN <<>>
        ELSE Append(route, next)

ExtractPath ==
    LET after[n \in 0 .. Cardinality(Window)] ==
            IF n = 0 THEN <<start>>
            ELSE LET route == after[n - 1]
                 IN  IF route = <<>> THEN <<>> ELSE Extended(route)
    IN  IF g[start] >= Inf THEN <<>> ELSE after[Cardinality(Window)]

\* The search is over: a route, one recovery, a probe, or a failure.
Conclude ==
    LET route == ExtractPath
    IN  /\ pc = "search"
        /\ ~Unsettled \/ (MayExpand /\ DOMAIN open = {})
        /\ CASE route # <<>> ->
                  /\ result' = "ready" /\ path' = route /\ pending' = FALSE
                  /\ pc' = "idle" /\ left' = 0
                  /\ UNCHANGED <<searchVars, spent, probeVars, recovery, failure, byPeer>>
             [] route = <<>> /\ CanRecover ->
                  /\ Reset(start, goal)
                  /\ recovery' = <<start, goal>> /\ spent' = 0
                  /\ Suspend
             [] route = <<>> /\ ~CanRecover /\ g[start] >= Inf /\ peerForbidden # {} ->
                  /\ recovery' = None /\ pending' = FALSE
                  /\ probe' = <<start, goal, position>>
                  /\ frontier' = <<start>> /\ visited' = {start}
                  /\ pc' = "probe"
                  /\ UNCHANGED <<searchVars, spent, answerVars, left>>
             [] OTHER ->
                  /\ Fail(IF g[start] >= Inf THEN "search_exhausted"
                                             ELSE "path_extraction", FALSE)
                  /\ UNCHANGED <<searchVars, spent, probeVars>>
        /\ UNCHANGED <<worldVars, mapVars, position>>

-----------------------------------------------------------------------------
(* _advance_peer_route_probe *)

Moves == <<<<-1, -1>>, <<-1, 0>>, <<-1, 1>>, <<0, -1>>, <<0, 1>>, <<1, -1>>, <<1, 0>>, <<1, 1>>>>
Around(c) == [i \in 1 .. 8 |-> <<c[1] + Moves[i][1], c[2] + Moves[i][2]>>]

Blamed(peer) == CancelProbe /\ Fail("search_exhausted", peer) /\ UNCHANGED spent

\* No peer is to blame for a start or a goal blocked without them.
Hopeless == StartBlocked({}) \/ goal \in BlockedCells({})

ProbeFails ==
    /\ pc = "probe"
    /\ Hopeless \/ frontier = <<>>
    /\ Blamed(FALSE)
    /\ UNCHANGED <<worldVars, mapVars, searchVars, position>>

\* The elements of the sequence s that are in S, in their order.
Selected(s, S) ==
    LET taken[i \in 0 .. Len(s)] ==
            IF i = 0 THEN <<>>
            ELSE IF s[i] \in S THEN Append(taken[i - 1], s[i]) ELSE taken[i - 1]
    IN  taken[Len(s)]

ProbeStep ==
    LET c == Head(frontier)
        B == BlockedCells({})
        fresh == {d \in Neighbours(c) \ visited : Cost({}, B, c, d) < Inf}
        new == Selected(Around(c), fresh)
    IN  /\ pc = "probe" /\ ~Hopeless /\ frontier # <<>> /\ left > 0
        /\ IF c = goal
           THEN Blamed(TRUE)
           ELSE /\ frontier' = Tail(frontier) \o new
                /\ visited' = visited \cup {new[i] : i \in DOMAIN new}
                /\ left' = left - 1
                /\ UNCHANGED <<probe, pending, spent, recovery, answerVars, pc>>
        /\ UNCHANGED <<worldVars, mapVars, searchVars, position>>

SuspendProbe ==
    /\ pc = "probe" /\ ~Hopeless /\ frontier # <<>> /\ left = 0
    /\ Suspend
    /\ UNCHANGED <<worldVars, mapVars, searchVars, position, spent, probeVars, recovery>>

-----------------------------------------------------------------------------
Advance(s, t) == \E n \in Budgets : BeginSearch(s, t, n) \/ BeginProbe(s, t, n)

Call == \/ SetPeerForbiddenCells \/ ObserveChanges \/ RecoverUnusablePlan \/ AcceptPlan
        \/ \E s \in Starts, t \in Goals : Advance(s, t) \/ RestartPlan(s, t)

Run == Expand \/ SuspendSearch \/ Conclude \/ ProbeFails \/ ProbeStep \/ SuspendProbe

Next == \/ \E n \in Novelties : Scan(n[1], n[2])
        \/ \E P \in PeerAreas : PeersMove(P)
        \/ MissDelta \/ Call \/ Run

Spec == Init /\ [][Next]_vars

-----------------------------------------------------------------------------
(* Reference: the distance of a cell to the goal, over the same costs, as     *)
(* pairs <<distance, cell>> settled in order of distance.                     *)

\* The cost of every move, by its two cells.
Costs(P) ==
    LET B == BlockedCells(P)
    IN  [c \in Window |-> [d \in Neighbours(c) |-> Cost(P, B, c, d)]]

\* The nearest cells that lead to one of S.
Nearest(C, S) ==
    LET done == {s[2] : s \in S}
        edge == UNION {{<<s[1] + C[d][s[2]], d>> : d \in DOMAIN C[s[2]] \ done} : s \in S}
        finite == {e \in edge : e[1] < Inf}
    IN  {e \in finite : \A f \in finite : e[1] <= f[1]}

Reference(C, t) ==
    LET settled[n \in 0 .. Cardinality(DOMAIN C)] ==
            IF n = 0 THEN {<<0, t>>}
            ELSE LET S == settled[n - 1] IN S \cup Nearest(C, S)
    IN  settled[Cardinality(DOMAIN C)]

DistanceIn(C, s, t) ==
    LET found == {e \in Reference(C, t) : e[2] = s}
    IN  IF found = {} THEN Inf ELSE (CHOOSE e \in found : TRUE)[1]

DistanceToGoal(P) == DistanceIn(Costs(P), start, goal)

RouteExists(P) == goal \notin BlockedCells(P) /\ DistanceToGoal(P) < Inf

\* The cost of a path, Inf if it cannot be driven.
Total(C, p) ==
    LET sum[n \in 1 .. Len(p)] ==
            IF n = 1 THEN 0 ELSE Plus(sum[n - 1], C[p[n - 1]][p[n]])
    IN  sum[Len(p)]

-----------------------------------------------------------------------------
(* Properties *)

Requests == {None} \cup (Starts \X Goals)

TypeOK ==
    /\ grid \in [Cells -> States] /\ states \in [Cells -> States]
    /\ peers \subseteq Cells /\ delta \subseteq Cells /\ peerForbidden \subseteq Cells
    /\ events \in 0 .. MaxEvents
    /\ start \in Cells \cup {None} /\ goal \in Cells \cup {None}
    /\ position \in {None, start}
    /\ bounds = None <=> goal = None
    /\ km \in Nat /\ spent \in Nat /\ left \in Nat
    /\ pc = "search" => spent <= Limit
    /\ g \in [Cells -> 0 .. Inf] /\ rhs \in [Cells -> 0 .. Inf]
    /\ DOMAIN open \subseteq Window
    /\ pending \in BOOLEAN /\ byPeer \in BOOLEAN
    /\ probe = None <=> visited = {}
    /\ recovery \in Requests
    /\ pc \in {"idle", "search", "probe"}
    /\ result \in {None, "pending", "ready", "unreachable"}

\* Parts of SearchIsConsistent.  The queue holds exactly the cells whose g and rhs differ.
QueueIsInconsistent == DOMAIN open = {c \in Cells : g[c] # rhs[c]}

\* Every map change, peer move, start move and expansion updates each vertex it
\* concerns: away from obstacles rhs is the one-step lookahead on today's map.
RhsIsCurrent ==
    (goal # None /\ delta = {} /\ ~missed /\ pc # "probe") =>
        LET B == BlockedCells(peerForbidden)
        IN  \A c \in Window \ (B \cup {goal}) : rhs[c] = Best(B, c)

\* The queue and the lookahead values are right after every sequence of map changes,
\* peer moves, start moves, restarts and budgeted expansions.
SearchIsConsistent == QueueIsInconsistent /\ RhsIsCurrent

\* Parts of AnswersAreTrue.  The path of a ready plan can be driven and none is cheaper.
ReadyIsShortest ==
    (result = "ready" /\ ~missed) =>
        /\ path[1] = start /\ path[Len(path)] = goal
        /\ \A i \in 1 .. Len(path) - 1 : path[i + 1] \in Neighbours(path[i])
        /\ Total(Costs(peerForbidden), path) = DistanceToGoal(peerForbidden)
        /\ RouteExists(peerForbidden)

\* "No route" is only said when there is none, from a start outside obstacles.
NoPathIsReal ==
    (/\ result = "unreachable" /\ ~missed /\ failure \in {"search_exhausted", "path_extraction"}
     /\ start \notin BlockedCells(peerForbidden)) => ~RouteExists(peerForbidden)

\* A failed search is blamed on peers exactly when there is a route without them; if
\* no peer is known nobody asks for that route, and a start in an obstacle's clearance
\* may have one.
BlameIsRight ==
    (/\ result = "unreachable" /\ ~missed /\ failure = "search_exhausted"
     /\ start \notin BlockedCells(peerForbidden) \/ peerForbidden # {}) =>
        (byPeer <=> RouteExists({}))

\* The planner answers what a search from scratch on today's map and peers answers:
\* the shortest path, no route, or no route because of peers.
AnswersAreTrue == ReadyIsShortest /\ NoPathIsReal /\ BlameIsRight

\* "No route" is only said when there is none.
NoPathIsRealAnywhere ==
    (result = "unreachable" /\ ~missed /\ failure = "search_exhausted") => ~RouteExists(peerForbidden)

=============================================================================
