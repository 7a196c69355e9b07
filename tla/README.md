# Formal models of MockVehicle2D

TLA+ models of the fleet simulator in `src/`, the TLC runs that check them on
small instances, and proofs for the tlapm proof system.  Source references are
relative to the package directory `src/mockvehicle2d/` unless they start with
`rust/`, `docs/` or `tests/`.

To repeat a check: `tlc -config <cfg> <MC module>`; to repeat the proofs: `tlapm <module>Proofs.tla`
for `RobotController`, `CorridorLease`, `SharedWorld`, `FleetSession`, `MapSync`,
`SyncLifecycle`, `GotoController` and `DStarLite`.
`PROJECT.json` lists the runs, the source lines every definition stands for, a mutation for
every property, the hazards, the findings and the theorems.

## 1. The system

A fleet process simulates several vehicles on one shared map.  Every vehicle has
a controller, a WebSocket endpoint and a *bridge* to a Rust sidecar that
exchanges observations and intents with the sidecars of the other vehicles over
gossipsub.

```text
 client --WebSocket--> fleet_handler --handle/disconnect--> RobotController --target--> Vehicle
                          ^  ^                                |   |   ^
              events, frames |                    GotoController   |   | peer states, intents
                             |                    (D* Lite)        |   |
                        FleetRuntime.tick --control--> ReservationTable, corridor lease, safety
                             |
                        SharedWorld.advance_to (all vehicles)
                             |
                        scans -> ObservedGrid -> MapSyncState <-> _NodeBridge <-> sidecar <-> gossip
```

| Component (code) | State it keeps | Operations | What is hard | What makes it correct |
|---|---|---|---|---|
| Robot controller (`controller.py`, `RobotController`) | mode, auto state, active mission, queue, mission history, event log, manual setpoint and deadline, idle-vacate session | mode/manual/auto commands, `disconnect`, `tick` | commands, disconnects and ticks in any order; long command sequences; deadlines | one source of motion; the log, the queue and the snapshot agree; nothing stalls; motion ends without commands |
| Vehicle (`vehicle.py`) | target and executed velocity, command deadline | `set_velocity`, `stop`, `advance` | the deadline falls inside a physics step | the watchdog stops a vehicle nobody commands |
| Goal following (`navigation.py`, `GotoController`) | status, goal, path, safe-stop and replan flags | `start`, `update`, `cancel`, `block` | planning is sliced over ticks; the map changes under a plan | it reports reached/blocked only when true; it never waits on a plan nobody computes |
| Planner (`pathfinding/d_star_lite.py`) | `g`, `rhs`, open list, key modifier | `advance_plan`, `observe_changes`, peer cells | incremental repair with stale keys, start and goal moving | the path found is a shortest one; "unreachable" is true |
| Coordination (`coordination.py`, `controller.py` `_coordinate_desired`) | reservations, committed decision, corridor lease, yield and vacate sessions | reserve, schedule, elect, yield, vacate | two vehicles decide from messages of different age | never two owners of one corridor; somebody goes first |
| Map sync state (`map_sync.py`, `MapSyncState`) | own cells, dirty cells, payload in flight per channel, peer evidence, states and intents | `record_*`, `prepare_*`, `publish_*_result`, `receive*`, expiry | rejection, loss, duplication, reordering, changes while in flight, restarts (generations) | nothing known stays unpublished; receivers notice holes and never go back |
| Bridge (`map_sync.py`, `_NodeBridge`, `P2PFleetSync`) | outbound queue, writer, tasks, process, server | send loop, read loop, start, close | the sidecar dies at any point; cleanup steps fail one by one | one payload per channel; nothing leaks; ownership of what lives is kept |
| Sidecar (`rust/map_sync_node.rs`) | identity, swarm, validated payloads | `publish`, `status`, validation | concurrent starts share an identity file | publishes what it is given, answers every command |
| Fleet runtime (`fleet.py`, `FleetRuntime`, `SharedWorld`, `RobotNode`) | simulated time, poses, telemetry ring, scans | `tick`, `advance_to`, `sample` | all moves of a tick are decided on one snapshot | no two vehicles overlap; time is fixed-step |
| Endpoint session (`fleet.py`, `fleet_handler`) | lease, event cursor, frame cursor, last command seq | connect, replay, send, receive, `finally` | the fleet ticks between any two awaits | in order, no gaps, ack before effect, a lost client stops the vehicle |
| Single-vehicle server (`server.py`) | as above, the connection drives the ticks | `handler` | as above | as above |
| Observed grid (`local_state.py`) | cell states, free-observation counters | `integrate_scan`, `mark_*` | transient dynamic obstacles | walls are not forgotten by one stray ray |
| Local safety (`safety.py`) | limits, last verdict | `evaluate` | speed and clearance between two ticks | a stop fits into the free distance |
| Episodes (`episode.py`) | per-vehicle completion, tail of the run | `run_episode` | determinism, termination | one verdict, with vehicles at rest |
| Protocol, scan, collision, grid geometry, CLI, viewer | none or geometry | | | not modelled, see section 7 |

Behaviours that make it hard: the event loop interleaves the fleet tick with
every await of the session handlers and bridges; messages between vehicles are
lost, repeated and reordered and their senders restart; several deadlines
(manual lease, vehicle watchdog, message TTL) run in simulated time; and
decisions about the right of way are taken by every vehicle for itself.
`PROJECT.json` lists each hazard at its line with the properties that cover it,
or says why none does.

## 2. Modules

| Module | Models | Run by |
|---|---|---|
| `RobotController` | commands, tick outcomes, manual lease and watchdog of one vehicle | `MCRobotController.cfg` |
| `MissionLedger` | abstract specification: missions accepted once, served in order, ended once | property `ImplementsLedger` |
| `RobotControllerProofs` | inductive invariant and theorems | tlapm |
| `GotoController` | goal following: exact goal or a stop nearby, sliced planning, waits for peers, the own-map probe | `MCGotoController.cfg`, `MCGotoControllerWait.cfg` |
| `GotoControllerProofs` | inductive invariant and theorems | tlapm |
| `DStarLite` | the incremental planner on a grid that changes between its calls | `MCDStarLite.cfg`, `MCDStarLiteEgress.cfg` |
| `DStarLiteProofs` | inductive invariant and theorems | tlapm |
| `Reservations` | space-time reservations, safe intervals, prioritized SIPP and the controller's use of them | `MCReservations.cfg` |
| `CorridorLease` | a fleet electing the owner of a single-lane corridor from exchanged intents | `MCCorridorLease.cfg`, `MCCorridorLeaseFaults.cfg` |
| `CorridorLeaseProofs` | inductive invariant and theorems | tlapm |
| `SharedWorld` | a tick of the fleet: safety gates, local safety, physics, arbitration of moves | `MCSharedWorld.cfg` |
| `SharedWorldProofs` | inductive invariant and theorems | tlapm |
| `FleetSession` | one endpoint of the fleet server beside the ticking fleet | `MCFleetSession.cfg` |
| `FleetSessionProofs` | inductive invariant and theorems | tlapm |
| `EventFeed` | abstract specification of the event feed | property `ImplementsFeed` |
| `MapSync` | from a vehicle's observed cells to the evidence its peers hold | `MCMapSync.cfg` |
| `MapSyncProofs` | inductive invariant and theorems | tlapm |
| `SyncLifecycle` | start, close, retry and death of the runtimes that own the sidecars; identity files | `MCSyncLifecycle.cfg` |
| `SyncLifecycleProofs` | inductive invariant and theorems | tlapm |

How they fit together: the outcome of `RobotController`'s ticks is what
`GotoController`, `Reservations`/`CorridorLease` and the safety gate of `SharedWorld`
decide; the answers `GotoController` takes from its planner are those `DStarLite` computes;
the intents of `CorridorLease` and `Reservations` travel on `MapSync`'s queue; the
life of the bridges of `MapSync` is `SyncLifecycle`'s.  The interfaces are
nondeterministic choices on the using side, so that each module holds whatever
the others do within them.

### RobotController

`mode`, `autoState`, `active`, `pending`, `known`, `subgoal`, `needsStart`,
`nav`, `vacate`, `setpoint` and `lease` are the attributes of the class (the
comment at each VARIABLE names it); `target` and `watchdog` are
`Vehicle._target_*` and `_command_deadline`.  Every command handler is an action
(`StopMotion` ... `CancelAll`, `Disconnect`), one control tick is one action,
chosen among its outcomes (`TickManual`, `TickHeld`, `TickVacate`,
`StartFails`, `TickDrive`, `TickBlocked`, `TickNextSubgoal`, `TickReached`):
planning, coordination and safety decide which outcome a tick has and are
nondeterministic here.  Starting a mission (`_start_or_resume`) and the first
navigation update happen in the same tick in the code and in the same action
here.  `Advance` is a physics step; it is separate because the server ticks and
the physics runs at different rates.

Left out on purpose: rejected commands are stutters (they return an error and
change nothing), so is `resume` of an Active controller; the branch of `tick`
for "start requested, no mission" is unreachable (`NoSilentStall` shows it).
The event log appears as what each step appends (`emitted`) and as the newest
status of each mission (`last`), which is all the properties read.

### FleetSession

`fleet_handler` is a sequence of awaits.  `pc` names the place the handler
continues at when everything in `outbox` is sent; each `Send` is one await
that returns, and `Tick` may fall between any two.  Blocks are computed from the
ledger and the ring at the moment the code computes them (`EventsAfter`,
`Poll`), not when they are sent.  `Command` and `Reject` are the outcomes of a
received message, `Finish` is the `finally` clause, for whatever reason it
runs.  Second connections are refused before they touch any state
(`vehicle_busy`) and have no action.  What a command does to the controller is
reduced to what a session sees: events appended, and on whose behalf the vehicle
moves (`mover`).  `heard`, `orderly` and `owed` observe the client's side.

### MapSync

One source vehicle.  `own`/`dirty` are `_own_cells`/`_dirty`, `inflight` and
`sequence` the three payloads in flight and their counters, `outbound`,
`sending` and `link` the state of `_NodeBridge`, `socket` and `results` the TCP
connection to the sidecar in both directions, `published` what gossipsub
accepted, `received` what `MapSyncState.receive` of a peer keeps.  `Flush` is
`flush_once` for the vehicle, including the immediate rejection of a payload the
queue refuses.  The death of the sidecar happens in the three steps it takes in
the code: the process is gone (writes are lost or raise), the read loop notices
and gives up the payloads in flight (`Disconnected`), the writer is closed
(`WriterClosed`); results written before the death may or may not still be read.
Vehicle states and motion intents share queue, socket and results with the
deltas and are modelled as far as that; their content is not.  `Deliver` may
apply any published delta at any time: loss, repetition and reordering are
absence, repetition and order of deliveries.  The peers' evidence feeds no
planner in the code (it is published for display), and offline recovery of a
gap is announced in the repository's README as a later milestone, so a gap is
final here as it is there.

### CorridorLease

`lease[v]` holds the corridor fields of vehicle `v`'s controller, `heard[v, u]` the
intent `v` keeps of `u` and its age, `wire[v, u]` one that is still under way.
`FleetTick` is `FleetRuntime.tick`: every controller runs `_coordinate_desired` on
what was heard before the tick (`Control`: `Approach` detects or releases the
corridor, `Winner` holds the election, `Win` announces and admits, `Lose` gives
way), then vehicles move, then what was heard ages.  `Travel` is the time
between two ticks, in which each link delivers the newest intent, a delayed one,
or none.  `Pause` and `Resume` stand for everything that stops a controller
(`_clear_yield`).  A vehicle is `far`, `near` (outside), at the `gate` (it can no longer
stop before the corridor), in the `mouth` or the `mid`dle, in the `tail` (centre
out, body not) or `clear`.

`Faults` selects what may go wrong: intents lost or late, pauses, yields to
third vehicles, corridors that stay undetected.  Geometry, staging beside the
corridor and braking decide when a vehicle moves on, which is
nondeterministic; a vehicle past the gate may roll on whatever it is told.
Descriptors are assumed to conflict; real ones that do not are separate
resources.  `Ttl` is 3 ticks in the code (0.35 s at 0.1 s a tick), `ClaimTicks` 3.
`tenure` and `calm` are history.

### DStarLite

The variables are the planner's attributes; `g` and `rhs` are total functions with
`Inf` where the dictionaries have no entry, `open` is `_open_keys`, which is the heap
without the stale entries `_pop` skips.  A call of `advance_plan` is the steps from
`BeginSearch` or `BeginProbe` to the one that returns to `pc = "idle"`: every expansion
(`Expand`, `ProbeStep`) is a step, every way to return an action or an arm of one
(`Fail`, `Suspend`, `Conclude`).  Between two calls the scanner and the peers change the
grid (`Scan`, `PeersMove`), the caller asks from another cell, tells only of changes
(`ObserveChanges`), restarts, rejects or accepts a plan.  The order of the calls of one
control step is kept: the peers' cells are set before the delta is given
(`PeersTold`).  With `Live` the grid is `_TransientPlanningGrid`, whose
`cell_without_peers` the planner reads directly, so obstacles are seen before the delta
tells of them; without it the planner relies on `_states` alone.

While a vehicle waits for the owner of a corridor its navigation is not called and the
delta of the control step is dropped for good (`controller.py:1525`, `MissDelta`);
what the planner then believes differs from the grid until its next reset.
The properties hold of what it was told: they exclude this time (`missed`).

Abstractions: steps cost 12 and 17 instead of 1 and sqrt(2), the vehicle stands in
the centre of its cell, the footprint overlaps the cell itself or its four
neighbours too (`Reach`).  `path` and `result` hold the last answer until it is outdated
by an event; `missed` and `events` are history and bound.

### Reservations

One vehicle (`Self`) and what it has heard of its peers (`intents`, with the ticks since
receipt).  `ReservationTable` is `CellReservations`, `EdgeReservations` and `Overlap`: exact
integer geometry of two circles on evenly moving centres.  `SafeIntervals`,
`EdgeConflictEnds` and `Schedule` are `safe_intervals`, `edge_conflict_end` and
`prioritized_sipp`: cell by cell, one earliest arrival per safe interval.  `Tick` is the part of
`_coordinate_desired` from
`_schedule_temporal_motion` on: it schedules the route, or a side step when the route stays
blocked, and starts, yields, lingers or holds; `announced` is the motion intent of the tick
and `against` (history) whom it was scheduled around.  `Sync` is the hold for a reservation that
is not announced yet.

Abstractions: cells and times are whole numbers, steps go straight, poses are at cell
centres when a tick begins, the anchors of all vehicles are aligned, all radii and margins
are equal; whether a yield or a velocity conflict happens is nondeterministic; the goal of a
route is its end; the delay loop of `prioritized_sipp` (bounded by 4096 rounds in the code) is not
bounded.

### GotoController

`nav` is the record of the controller's attributes, `route` the request of
`coordination_corridor` and `coordination_path_cells` for the own-map planner they share with the
probe.  `pc` names the part of a tick that comes next: `Step` has one action per way through
`update`, `_advance_planning`, `_advance_safe_candidate`,
`classify_no_path_against_persistent` and the coordination query; `Change` is the planning
map between two ticks, `Start`, `Cancel`, `TickUnsafe` and `TickCorridorWait` what the
robot controller does to it otherwise.  The planner answers by the `world` as it is
(`Answers`), except after a delta that was dropped untold (`missed`), when it may answer
anything.

Left out: the two failures of a planner at its limits (`expansion_limit`,
`path_extraction`), the bound on inspections within one update, the check whether a
candidate is within its distance limit, and the geometry of segments: what covers a goal
and what cuts the way to it is a cause in the `world`.

### SyncLifecycle

`lock` is the flock on `.fleet.lock`; `rt[r]` the attributes of a `P2PFleetSync` and where
its start or close stands; `br[r][v]` a bridge: what of its process, server, writer and tasks
is `alive`, whether it owns the socket file, and the stage of its close; `socket`, `config`,
`identity` the files of a vehicle; `child` the identity subprocesses.  A start goes through
`AcquireRuntimeLease`, `EnsureIdentity`, `StartServer`, `StartSidecar`, `Ready`; each may fail
and then closes what there is (`StartFails`).  `CallClose` begins or retries a close;
`StopFlush`, `ForgetBridges`, `RemoveConfigs` and `ReleaseRuntimeLease` are the steps of
`P2PFleetSync._close`, `StopResource` and `EndBridge` those of each bridge, running beside it.
`BridgeDeadline` and `CloseDeadline` are `_finish_cleanup` giving up waiting while the task
goes on.  Resources in `Stubborn` may outlive their deadline and stop later (`StopsLate`).
`Crash` is the death of the process at any point.  `IdentityChild` is
`load_or_create_identity` step by step: read, write a temporary file, link it without
replacing, remove it, read again.

Left out: a sidecar of a crashed runtime that outlives it and connects to the next
runtime's socket (the code hands it nothing but its socket path, and the next runtime
replaces the socket); an identity child that survives its kill belongs to nobody.  A flush
task that cannot be cancelled is one of the bounded faults.

### SharedWorld

Vehicles drive to and fro on one lane between two walls.  The unit of time is one step of
the world, velocity changes by at most one in it, and a step from velocity `a` to `b` goes
`a + b` units of length (twice the mean), so all of the arithmetic of `_ramp_velocity` and
`prepare_advance` is exact in integers: braking from `a` takes `a * a`.
`Control` is the control phase of `FleetRuntime.tick`: every controller asks
`LocalSafetyRuntime.evaluate` about any velocity it may want, in Auto or Manual, from the static map
and the places of the others at the last scan, and installs what is left of it.  `Plan` is
`prepare_advance` for all vehicles and `Vehicle.advance` of all copies, `Arbitrate` one
round of the loop in `SharedWorld.advance_to`, `Commit` its end; scans are taken
at step boundaries.  Scans may be `ScanAge` steps old and the static map is always
current, as in the code (`sensor_grid` has no vehicles).

Abstractions: no rotation, no drop-offs, no sensor faults; the velocity allowed in the slow
zone is rounded down; a plan lasts one step (the code shortens steps to 0.05 m of motion);
the deadline of commands is `RobotController`'s, and since every controller sets a
new target in every tick, targets are taken as zero at its end.

## 3. Runs

| Run | Instance | States | Shows |
|---|---|---|---|
| `controller` | 3 missions, 2 definitions with 1 and 2 subgoals, queue of 2, timeout 2 | 237 469 | the controller's safety and action properties, and that it implements `MissionLedger` |
| `goto` | a goal, two stops nearby, 106 situations, 1 change, searches over 2 ticks, fair | 604 475 | one activity at a time, true verdicts, no planning for ever |
| `goto_wait` | the same, coordination without the own-map planner | counterexample | finding 2 |
| `planner` | 4 by 3 cells, footprint with neighbours, 2 starts, 2 maps, 3 events, budgets 3 and 100 | 239 982 | the search is consistent and its answers true, whatever happens between the calls |
| `planner_egress` | a lane of 8 cells, 3 starts, 5 events | counterexample | finding 1 |
| `reservations` | 3 by 3 cells, 2 peers with all short trajectories, 4 routes, side steps | 16 580 | schedules keep clear and are earliest |
| `corridor` | 3 vehicles, the code's times, intents heard in time, fair | 4 576 | one owner, which keeps its lease until it is out; everyone passes |
| `corridor_faults` | 2 vehicles, loss, pauses, yields, undetected corridors | 376 817 | an owner of some standing is not overtaken; one exchange heals a split election |
| `shared_world` | 3 vehicles on 12 units, speed 2, 2 steps a tick, scans up to 1 step old | 484 860 | vehicles stay apart, and can brake before walls |
| `fleet_session` | 2 clients, 2 connections, ring of 2, 6 frames, 3 events, command seqs to 2, fair | 66 636 | order, completeness and lease safety of a session; implements `EventFeed` with its liveness |
| `map_sync` | 2 cells, 2 cell states, batches of 1, queue of 3, 2 changes, 1 peer, fair | 1 062 357 | safety of the pipeline and of reception; a map that stops changing is published completely |
| `lifecycle` | 2 runtimes, 2 vehicles, a server that may not stop, 1 fault, fair | 331 414 | the lease guards what lives, one identity per vehicle, a retried close succeeds |

Why the bounds suffice.  *Controller*: three missions are needed for one active
and two waiting ones (order, capacity, retries with and without a changed
definition); a definition with two subgoals has a last one and one that is not;
with a timeout of 2 and physics steps up to 2 a step may end before, at and past
each deadline, and lease and watchdog may overlap in every way.  *Session*: a ring
of two overflows after three frames, so both a client that keeps up and one
that does not occur in both sessions; events may be appended in each of the
handler's awaits; the second session starts with a ledger that is not empty.
*Corridor*: the election compares bids pairwise; three vehicles give an owner,
a waiter and one that arrives.  Two suffice for loss and delay, where each pair
of links fails by itself; `Ttl` and `ClaimTicks` are reduced there, keeping
`Ttl >= ClaimTicks - 1`, so that an intent from before an arrival may be believed
for a whole claim.  With `ClaimTicks` 1 `OneExchangeAgrees` fails, as it must: two
vehicles that arrive together would never hear of each other; the proof of it assumes
`ClaimTicks > 1`.  `LateComersWait` is proved for all values.
*Map sync*: the queue has the code's own size of three, one slot per channel;
batches of one cell make a change of two cells need two deltas, and two changes
let the cell being sent, the cell waiting and an already published cell change
back and forth.  Peers do not influence the source or each other, so one
suffices.
*Goals*: two candidates, one with a clear segment to the goal and one without, suffice for
a search that ends at the first, goes on to the second, or finds none; in every situation
each of them, the goal and the start may be free, covered or cut off by a peer, an anonymous
obstacle or a wall, and the one change leads from any situation to any other, at any tick.
*Reservations*: the announcements are all trajectories of at most two steps of the peer that
goes first, and three of one that goes second; nine cells let them cross, follow and meet the
route.  A step of 2, a turn of 1 and a margin of 1 make intervals that touch, overlap by the
margin, and leave gaps just too short and just long enough.
*Lifecycle*: two runtimes contend for one directory, two vehicles let a bridge fail beside one that
does not; one fault anywhere meets a stubborn server, so two things go wrong at once.
*World*: three vehicles are what a taken-back move needs to take back another one's; twelve
units hold vehicles side by side as well as one at full speed towards a wall; the clearances
keep the order of the defaults (`Hard < AutoMin < Slow`), and the slow zone is deep enough to
scale a velocity to 0, 1 and 2.
*Planner*: twelve cells with a footprint that covers neighbours give a wall that can
be passed on one side, one that closes the hall, a peer in the only gap and a start in
the clearance of a wall; a budget of 3 suspends a search several times, one of 100
never.  Three events let the map, the peers and the start each change in one session,
or one cell change back and forth.
All bounds on counters (`MaxFrames`, `MaxEvents`, `MaxCommands`,
`MaxSessions`, `MaxSequence`, `MaxChanges`, `MaxPending`, `MaxFaults`, `MaxStep`) are
declared as bounds.

`CHECK_DEADLOCK FALSE` stands in the map sync, session and lifecycle runs because their
bounded inputs run out: nothing remains to be done once the only sidecar is dead, or once every
runtime is closed or dead.

### What the properties say

* `LedgerConsistent`, `SnapshotMatchesLog`: whatever happened, a client that
  replays the event log rebuilds the queue, and the snapshot a reconnecting
  client is shown agrees with it.
* `NoSilentStall`: no sequence of commands leaves a controller Active with nothing a
  tick works on.
* `MotionAuthority`: the wheels turn only for who has the authority.  Two more, that an idle
  vacate never overlaps a mission (`VacateExclusive`) and that stopped work restarts on an
  explicit resume only (`RestartNeedsResume`), are proved.
* `ManualMotionBounded`: ticks re-arm the vehicle watchdog on behalf of one drive
  command, yet manual motion ends less than two timeouts after it.
* `EventGrammar`, `ImplementsLedger`: every mission has a legal life cycle, is
  accepted once, served in order and ended once.
* `ArrivesInTurn`, `ImplementsFeed`: events without gaps and after the ack of
  their command, frames without holes or an explicit overflow; an open session
  hears every event or ends.
* `NoOrphanMotion`: nobody inherits a moving vehicle.
* `AtMostOneOwner`, `LeaseIsKept`, `EveryonePasses`: with intents heard in time the
  election is a fair lock.
* `LateComersWait`: however long the silence, a vehicle outside is not admitted
  beside an owner of longer standing than any older intent lives.  A younger
  owner may be overtaken: both vehicles may have heard each other last before
  either arrived.
* `OneExchangeAgrees`: such a split does not outlive one complete exchange.
* `PipelineIsInflight`: the queue of three never refuses a payload, and a result is
  never credited to another payload than its own.
* `CleanIsPublished`, `PublishedInOrder`, `DirtyDrains`: a change made while its
  cell is in flight, a rejection or a crash never makes an unpublished cell look
  published; numbers are never used for two deltas; everything is published
  eventually.
* `NoGapMeansComplete`: a peer that counts no gap has the source's map.
* `SearchIsConsistent`: the two facts incremental search rests on, in every state: the
  queue holds exactly the inconsistent cells, and every change, whichever way it reaches the
  planner, has updated every cell it concerns.
* `AnswersAreTrue`: what a call answers is what a search from scratch would answer on the same
  map: the route is a shortest one, "no route" is true, peers are blamed exactly if they are
  known and there is a route without them.
* `VerdictIsRight`, `Settles`: however a search for a stop near the goal was spread over ticks, a
  mission is given up for want of a path only if there is none to any goal even without peers, and
  waits only while there are peers; navigation does not plan for ever.
* `ScheduleKeepsClear`: what a vehicle announces keeps its circle clear of every peer it
  was scheduled around to the end of the horizon, also when both are early or late by the
  margin.  `ScheduleIsEarliest`: keeping one arrival per safe interval and jumping to the
  end of a conflict loses no traversal and no time.
* `LeaseGuardsAll`: whatever fails or times out in a start or a close, what a runtime keeps
  alive or on disk is covered by its lock.  `OneIdentity`: children that run together, killed
  anywhere, agree on one key.  `CloseEnds`: close, called again, succeeds.
* `KeepsApart`: vehicles never overlap or pass through each other, whatever their
  controllers want and however stale their scans.  `BrakesInTime`: a moving vehicle can
  always brake before the wall ahead, in Auto and Manual, whatever is commanded when.

### Findings

1. `tests/test_d_star_lite.py:585` expects a route from a pose in the clearance of an
   obstacle that the vehicle can leave.  The egress costs of such a start are refreshed
   only by a call without map changes (`d_star_lite.py:457`); if the call that first
   starts there also reports a change elsewhere, the planner answers "unreachable", and
   goes on to until the vehicle moves or the map changes next to it; run `planner_egress`.
   `NoPathIsReal` states the property for starts outside obstacles, where it holds.
2. `docs/pathfinding.md:98` lets only a peer with a valid lease make a mission wait.  A search for
   a nearby stop keeps the blame it collected for a peer (`_safe_search_peer_blocked`) when
   the peer leaves during the search; when the search then fails for walls, the vehicle waits for
   ever for a change nobody will make (`navigation.py:1173`); run `goto_wait`.

Observations met while modelling that have no run of their own:

* `docs/websocket_protocol.md:192` promises that `pause` without an active or pending mission
  has no side effect and leaves the controller Auto/Idle.  While an idle robot moves aside
  for a peer, `pause` freezes that session and leaves it Paused with an empty queue
  (`controller.py:3838`, action `Pause`).
* `docs/pathfinding.md:195` promises at most one confirmed corridor owner at any time.  A vehicle
  paused in the corridor gives up its lease (`controller.py:4031`), another is admitted after
  three ticks of no interest, and the first is confirmed at once when it resumes inside
  (`controller.py:3313`): with `Faults = {"pause"}` TLC finds `AtMostOneOwner` violated.  The
  same happens to an owner past the gate that yields to a third vehicle and is announced as
  unreserved meanwhile (`controller.py:3587`).
* `docs/pathfinding.md:201` promises that a confirmed owner is not revoked because of a later
  partition.  A claimant with a smaller id that hears nothing of it claims the corridor, and the
  owner, still outside, gives way as soon as it hears the claim (`controller.py:3175`).
* The probe of the own map (`navigation.py:582`) and the coordination queries
  (`navigation.py:468`, `359`) share one planner and a budget per tick; each request for another
  goal restarts the search, so a probe that needs more than one tick may never finish while
  coordination asks at every tick.  This is why `goto` lets `Settles` end in a probe.
* A final approach survives a wait for a peer as a flag, and `finish_nearby_safe_stop` leaves
  the flag of an earlier wait behind; neither has an effect on motion (`TypeOK` of
  `GotoController` names the exception).
* A planner that is blocked blames the peers whenever any peer is known, if a search without all
  of them succeeds; which peer it is plays no part.

## 4. Fairness

* `RobotController`, `Reservations`, `SharedWorld`: none; their properties are safety and action
  properties.
* `GotoController`: `WF(Step)`, since the control loop goes on to the end of each tick and to the
  next one, and `SF(Update)`: a tick in which a corridor owner is waited for does not call
  navigation, and the corridor is not waited for at every tick (`EveryonePasses`).  Nothing is
  assumed of the planner: a session may be left pending `MaxPending` times, the number of slices
  its search takes.
* `SyncLifecycle`: `WF` of a caller that calls `close` until it succeeds (the code's callers retry
  or end the process), of the steps of both kinds of close task, since the event loop runs its
  tasks, and of `StopsLate`: what was killed or cancelled ends some day.
* `FleetSession`: `WF(HandlerStep)`, since the coroutine is scheduled and a send to an
  open connection returns or raises (both ends count: `Finish` is a client step
  that may happen at any time but need not); `WF` of a tick with a frame, since
  the loop samples scans periodically.  A client need not send anything.
* `CorridorLease`: `WF` of ticks and exchanges (two periodic loops); `SF` of a vehicle
  moving on and detecting the corridor ahead when it may: its planner drives it
  along the route, and a map that is observed completely shows the corridor.  This
  includes that a waiter at the exit finds a place beside the corridor: the code
  holds the owner at the gate until it has (`controller.py:3380`).
* `MapSync`: `WF` of the flush loop, the send loop, the read loop and the
  sidecar's answers; `SF` of gossipsub accepting a delta: it may refuse any finite
  number of times (`InsufficientPeers`), not for ever.  `DirtyDrains` is stated for
  behaviours in which the sidecar lives.
* `DStarLite`: none.  That a caller who keeps asking gets an answer would need fairness of
  each of its actions, and TLC's evaluation of ENABLED for steps that compute a search
  is out of proportion.

## 5. Proofs

A theorem holds for every value of the constants within the ASSUMEs of its module, which TLC
evaluates on every run.  Every proof module states an inductive invariant `IInv`, one lemma for
each action that preserves it, and the theorems it implies.  All the properties that are proved
are also checked by a run, except `AnswersHoldOfEveryWay` of `DStarLite`: it speaks of all
sequences of moves, which TLC cannot enumerate.

| Module | Proved of its specification | Further assumptions |
|---|---|---|
| `RobotController` | `TypeOK`, `LedgerConsistent`, `SnapshotMatchesLog`, `NoSilentStall`, `VacateExclusive`, `MotionAuthority`, `ManualMotionBounded`, `RestartNeedsResume`, `EventGrammar`, `ImplementsLedger` | |
| `CorridorLease` | `TypeOK`, `LateComersWait` | |
| | `OneExchangeAgrees` | `ClaimTicks > 1` |
| | `AtMostOneOwner`, `LeaseIsKept` | `ClaimTicks > 1`, no faults |
| `SharedWorld` | `TypeOK`, `KeepsApart`, `BrakesInTime` | |
| `FleetSession` | `TypeOK`, `ArrivesInTurn`, `NoOrphanMotion`, the safety part of `ImplementsFeed` | |
| `MapSync` | `TypeOK`, `CleanIsPublished`, `PublishedInOrder`, `NoGapMeansComplete`, `PipelineIsInflight` | |
| `SyncLifecycle` | `TypeOK`, `LeaseGuardsAll`, `OneIdentity` | |
| `GotoController` | `TypeOK`, `VerdictIsRight` | |
| `DStarLite` | `TypeOK`, `SearchIsConsistent`, `AnswersAreTrue`, `AnswersHoldOfEveryWay` | |

*RobotController*: any missions, definitions, queue capacity and timeouts.  `IInv` is the type
invariant, the log/queue correspondence, and `Control`, the conjunction of the state properties
with `ManualLease`.  The parts need each other: `SnapshotMatchesLog` is preserved by a tick only
because `NoSilentStall` says an Active controller has a live navigation; the pause handler skips
its event when a vacate session is open, which is harmless only because of `VacateExclusive`;
`ManualMotionBounded` is not inductive alone and follows from the lease arithmetic
`sinceCommand + lease <= T`, `sinceCommand + watchdog < 2T`.  Lemmas about the log (`EmitOne`,
`EmitEach`, ...) and the queue (`AppendFresh`, `TailOf`) carry the sequence reasoning.
`LogIsLegal` proves that every step appends only legal successors of what the log says
(`EventGrammar`); it needs that a mission that waits to be started is not logged as active
already (`StartIsNew`).  `ImplementsTheLedger` is the refinement: with active mission, queue and
finished missions as the ledger's state every action is a step of `MissionLedger` or a
stutter.

*CorridorLease*: any number of vehicles, any `Ttl`, `ClaimTicks` and delay bound, all faults.
`IInv` adds to the types that all intents heard or under way are `Truthful`: one sent less than
`tenure[u]` ticks ago says that `u` holds the corridor in its own name, and nothing believed is
older than `Ttl + MaxDelay`.  So the intent a quorum requires of the owner contradicts both ways
to be admitted (`LateComersWait`).  Type correctness needs that every election has a winner
(`ElectionDecides`): the order of bids is lexicographic in rank, owner and sender.
`ExchangeSettles` adds to the invariant that only one's own claim is announced, counted or
confirmed (`Stated`), and what everybody knows of everybody after an exchange in which all were
heard (`Calm`); of two vehicles that know of each other's claims one gives way.  `OneOwner` and
`OwnersKeepTheirLease` go on from there without faults: every claim is announced and heard
(`Undisturbed`), who has passed the place where it would brake is confirmed (`OnTheWay`), beside
a confirmed owner nobody claims (`SoleClaim`), and when nobody claims, those that wait have
given way to vehicles that are out of the corridor (`Vacant`).  `ClaimTicks > 1` is needed, as two
vehicles that arrive in one tick would otherwise both be admitted before they hear of each other;
the code has 3
(`PEER_YIELD_CLEAR_TICKS`).

*SharedWorld*: any lane, number of vehicles, speed, clearances with `Hard <= AutoMin` and
`Hard < Slow`, and age of scans.  The property that vehicles are apart is not inductive inside
a step: while moves are arbitrated both places of every vehicle count, the old one and the candidate,
and the `Candidates` have room to brake too.  `BrakesInTime` rests on one arithmetic lemma
(`BrakeStep`): a vehicle that has `a * a` to brake from velocity `a`, and asks for no more than local
safety allows, has after a step the room to brake from its new velocity.

*FleetSession*: any clients, events, frames, commands and ring size.  `Conversation` says what the
`outbox` and the batch of frames may hold wherever the handler waits; `ArrivesInTurn` is then a
fact about what is sent next.  The events of a command are owed to the client only while its
acknowledgement is in the outbox, so that no event can overtake it.  `RefinesFeed` is the refinement of
`EventFeed` without its fairness.

*MapSync*: any grid, payload sizes, queue size, number of peers, and a sidecar that dies anywhere.
`Pipeline` is `PipelineIsInflight` without its counting: while the link is up a channel's
payload occurs at one place only (`Alone`), is the one the state has in flight (`Matches`), and is
somewhere (`Present`); the theorem about the bag is derived from it.  `Numbers`, `Accepted` and
`Chain` say that a payload in flight has its channel's next number and carries dirty cells only, that
the vehicle's count of accepted deltas lags by the result it has not read yet, and that every
published map is the one before it and a delta.

*SyncLifecycle*: any number of runtimes and vehicles, any order of failures, deadlines and crashes.
`Own(r)` says of one runtime, for each phase of its start and close, that without the lease it
keeps nothing (`Holding`), that its servers start in the order of the fleet (`Started`), that a
bridge it has let go of, or that is closed without an error, keeps nothing (`Kept`), and that only a
dead runtime leaves files (`Files`).  `Child` says what an identity subprocess knows at each of its
steps; linking without replacing keeps the first key.

*GotoController*: any candidates, any set of situations and changes.  `Shaped` says that the controller
does one thing at a time, `InStep` what each part of a tick relies on.  `Sound` holds while nothing
has changed under a search and no delta was dropped: a search blames peers if the goal or a
candidate behind it is open but for them (`Searched`).  So the mission is given up only when no
goal is open, or at a goal that turned out not to be free (`Right`), and waits only while there are
peers.

*DStarLite*: any grid, footprint, margin, budget and number of events.  `SearchIsConsistent` says that
the queue holds exactly the cells whose `g` and `rhs` differ, and that `rhs` is the lookahead
value of today's map.  The second part is inductive only with an exception (`Lookahead`): between
a change of the grid and the delta that tells of it the cells it concerns (`Affected(delta)`) are
not up to date.  Three lemmas say how far a change reaches (`AwayFromChanges`, `BlockingIsLocal`,
`BestIsLocal`) and one (`UpdateSearches`) that an update is enough when every cell it leaves out is
unmoved.  The proof corrected the model once: the type invariant said that a session never spends
more than its limit.  It may: when a pending session is continued from a start outside its window a
new window is laid around start and goal, which may be smaller, and what was spent under the
limit of the larger one is kept (`_planning_expansions`).  The session is then refused at
once; `spent` is within the limit only while a search goes on.

`AnswersAreTrue` of `DStarLite` is proved in four parts.

1. *The reference.*  `Reference` settles cells in order of distance.  Its distances are zero at the
   goal, obey the triangle inequality over every move that can be made (`DistanceIsLeast`), and are
   reached from the goal over such moves (`DistanceIsTree`).  No induction theorem is needed: a
   recursion is the function that satisfies it (`Iterates`), and what it keeps holds up to any number
   because a least exception would have none before it (`CountingUp`).
2. *The search.*  `IInv` is not enough for a search that ends.  `Prepared` adds that a cell in an
   obstacle's clearance has the value of leaving it or none (`Egress`), that the key of a cell in the
   queue is a lower bound of its key of today (`KeysAreLow`: the key modifier makes up for the start
   moves since), and that the goal has `rhs` 0 (`Ends`).  Then, when the queue's first key is not below
   the start's, every cell that may lie on a shortest path is consistent (`FinishedIsConsistent`),
   the value of the start is the distance of the goal (`StartIsNear`, `PassedAreNear`), each step of
   the extraction goes down by what its move costs (`PathGoesDown`), and the path so extracted is
   shorter than the window is large (`PathsAreShort`), so it ends at the goal (`PathIsShortest`).  A
   start without a value has no route (`NoPathExists`).
3. *The probe.*  `Explored` says that a search by breadth has visited nothing but what can be
   reached and all there is next to cells that no longer wait; so it ends in the goal
   (`ExplorationReaches`) or with a set that cannot be left (`ExplorationEnds`).
4. *The calls.*  `Asking` says that a call under way has been told of all changes, `Probing` that a
   probe suspended between calls is one of today's map; every step outdates, keeps or gives an
   answer (`NextAnswers`).

`AnswersHoldOfEveryWay` says the same of the sequences of moves themselves, so that nothing
depends on what the reference is: no way from the start to the goal costs less than a ready path,
every way has a move that cannot be made when no route is found, and a peer is blamed exactly when
there is a way that can be driven without the peers (`NoWayIsCheaper`, `WaysAreDistances`).

The proof corrected a property: `BlameIsRight` said that a failed search blames the peers exactly
when there is a route without them.  With no peer known nobody asks for that route, and a start in the
clearance of an obstacle may then be refused although it has one (finding 1), so the property holds
of such a start only if there are peers.  It made two things explicit as well: that `None` is no
answer (`ResultAssumption`), and that a ready path is made of moves to neighbours and is only given
when a route exists (`ReadyIsShortest`).

Only model-checked:

* Liveness, which is outside what the prover handles: `Settles`, `EveryonePasses`, `DirtyDrains`,
  `CloseEnds`, and the liveness part of `ImplementsFeed`.
* `Reservations`: its schedules are folds and searches over sequences of intervals, whose
  correctness, and even type, needs induction over that data.

## 6. Plan

The runs cover what was planned of the system's behaviour, and what was planned to be proved
is.  What may follow:

1. `Reservations`: the parts that are not folds, such as that the reservation a vehicle announces is
   the one it follows; the intervals themselves can be treated as the planner's search was, by
   functions that satisfy their recursion (`Iterates`).
2. A model of the exchange of vacate requests, which is the hazard of a deadlock that no property
   covers (section 7).

No module a proof needs declares a RECURSIVE operator.

## 7. Not modelled

Listed with reasons under `components` in `PROJECT.json`.

* Protocol parsing is stateless validation and appears as its outcome; scan, collision and grid
  geometry are floating-point functions without state; A* is a stateless search that only the
  command line uses; the command line and the LiDAR viewer carry no state of the system.
* `ObservedGrid` is a counter per cell under a projection of rays; what could go wrong with it
  (a wall forgotten because of free observations before and after a parked vehicle) depends on
  which rays cross which cell, which no model here has.
* The single-vehicle server speaks `FleetSession`'s protocol with `RobotController`'s commands,
  without the concurrency: its connection drives the ticks itself.
* Episodes are a sequential driver for tests; their verdict is read off one state.
* The exchange of vacate requests between two parked vehicles: which cells may be vacated to
  depends on geometry over both routes (`_transient_peer_vacate`,
  `_parked_route_vacate_request`).  `RobotController` has the session's effect on modes and
  motion only, so two vehicles that each wait for the other to vacate are outside the models.
* Generations of restarted senders in `MapSyncState` (a sender that starts again is a new
  one), and the content of messages that are rejected.
* The bound on expansions of a planning session (20 per cell) is in `DStarLite`, but no session of
  the runs comes near it, so the refusal is not exercised.
