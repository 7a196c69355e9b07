---------------------------- MODULE RobotController ----------------------------
(****************************************************************************)
(* The per-robot mode, mission and motion state machine of controller.py:   *)
(* class RobotController, with the two pieces of vehicle.py it commands     *)
(* (the target velocity and its watchdog).  One action per command handler, *)
(* per outcome of a control tick, and one for the physics step between them.*)
(*                                                                          *)
(* Abstractions.  A mission is its id; `known' gives the definition (the    *)
(* fingerprint) it was accepted with.  The append-only event log is kept as *)
(* its newest suffix (`emitted', what this step appended) and its summary   *)
(* (`last', the newest status of each mission).  Deadlines are remaining    *)
(* times: `now >= deadline' is `remaining = 0'.  Planning, coordination and *)
(* safety choose between the outcomes of a tick and are nondeterministic.   *)
(****************************************************************************)
EXTENDS Integers, Sequences

CONSTANTS
  MissionIds,       \* ids a client may submit
  Definitions,      \* fingerprints: what a mission asks for
  Subgoals,         \* Subgoals[d]: number of subgoals definition d expands to
  NoMission,        \* active_mission is None
  NoDefinition,     \* id absent from _mission_history
  MissionCapacity,  \* mission_capacity
  CommandTimeout,   \* vehicle.command_timeout, in steps of simulated time
  MaxStep           \* bound: longest physics step taken at once

ASSUME MissionAssumption ==
  /\ NoMission \notin MissionIds
  /\ NoDefinition \notin Definitions
  /\ Subgoals \in [Definitions -> Nat \ {0}]
ASSUME BoundAssumption ==
  /\ MissionCapacity \in Nat \ {0}
  /\ CommandTimeout \in Nat \ {0}
  /\ MaxStep \in Nat \ {0}

VARIABLES
  mode,         \* "manual" or "auto"
  autoState,    \* "idle", "active", "paused" or "blocked"
  active,       \* active_mission
  pending,      \* _pending, oldest first
  known,        \* _mission_history
  subgoal,      \* _subgoal_index + 1
  needsStart,   \* _needs_start
  nav,          \* navigation.status
  vacate,       \* idle-vacate session: "none", "yielding" or "returning"
  emitted,      \* events the last step appended to _events
  last,         \* status of the newest event of each mission, "none" if none
  setpoint,     \* _manual_setpoint: "none", "rest" (0, 0) or "move"
  lease,        \* time left until _manual_deadline
  target,       \* who commanded the vehicle's target velocity
  watchdog,     \* time left until the vehicle's _command_deadline
  sinceCommand  \* history: time since the last accepted manual drive command

missionVars == <<active, pending, known, subgoal>>
logVars     == <<emitted, last>>
autoVars    == <<autoState, needsStart, nav, vacate>>
manualVars  == <<setpoint, lease, sinceCommand>>
motionVars  == <<target, watchdog>>
vars == <<mode, missionVars, logVars, autoVars, manualVars, motionVars>>

Statuses == {"queued", "active", "paused", "blocked", "reached", "cancelled"}
Event == [mission : MissionIds, status : Statuses]
HasWork == active # NoMission \/ pending # <<>>

MissionType ==
  /\ active \in MissionIds \cup {NoMission}
  /\ pending \in Seq(MissionIds) /\ Len(pending) <= MissionCapacity
  /\ known \in [MissionIds -> Definitions \cup {NoDefinition}]
  /\ subgoal \in Nat \ {0}

LogType ==
  /\ emitted \in Seq(Event)
  /\ last \in [MissionIds -> Statuses \cup {"none"}]

ModeType ==
  /\ mode \in {"manual", "auto"}
  /\ autoState \in {"idle", "active", "paused", "blocked"}
  /\ needsStart \in BOOLEAN
  /\ nav \in {"idle", "active", "reached", "blocked", "cancelled"}
  /\ vacate \in {"none", "yielding", "returning"}

MotionType ==
  /\ setpoint \in {"none", "rest", "move"}
  /\ lease \in 0..CommandTimeout
  /\ target \in {"zero", "manual", "auto"}
  /\ watchdog \in 0..CommandTimeout
  /\ sinceCommand \in 0..(2 * CommandTimeout)

TypeOK == MissionType /\ LogType /\ ModeType /\ MotionType

Init ==
  /\ mode = "manual" /\ autoState = "idle"
  /\ active = NoMission /\ pending = <<>>
  /\ known = [m \in MissionIds |-> NoDefinition]
  /\ subgoal = 1 /\ needsStart = FALSE /\ nav = "idle" /\ vacate = "none"
  /\ emitted = <<>> /\ last = [m \in MissionIds |-> "none"]
  /\ setpoint = "none" /\ lease = 0
  /\ target = "zero" /\ watchdog = 0 /\ sinceCommand = 0

----------------------------------------------------------------------------
(* Shared steps of the handlers. *)

Ev(m, s) == [mission |-> m, status |-> s]

\* The status of m after the events of evs are appended to the log.
StatusAfter(evs, m) ==
  IF \E i \in DOMAIN evs : evs[i].mission = m
    THEN LET newest == CHOOSE i \in DOMAIN evs :
                         /\ evs[i].mission = m
                         /\ \A j \in DOMAIN evs : j > i => evs[j].mission # m
         IN  evs[newest].status
    ELSE last[m]

Emit(evs) ==
  /\ emitted' = evs
  /\ last' = [m \in MissionIds |-> StatusAfter(evs, m)]

Stop == target' = "zero" /\ watchdog' = 0

\* install_drive with a nonzero setpoint; install_drive(0, 0) is Stop.
Drive(who) == target' = who /\ watchdog' = CommandTimeout

ClearManual == setpoint' = "none" /\ lease' = 0 /\ UNCHANGED sinceCommand

\* Mutant of PauseActive: only a mission that is being driven is reported paused.
PauseActiveIfDriven ==
  /\ vacate' = "none" /\ autoState' = "paused" /\ needsStart' = FALSE
  /\ IF nav # "active" \/ active = NoMission
       THEN Emit(<<>>) /\ UNCHANGED nav
       ELSE nav' = "cancelled" /\ Emit(<<Ev(active, "paused")>>)

\* _pause_active.  An already paused controller emits nothing.
PauseActive ==
  /\ vacate' = "none"
  /\ autoState' = "paused"
  /\ needsStart' = FALSE
  /\ IF autoState = "paused" \/ active = NoMission
       THEN Emit(<<>>) /\ UNCHANGED nav
       ELSE /\ nav' = IF nav = "active" THEN "cancelled" ELSE nav
            /\ Emit(<<Ev(active, "paused")>>)

\* _freeze_idle_vacate, when it returns True.
FreezeIdleVacate ==
  /\ vacate # "none"
  /\ autoState' = "paused"
  /\ Emit(<<>>)
  /\ UNCHANGED <<vacate, needsStart, nav>>

\* stop_motion, pause, disconnect and fail_safe_stop in Auto mode: freeze an
\* idle vacate, else pause the work, else leave the mode as `idleStep' says.
FreezeOrPause(idleStep) ==
  \/ FreezeIdleVacate
  \/ vacate = "none" /\ HasWork /\ PauseActive
  \/ vacate = "none" /\ ~HasWork /\ Emit(<<>>) /\ UNCHANGED <<nav, vacate>> /\ idleStep

----------------------------------------------------------------------------
(* Command handlers. *)

\* ModeAction.STOP_MOTION.
StopMotion ==
  /\ Stop /\ ClearManual
  /\ IF mode = "auto"
       THEN FreezeOrPause(autoState' = "idle" /\ UNCHANGED needsStart)
       ELSE Emit(<<>>) /\ UNCHANGED autoVars
  /\ UNCHANGED <<mode, missionVars>>

\* ModeAction.SWITCH_TO_MANUAL.
SwitchToManual ==
  /\ mode = "auto"
  /\ mode' = "manual"
  /\ Stop /\ ClearManual
  /\ IF HasWork
       THEN PauseActive
       ELSE autoState' = "idle" /\ vacate' = "none" /\ Emit(<<>>) /\ UNCHANGED <<needsStart, nav>>
  /\ UNCHANGED missionVars

\* ModeAction.SWITCH_TO_AUTO: retained work stays paused.
SwitchToAuto ==
  /\ mode = "manual"
  /\ mode' = "auto"
  /\ Stop /\ ClearManual /\ Emit(<<>>)
  /\ IF HasWork
       THEN autoState' = "paused" /\ needsStart' = FALSE
       ELSE autoState' = "idle" /\ UNCHANGED needsStart
  /\ UNCHANGED <<nav, vacate, missionVars>>

\* ManualAction.DRIVE, with the verdict of safety.evaluate.
ManualDrive ==
  /\ mode = "manual"
  /\ \/ Stop /\ ClearManual
     \/ /\ setpoint' = "rest" /\ lease' = CommandTimeout /\ sinceCommand' = 0
        /\ Stop
     \/ /\ setpoint' = "move" /\ lease' = CommandTimeout /\ sinceCommand' = 0
        /\ Drive("manual")
  /\ Emit(<<>>)
  /\ UNCHANGED <<mode, missionVars, autoVars>>

\* ManualAction.STOP.
ManualStop ==
  /\ mode = "manual"
  /\ Stop /\ ClearManual /\ Emit(<<>>)
  /\ UNCHANGED <<mode, missionVars, autoVars>>

\* AutoAction.PUSH.  The batch is the domain of `definition'; `fresh' lists its
\* missions that are not yet known, in batch order; the others must be retries
\* with the same definition.  A rejected batch changes nothing.
Push(definition, fresh) ==
  /\ mode = "auto"
  /\ {fresh[i] : i \in DOMAIN fresh} = {m \in DOMAIN definition : known[m] = NoDefinition}
  /\ \A i, j \in DOMAIN fresh : fresh[i] = fresh[j] => i = j
  /\ \A m \in DOMAIN definition : known[m] \in {NoDefinition, definition[m]}
  /\ Len(pending) + Len(fresh) <= MissionCapacity
  /\ pending' = pending \o fresh
  /\ known' = [m \in MissionIds |->
                 IF m \in DOMAIN definition THEN definition[m] ELSE known[m]]
  /\ Emit([i \in 1..Len(fresh) |-> Ev(fresh[i], "queued")])
  /\ IF fresh # <<>> /\ autoState = "idle"
       THEN autoState' = "active" /\ needsStart' = TRUE
       ELSE UNCHANGED <<autoState, needsStart>>
  /\ UNCHANGED <<mode, active, subgoal, nav, vacate, manualVars, motionVars>>

Batches == UNION {[ids -> Definitions] : ids \in (SUBSET MissionIds) \ {{}}}
Orders(ids) == UNION {[1..n -> ids] : n \in 0..MissionCapacity}

\* Mutant of Pause: the wheels keep their target.
PauseKeepsTarget ==
  /\ mode = "auto"
  /\ FreezeOrPause(autoState' = "idle" /\ needsStart' = FALSE)
  /\ UNCHANGED <<mode, missionVars, manualVars, motionVars>>

\* AutoAction.PAUSE.
Pause ==
  /\ mode = "auto"
  /\ Stop
  /\ FreezeOrPause(autoState' = "idle" /\ needsStart' = FALSE)
  /\ UNCHANGED <<mode, missionVars, manualVars>>

\* Mutant of Resume: the start of the work is not requested.
ResumeWithoutStart ==
  /\ mode = "auto" /\ autoState # "active"
  /\ Stop /\ Emit(<<>>)
  /\ autoState' = IF HasWork THEN "active" ELSE "idle"
  /\ UNCHANGED <<mode, missionVars, needsStart, nav, vacate, manualVars>>

\* AutoAction.RESUME; already Active is a no-op.
Resume ==
  /\ mode = "auto" /\ autoState # "active"
  /\ Stop /\ Emit(<<>>)
  /\ autoState' = IF HasWork THEN "active" ELSE "idle"
  /\ needsStart' = HasWork
  /\ UNCHANGED <<mode, missionVars, nav, vacate, manualVars>>

\* AutoAction.CANCEL_ALL.
CancelAll ==
  /\ mode = "auto"
  /\ Stop
  /\ LET missions == (IF active = NoMission THEN <<>> ELSE <<active>>) \o pending
     IN  Emit([i \in 1..Len(missions) |-> Ev(missions[i], "cancelled")])
  /\ nav' = IF nav \in {"active", "blocked"} THEN "cancelled" ELSE nav
  /\ active' = NoMission /\ pending' = <<>> /\ subgoal' = 1
  /\ autoState' = "idle" /\ needsStart' = FALSE /\ vacate' = "none"
  /\ UNCHANGED <<mode, known, manualVars>>

\* disconnect, and fail_safe_stop after an invalid command: the same steps.
Disconnect ==
  /\ Stop /\ ClearManual
  /\ IF mode = "auto"
       THEN FreezeOrPause(UNCHANGED <<autoState, needsStart>>)
       ELSE Emit(<<>>) /\ UNCHANGED autoVars
  /\ UNCHANGED <<mode, missionVars>>

----------------------------------------------------------------------------
(* Control ticks. *)

\* Mutant of TickManual: the deadline of the manual setpoint is not looked at.
TickManualNoDeadline ==
  /\ mode = "manual" /\ vacate' = "none"
  /\ \/ Stop /\ ClearManual
     \/ /\ setpoint # "none"
        /\ IF setpoint = "move" THEN Drive("manual") ELSE Stop
        /\ UNCHANGED manualVars
  /\ Emit(<<>>)
  /\ UNCHANGED <<mode, missionVars, autoState, needsStart, nav>>

TickManual ==
  /\ mode = "manual"
  /\ vacate' = "none"
  /\ \/ Stop /\ ClearManual           \* no lease, expired, or rejected by safety
     \/ /\ setpoint # "none" /\ lease > 0
        /\ IF setpoint = "move" THEN Drive("manual") ELSE Stop
        /\ UNCHANGED manualVars
  /\ Emit(<<>>)
  /\ UNCHANGED <<mode, missionVars, autoState, needsStart, nav>>

\* A tick in Auto that is neither Active nor running the idle-vacate responder.
TickHeld ==
  /\ mode = "auto" /\ autoState # "active"
  /\ vacate' = IF autoState = "paused" THEN vacate ELSE "none"
  /\ autoState = "idle" => vacate = "none"
  /\ Stop /\ ClearManual /\ Emit(<<>>)
  /\ UNCHANGED <<mode, missionVars, autoState, needsStart, nav>>

\* _tick_idle_vacate_responder and _tick_idle_vacate_return.
ResponderRuns == mode = "auto" /\ autoState = "idle" /\ ~HasWork

TickVacate ==
  /\ ResponderRuns
  /\ ClearManual /\ Emit(<<>>)
  /\ \/ /\ vacate # "none"                       \* lost pose, collision or stop
        /\ autoState' = "paused" /\ Stop
        /\ UNCHANGED <<vacate, nav>>
     \/ /\ vacate \in {"none", "yielding"}       \* move aside for a requester
        /\ vacate' = "yielding" /\ Drive("auto")
        /\ UNCHANGED <<autoState, nav>>
     \/ /\ vacate = "yielding"                   \* requester silent, or route not clear
        /\ Stop /\ UNCHANGED <<autoState, vacate, nav>>
     \/ /\ vacate = "yielding"                   \* requester gone: go back
        /\ vacate' = "returning" /\ nav' = "active"
        /\ Stop /\ UNCHANGED autoState
     \/ /\ vacate = "returning"                  \* under way, waiting or no path
        /\ \/ nav' \in {"active", "blocked"} /\ Stop
           \/ nav' = "active" /\ Drive("auto")
        /\ UNCHANGED <<autoState, vacate>>
     \/ /\ vacate = "returning" /\ nav = "active" \* back at the origin
        /\ nav' = "reached" /\ vacate' = "none"
        /\ Stop /\ UNCHANGED autoState
  /\ UNCHANGED <<mode, missionVars, needsStart>>

----------------------------------------------------------------------------
(* Active ticks.  _start_or_resume and the navigation update that follows   *)
(* belong to one tick: what the tick works on after its start phase is      *)
(* Served, with Waiting still queued, at subgoal Index.                     *)

Startable == mode = "auto" /\ autoState = "active" /\ needsStart /\ HasWork
ServedNewest == IF active # NoMission THEN active ELSE pending[Len(pending)]  \* mutant
Served  == IF active # NoMission THEN active ELSE Head(pending)
WaitingAll == pending                                                         \* mutant
Waiting == IF active # NoMission THEN pending ELSE Tail(pending)
Index   == IF active # NoMission THEN subgoal ELSE 1
NoStartEvent == <<>>                                                          \* mutant
StartEvent == IF needsStart THEN <<Ev(Served, "active")>> ELSE <<>>

Serving ==
  /\ mode = "auto" /\ autoState = "active"
  /\ IF needsStart THEN HasWork ELSE active # NoMission
  /\ ClearManual

Working ==
  /\ Serving
  /\ active' = Served /\ pending' = Waiting
  /\ needsStart' = FALSE
  /\ UNCHANGED <<mode, known>>

\* The start phase clears the yield session; a tick without one keeps it.
KeepVacate == vacate' = IF needsStart THEN "none" ELSE vacate

\* The start phase fails: goal rejected by the planner, or pose lost.
StartFails ==
  /\ Startable
  /\ Working
  /\ subgoal' = Index
  /\ autoState' = "blocked" /\ nav' = "blocked" /\ vacate' = "none"
  /\ Stop
  /\ Emit(<<Ev(Served, "blocked")>>)

\* Navigation goes on: an actuator setpoint, or a hold (planning, yielding,
\* corridor lease, temporal reservation, deferred edge evidence).
TickDrive ==
  /\ Working
  /\ needsStart \/ nav = "active"
  /\ subgoal' = Index
  /\ nav' = "active" /\ KeepVacate
  /\ Drive("auto") \/ Stop
  /\ Emit(StartEvent)
  /\ UNCHANGED autoState

\* Navigation or the safety gate gives up on the current subgoal.
TickBlocked ==
  /\ Working
  /\ subgoal' = Index
  /\ autoState' = "blocked" /\ nav' = "blocked" /\ KeepVacate
  /\ Stop
  /\ Emit(StartEvent \o <<Ev(Served, "blocked")>>)

\* A subgoal that is not the last one is reached: its successor starts at once
\* and silently, or fails to start.
TickNextSubgoal ==
  /\ Working
  /\ needsStart \/ nav = "active"
  /\ Index < Subgoals[known[Served]]
  /\ subgoal' = Index + 1
  /\ vacate' = "none"
  /\ Stop
  /\ \/ nav' = "active" /\ Emit(StartEvent) /\ UNCHANGED autoState
     \/ /\ nav' = "blocked" /\ autoState' = "blocked"
        /\ Emit(StartEvent \o <<Ev(Served, "blocked")>>)

\* The last subgoal is reached: the mission is finished (_finish_reached).
TickReached ==
  /\ Serving
  /\ needsStart \/ nav = "active"
  /\ Index >= Subgoals[known[Served]]
  /\ active' = NoMission /\ pending' = Waiting /\ subgoal' = 1
  /\ needsStart' = (Waiting # <<>>)
  /\ autoState' = IF Waiting # <<>> THEN "active" ELSE "idle"
  /\ nav' = "reached" /\ vacate' = "none"
  /\ Stop
  /\ Emit(StartEvent \o <<Ev(Served, "reached")>>)
  /\ UNCHANGED <<mode, known>>

----------------------------------------------------------------------------
(* Vehicle.advance over d time units: the watchdog, or a collision or a     *)
(* safety stop on the way, drops the target; leases run down.               *)

LessUnclamped(t, d) == t - d           \* mutant
Less(t, d) == IF t > d THEN t - d ELSE 0

Advance(d) ==
  /\ IF watchdog > d
       THEN \/ watchdog' = watchdog - d /\ UNCHANGED target
            \/ Stop
       ELSE Stop
  /\ lease' = Less(lease, d)
  /\ sinceCommand' = IF sinceCommand + d < 2 * CommandTimeout
                       THEN sinceCommand + d ELSE 2 * CommandTimeout
  /\ Emit(<<>>)
  /\ UNCHANGED <<mode, missionVars, autoVars, setpoint>>

----------------------------------------------------------------------------

Command ==
  \/ StopMotion \/ SwitchToManual \/ SwitchToAuto
  \/ ManualDrive \/ ManualStop
  \/ \E definition \in Batches :
       \E fresh \in Orders(DOMAIN definition) : Push(definition, fresh)
  \/ Pause \/ Resume \/ CancelAll
  \/ Disconnect

Tick ==
  \/ TickManual \/ TickHeld \/ TickVacate
  \/ StartFails \/ TickDrive \/ TickBlocked \/ TickNextSubgoal \/ TickReached

Time == \E d \in 1..MaxStep : Advance(d)

Next == Command \/ Tick \/ Time

Spec == Init /\ [][Next]_vars

----------------------------------------------------------------------------
(* Properties. *)

\* The queue, the active mission and the event log tell one story: a mission is
\* waiting exactly when its newest event is `queued', it is the active mission
\* exactly when that event is active, paused or blocked, nothing is queued
\* twice, and an id is known exactly when it has an event.  A client that
\* replays the log of controller.py rebuilds the queue the snapshot shows.
LedgerConsistent ==
  /\ \A m \in MissionIds :
       /\ last[m] = "queued" <=> \E i \in DOMAIN pending : pending[i] = m
       /\ last[m] \in {"active", "paused", "blocked"} <=> m = active
       /\ last[m] = "none" <=> known[m] = NoDefinition
  /\ \A i, j \in DOMAIN pending : pending[i] = pending[j] => i = j

\* The controller state a reconnecting client is shown agrees with the newest
\* event of the active mission, Idle means there is no work at all, and Blocked
\* is never shown in Manual mode.
SnapshotMatchesLog ==
  /\ active # NoMission =>
       /\ autoState = "paused"  => last[active] = "paused"
       /\ autoState = "blocked" => last[active] = "blocked"
       /\ autoState = "active" /\ ~needsStart => last[active] = "active"
  /\ autoState = "blocked" => active # NoMission /\ mode = "auto"
  /\ autoState = "idle" => ~HasWork

\* An Active controller always has something a tick can work on: a mission to
\* start, or an active mission whose navigation is live.  Otherwise it would
\* stay Active and hold forever, since update() of a dead navigation is a hold.
NoSilentStall ==
  autoState = "active" =>
    /\ mode = "auto"
    /\ HasWork
    /\ ~needsStart => active # NoMission /\ nav = "active"

\* An idle-vacate session never overlaps an active mission and never survives a
\* mode switch, so freezing it cannot swallow the pause of a running mission.
VacateExclusive ==
  vacate # "none" => active = NoMission /\ mode = "auto" /\ autoState # "blocked"

\* The wheels are only ever driven by whoever has the authority: automatic
\* motion by an Active controller or by a running idle vacate, manual motion
\* under a manual setpoint; a paused, blocked or workless controller is still.
MotionAuthority ==
  /\ target = "auto" => /\ mode = "auto"
                        /\ autoState = "active" \/ (autoState = "idle" /\ vacate # "none")
  /\ target = "manual" => mode = "manual" /\ setpoint = "move"
  /\ target = "zero" <=> watchdog = 0

\* Ticks re-arm the vehicle watchdog on behalf of one manual command, but the
\* manual lease bounds how often: no manual motion is ever commanded two
\* timeouts after the last accepted drive command, whatever stops running.
ManualMotionBounded == target = "manual" => sinceCommand < 2 * CommandTimeout

\* What may follow each status in the log of one mission.
Legal ==
  [none      |-> {"queued"},
   queued    |-> {"active", "blocked", "cancelled"},
   active    |-> {"paused", "blocked", "reached", "cancelled"},
   paused    |-> {"active", "paused", "blocked", "cancelled"},
   blocked   |-> {"active", "paused", "blocked", "cancelled"},
   reached   |-> {},
   cancelled |-> {}]

\* Every event appended to the log is a legal successor of the mission's
\* previous event, also within one step: nothing follows reached or cancelled,
\* and only a mission that was reported active is reported reached.
EventGrammar ==
  [][\A i \in DOMAIN emitted' :
       LET m == emitted'[i].mission
           Earlier == {j \in DOMAIN emitted' : j < i /\ emitted'[j].mission = m}
       IN  IF Earlier = {}
             THEN emitted'[i].status \in Legal[last[m]]
             ELSE \E j \in Earlier : /\ \A k \in Earlier : k <= j
                                     /\ emitted'[i].status \in Legal[emitted'[j].status]
    ]_vars

\* A paused or blocked controller takes up its work again only on the client's
\* explicit resume: the step that leaves Paused or Blocked for Active is not a
\* tick, a mode switch or the acceptance of new work, and it neither moves the
\* vehicle nor changes what is served.
RestartNeedsResume ==
  [][(autoState \in {"paused", "blocked"} /\ autoState' = "active")
       => (mode = "auto" /\ needsStart' /\ target' = "zero" /\ emitted' = <<>>
           /\ active' = active)
    ]_vars

----------------------------------------------------------------------------
(* The refinement of MissionLedger. *)

\* The ledger a client can rebuild from the event log.
Outcome == [m \in MissionIds |->
              IF last[m] \in {"reached", "cancelled"} THEN last[m] ELSE "open"]

Ledger == INSTANCE MissionLedger WITH
            queue <- pending, current <- active, outcome <- Outcome

\* The controller implements the ledger: every handler and every tick accepts,
\* begins, finishes or abandons missions as MissionLedger allows, or none.
ImplementsLedger == Ledger!Spec
=============================================================================
