------------------------ MODULE RobotControllerProofs ------------------------
(****************************************************************************)
(* Safety of RobotController for every set of missions, definitions, queue  *)
(* capacity and command timeout.                                            *)
(****************************************************************************)
EXTENDS RobotController, SequenceTheorems, TLAPS

\* Short tuples are sequences.
LEMMA Tuples ==
  ASSUME NEW S, NEW a \in S, NEW b \in S
  PROVE  /\ <<>> \in Seq(S) /\ <<a>> \in Seq(S) /\ <<a, b>> \in Seq(S)
         /\ <<>> \o <<b>> = <<b>>
         /\ <<a>> \o <<b>> = <<a, b>>
<1>1. <<>> \in Seq(S) /\ <<a>> \in Seq(S) /\ <<b>> \in Seq(S) /\ <<a, b>> \in Seq(S)
  OBVIOUS
<1>2. <<>> \o <<b>> = <<b>>
  BY <1>1, ConcatEmptySeq
<1>3. <<a>> \o <<b>> = <<a, b>>
  <2>1. Len(<<a>>) = 1 /\ Len(<<b>>) = 1 /\ <<a>>[1] = a /\ <<b>>[1] = b
    OBVIOUS
  <2>2. <<a>> \o <<b>> \in Seq(S) /\ Len(<<a>> \o <<b>>) = 2
        /\ (<<a>> \o <<b>>)[1] = a /\ (<<a>> \o <<b>>)[2] = b
    BY <1>1, <2>1, ConcatProperties
  <2>3. Len(<<a, b>>) = 2 /\ <<a, b>>[1] = a /\ <<a, b>>[2] = b
    OBVIOUS
  <2>4. \A i \in 1..2 : (<<a>> \o <<b>>)[i] = <<a, b>>[i]
    BY <2>2, <2>3
  <2>5. QED
    BY <1>1, <2>2, <2>3, <2>4, SeqEqual
<1>4. QED
  BY <1>1, <1>2, <1>3

\* Appending no event leaves every mission's newest status alone.
LEMMA EmitNothing ==
  ASSUME last \in [MissionIds -> Statuses \cup {"none"}], Emit(<<>>)
  PROVE  emitted' = <<>> /\ last' = last
BY DEF Emit, StatusAfter

\* Appending one event changes the newest status of its mission only.
LEMMA EmitOne ==
  ASSUME last \in [MissionIds -> Statuses \cup {"none"}],
         NEW m \in MissionIds, NEW s \in Statuses, Emit(<<Ev(m, s)>>)
  PROVE  emitted' = <<Ev(m, s)>> /\ last' = [last EXCEPT ![m] = s]
<1>1. \A x \in MissionIds : StatusAfter(<<Ev(m, s)>>, x) = IF x = m THEN s ELSE last[x]
  BY DEF StatusAfter, Ev
<1>2. QED
  BY <1>1 DEF Emit

\* Two events of one mission leave it in the status of the second.
LEMMA EmitTwo ==
  ASSUME last \in [MissionIds -> Statuses \cup {"none"}],
         NEW m \in MissionIds, NEW r \in Statuses, NEW s \in Statuses,
         Emit(<<Ev(m, r), Ev(m, s)>>)
  PROVE  emitted' = <<Ev(m, r), Ev(m, s)>> /\ last' = [last EXCEPT ![m] = s]
<1> DEFINE evs == <<Ev(m, r), Ev(m, s)>>
<1>1. DOMAIN evs = 1..2 /\ evs[1].mission = m /\ evs[2].mission = m /\ evs[2].status = s
  BY DEF Ev
<1> HIDE DEF evs
<1>2. \A x \in MissionIds : StatusAfter(evs, x) = IF x = m THEN s ELSE last[x]
  <2> TAKE x \in MissionIds
  <2>1. CASE x = m
    <3> DEFINE newest == CHOOSE i \in DOMAIN evs :
                           /\ evs[i].mission = x
                           /\ \A j \in DOMAIN evs : j > i => evs[j].mission # x
    <3>1. \A i \in DOMAIN evs : (\A j \in DOMAIN evs : j > i => evs[j].mission # x) => i = 2
      BY <1>1, <2>1
    <3>2. newest = 2
      BY <1>1, <2>1, <3>1
    <3>3. QED
      BY <1>1, <2>1, <3>2 DEF StatusAfter
  <2>2. CASE x # m
    BY <1>1, <2>2 DEF StatusAfter
  <2>3. QED
    BY <2>1, <2>2
<1>3. QED
  BY <1>2 DEF Emit, evs

\* One event for each of a list of different missions.
LEMMA EmitEach ==
  ASSUME last \in [MissionIds -> Statuses \cup {"none"}],
         NEW ms \in Seq(MissionIds), NEW s \in Statuses,
         \A i, j \in DOMAIN ms : ms[i] = ms[j] => i = j,
         Emit([i \in 1..Len(ms) |-> Ev(ms[i], s)])
  PROVE  /\ emitted' = [i \in 1..Len(ms) |-> Ev(ms[i], s)]
         /\ emitted' \in Seq(Event)
         /\ last' = [m \in MissionIds |->
                       IF \E i \in DOMAIN ms : ms[i] = m THEN s ELSE last[m]]
<1> DEFINE evs == [i \in 1..Len(ms) |-> Ev(ms[i], s)]
<1>1. DOMAIN evs = DOMAIN ms /\ \A i \in DOMAIN ms : evs[i].mission = ms[i] /\ evs[i].status = s
  BY DEF Ev
<1>2. evs \in Seq(Event)
  <2>1. \A i \in 1..Len(ms) : Ev(ms[i], s) \in Event
    BY DEF Ev, Event
  <2>2. QED
    BY <2>1
<1>3. DOMAIN ms = 1..Len(ms) /\ Len(ms) \in Nat
  OBVIOUS
<1> HIDE DEF evs
<1>4. \A m \in MissionIds : StatusAfter(evs, m) =
                              IF \E i \in DOMAIN ms : ms[i] = m THEN s ELSE last[m]
  <2> TAKE m \in MissionIds
  <2>1. CASE \E i \in DOMAIN ms : ms[i] = m
    <3>1. PICK k \in DOMAIN ms : ms[k] = m
      BY <2>1
    <3> DEFINE Newest(i) == /\ evs[i].mission = m
                            /\ \A j \in DOMAIN evs : j > i => evs[j].mission # m
    <3>2. Newest(k)
      BY <1>1, <1>3, <3>1
    <3>3. (CHOOSE i \in DOMAIN evs : Newest(i)) \in DOMAIN evs
      BY <1>1, <3>1, <3>2
    <3>4. QED
      BY <1>1, <2>1, <3>3 DEF StatusAfter
  <2>2. CASE ~ \E i \in DOMAIN ms : ms[i] = m
    BY <1>1, <2>2 DEF StatusAfter
  <2>3. QED
    BY <2>1, <2>2
<1>5. QED
  BY <1>2, <1>4 DEF Emit, evs

----------------------------------------------------------------------------
(* The inductive invariant. *)

\* Lease arithmetic: a running lease measures the time since the command that
\* granted it, and the watchdog of a manual target was armed under that lease.
ManualLease ==
  /\ setpoint # "none" => mode = "manual"
  /\ lease > 0 => sinceCommand + lease <= CommandTimeout
  /\ target = "manual" => sinceCommand + watchdog < 2 * CommandTimeout

Control ==
  /\ SnapshotMatchesLog /\ NoSilentStall /\ VacateExclusive
  /\ MotionAuthority /\ ManualLease

IInv == TypeOK /\ LedgerConsistent /\ Control

\* A new controller satisfies the invariant.
LEMMA InitInv == Init => IInv
<1> SUFFICES ASSUME Init PROVE IInv
  OBVIOUS
<1>1. MissionType /\ LogType
  <2>1. <<>> \in Seq(MissionIds) /\ <<>> \in Seq(Event) /\ Len(<<>>) = 0
    OBVIOUS
  <2>2. QED
    BY <2>1, BoundAssumption DEF Init, MissionType, LogType
<1>2. ModeType
  BY DEF Init, ModeType
<1>3. MotionType
  BY BoundAssumption DEF Init, MotionType
<1>4. LedgerConsistent
  BY MissionAssumption DEF Init, LedgerConsistent
<1>5. Control
  BY MissionAssumption, BoundAssumption
     DEF Init, Control, SnapshotMatchesLog, NoSilentStall, VacateExclusive,
         MotionAuthority, ManualLease, HasWork
<1>6. QED
  BY <1>1, <1>2, <1>3, <1>4, <1>5 DEF IInv, TypeOK

\* What a tick works on after its start phase.
LEMMA ServedType ==
  ASSUME TypeOK, IF needsStart THEN HasWork ELSE active # NoMission
  PROVE  /\ Served \in MissionIds
         /\ Waiting \in Seq(MissionIds) /\ Len(Waiting) <= MissionCapacity
         /\ Index \in Nat \ {0}
         /\ active = NoMission => pending # <<>> /\ Served = Head(pending)
                                  /\ Waiting = Tail(pending)
         /\ active # NoMission => Served = active /\ Waiting = pending
<1>1. pending # <<>> => /\ Head(pending) \in MissionIds /\ Tail(pending) \in Seq(MissionIds)
                        /\ Len(Tail(pending)) = Len(pending) - 1 /\ Len(pending) \in Nat
  BY HeadTailProperties DEF TypeOK, MissionType, LogType
<1>2. active = NoMission => pending # <<>>
  BY DEF HasWork
<1>3. active # NoMission => active \in MissionIds
  BY DEF TypeOK, MissionType, LogType
<1>4. QED
  BY <1>1, <1>2, <1>3, BoundAssumption DEF TypeOK, MissionType, LogType, Served, Waiting, Index

\* The log after the start phase alone, and after a phase that adds an event.
LEMMA EmitStart ==
  ASSUME TypeOK, Served \in MissionIds, Emit(StartEvent)
  PROVE  /\ emitted' \in Seq(Event)
         /\ last' = IF needsStart THEN [last EXCEPT ![Served] = "active"] ELSE last
<1>1. CASE needsStart
  <2>1. Emit(<<Ev(Served, "active")>>)
    BY <1>1 DEF StartEvent
  <2>2. Ev(Served, "active") \in Event
    BY DEF Ev, Event, Statuses
  <2>3. emitted' = <<Ev(Served, "active")>> /\ last' = [last EXCEPT ![Served] = "active"]
    BY <2>1, EmitOne DEF TypeOK, MissionType, LogType, Statuses
  <2>4. QED
    BY <1>1, <2>2, <2>3, Tuples
<1>2. CASE ~needsStart
  <2>1. Emit(<<>>)
    BY <1>2 DEF StartEvent
  <2>2. emitted' = <<>> /\ last' = last
    BY <2>1, EmitNothing DEF TypeOK, MissionType, LogType
  <2>3. QED
    BY <1>2, <2>2
<1>3. QED
  BY <1>1, <1>2

\* A tick whose start phase is followed by one more event of the same mission.
LEMMA EmitAfterStart ==
  ASSUME TypeOK, Served \in MissionIds, NEW s \in Statuses,
         Emit(StartEvent \o <<Ev(Served, s)>>)
  PROVE  emitted' \in Seq(Event) /\ last' = [last EXCEPT ![Served] = s]
<1>1. Ev(Served, "active") \in Event /\ Ev(Served, s) \in Event
  BY DEF Ev, Event, Statuses
<1>2. CASE needsStart
  <2>1. StartEvent \o <<Ev(Served, s)>> = <<Ev(Served, "active"), Ev(Served, s)>>
    BY <1>1, <1>2, Tuples DEF StartEvent
  <2>2. /\ emitted' = <<Ev(Served, "active"), Ev(Served, s)>>
        /\ last' = [last EXCEPT ![Served] = s]
    <3>1. "active" \in Statuses /\ last \in [MissionIds -> Statuses \cup {"none"}]
      BY DEF TypeOK, MissionType, LogType, Statuses
    <3>2. Emit(<<Ev(Served, "active"), Ev(Served, s)>>)
      BY <2>1, Zenon
    <3>3. QED
      BY <3>1, <3>2, EmitTwo
  <2>3. QED
    BY <1>1, <2>2, Tuples
<1>3. CASE ~needsStart
  <2>1. StartEvent \o <<Ev(Served, s)>> = <<Ev(Served, s)>>
    BY <1>1, <1>3, Tuples DEF StartEvent
  <2>2. emitted' = <<Ev(Served, s)>> /\ last' = [last EXCEPT ![Served] = s]
    BY <2>1, EmitOne DEF TypeOK, MissionType, LogType
  <2>3. QED
    BY <1>1, <2>2, Tuples
<1>4. QED
  BY <1>2, <1>3

\* One event of one mission, as the handlers emit it.
LEMMA EmitSingle ==
  ASSUME TypeOK, NEW m \in MissionIds, NEW s \in Statuses, Emit(<<Ev(m, s)>>)
  PROVE  emitted' \in Seq(Event) /\ last' = [last EXCEPT ![m] = s]
<1>1. Ev(m, s) \in Event
  BY DEF Ev, Event
<1>2. emitted' = <<Ev(m, s)>> /\ last' = [last EXCEPT ![m] = s]
  BY EmitOne DEF TypeOK, MissionType, LogType
<1>3. QED
  BY <1>1, <1>2, Tuples

\* A step that neither logs anything nor moves a mission keeps the ledger.
LEMMA QuietLedger ==
  ASSUME TypeOK, LedgerConsistent, Emit(<<>>), UNCHANGED missionVars
  PROVE  /\ LedgerConsistent' /\ last' = last
         /\ emitted' \in Seq(Event)
<1>1. last' = last /\ emitted' = <<>>
  BY EmitNothing DEF TypeOK, MissionType, LogType
<1>2. QED
  BY <1>1 DEF LedgerConsistent, missionVars

----------------------------------------------------------------------------
(* Command handlers preserve the invariant. *)

\* PauseActive keeps the ledger and leaves the active mission reported paused.
LEMMA PauseStep ==
  ASSUME IInv, PauseActive, UNCHANGED missionVars
  PROVE  /\ LedgerConsistent'
         /\ emitted' \in Seq(Event) /\ last' \in [MissionIds -> Statuses \cup {"none"}]
         /\ active # NoMission => last'[active] = "paused"
<1>1. CASE autoState = "paused" \/ active = NoMission
  <2>1. Emit(<<>>)
    BY <1>1 DEF PauseActive
  <2>2. QED
    BY <1>1, <2>1, QuietLedger DEF IInv, TypeOK, MissionType, LogType, Control, SnapshotMatchesLog
<1>2. CASE ~(autoState = "paused" \/ active = NoMission)
  <2>1. active \in MissionIds /\ Emit(<<Ev(active, "paused")>>)
    BY <1>2 DEF PauseActive, IInv, TypeOK, MissionType, LogType
  <2>2. emitted' \in Seq(Event) /\ last' = [last EXCEPT ![active] = "paused"]
    BY <2>1, EmitSingle DEF IInv, Statuses
  <2>3. QED
    BY <2>1, <2>2 DEF IInv, TypeOK, MissionType, LogType, LedgerConsistent, missionVars, Statuses
<1>3. QED
  BY <1>1, <1>2

\* Freezing an idle vacate, pausing the work, or doing neither, with the vehicle
\* halted, preserves the invariant.
LEMMA FreezeOrPauseStep ==
  ASSUME IInv, FreezeOrPause(/\ autoState' = autoState \/ autoState' = "idle"
                             /\ needsStart' = needsStart \/ needsStart' = FALSE),
         mode = "auto", mode' = mode, Stop, setpoint' = setpoint \/ setpoint' = "none",
         lease' = lease \/ lease' = 0, UNCHANGED <<sinceCommand, missionVars>>
  PROVE  IInv'
<1>1. MissionType' /\ MotionType' /\ ManualLease'
  BY BoundAssumption DEF IInv, TypeOK, MissionType, MotionType, Control, ManualLease, Stop, missionVars
<1>2. CASE FreezeIdleVacate
  <2>1. Emit(<<>>)
    BY <1>2 DEF FreezeIdleVacate
  <2>2. LedgerConsistent' /\ last' = last /\ emitted' \in Seq(Event)
    BY <2>1, QuietLedger DEF IInv
  <2>3. LogType' /\ ModeType'
    BY <1>2, <2>2 DEF IInv, TypeOK, LogType, ModeType, FreezeIdleVacate
  <2>4. SnapshotMatchesLog' /\ NoSilentStall' /\ VacateExclusive' /\ MotionAuthority'
    BY <1>2, <2>2 DEF IInv, Control, SnapshotMatchesLog, NoSilentStall, VacateExclusive,
           MotionAuthority, FreezeIdleVacate, Stop, missionVars
  <2>5. QED
    BY <1>1, <2>2, <2>3, <2>4 DEF IInv, TypeOK, Control
<1>3. CASE vacate = "none" /\ HasWork /\ PauseActive
  <2>1. LedgerConsistent' /\ LogType' /\ (active # NoMission => last'[active] = "paused")
    BY <1>3, PauseStep DEF LogType
  <2>2. ModeType'
    BY <1>3 DEF IInv, TypeOK, ModeType, PauseActive
  <2>3. SnapshotMatchesLog' /\ NoSilentStall' /\ VacateExclusive' /\ MotionAuthority'
    BY <1>3, <2>1 DEF SnapshotMatchesLog, NoSilentStall, VacateExclusive, PauseActive,
           MotionAuthority, Stop, missionVars
  <2>4. QED
    BY <1>1, <2>1, <2>2, <2>3 DEF IInv, TypeOK, Control
<1>4. CASE /\ vacate = "none" /\ ~HasWork /\ Emit(<<>>) /\ UNCHANGED <<nav, vacate>>
           /\ autoState' = autoState \/ autoState' = "idle"
           /\ needsStart' = needsStart \/ needsStart' = FALSE
  <2>1. LedgerConsistent' /\ last' = last /\ emitted' \in Seq(Event)
    BY <1>4, QuietLedger DEF IInv
  <2>2. LogType' /\ ModeType'
    BY <1>4, <2>1 DEF IInv, TypeOK, LogType, ModeType
  <2>3. SnapshotMatchesLog' /\ NoSilentStall' /\ VacateExclusive' /\ MotionAuthority'
    BY <1>4, <2>1 DEF IInv, Control, SnapshotMatchesLog, NoSilentStall, VacateExclusive,
           MotionAuthority, Stop, HasWork, missionVars
  <2>4. QED
    BY <1>1, <2>1, <2>2, <2>3 DEF IInv, TypeOK, Control
<1>5. QED
  BY <1>2, <1>3, <1>4 DEF FreezeOrPause

\* A step that logs nothing and moves no mission keeps the bookkeeping.
LEMMA QuietStep ==
  ASSUME IInv, Emit(<<>>), UNCHANGED missionVars
  PROVE  MissionType' /\ LogType' /\ LedgerConsistent' /\ last' = last
<1>1. LedgerConsistent' /\ last' = last /\ emitted' \in Seq(Event)
  BY QuietLedger DEF IInv
<1>2. QED
  BY <1>1 DEF IInv, TypeOK, MissionType, LogType, missionVars

\* Halting the vehicle and changing nothing else preserves the invariant.
LEMMA StillStep ==
  ASSUME IInv, Emit(<<>>), UNCHANGED <<missionVars, autoVars, mode>>, Stop, ClearManual
  PROVE  IInv'
<1>1. MissionType' /\ LogType' /\ LedgerConsistent' /\ last' = last /\ UNCHANGED missionVars
  BY QuietStep
<1>2. ModeType' /\ MotionType'
  BY BoundAssumption DEF IInv, TypeOK, ModeType, MotionType, autoVars, Stop, ClearManual
<1>3. SnapshotMatchesLog' /\ NoSilentStall' /\ VacateExclusive'
  BY <1>1 DEF IInv, Control, SnapshotMatchesLog, NoSilentStall, VacateExclusive, HasWork,
     missionVars, autoVars
<1>4. MotionAuthority' /\ ManualLease'
  BY DEF MotionAuthority, ManualLease, Stop, ClearManual
<1>5. QED
  BY <1>1, <1>2, <1>3, <1>4 DEF IInv, TypeOK, Control

\* stop_motion preserves the invariant in either mode.
LEMMA StopMotionStep == ASSUME IInv, StopMotion PROVE IInv'
<1>1. CASE mode = "auto"
  <2>1. FreezeOrPause(/\ autoState' = autoState \/ autoState' = "idle"
                      /\ needsStart' = needsStart \/ needsStart' = FALSE)
    BY <1>1 DEF StopMotion, FreezeOrPause
  <2>2. QED
    BY <1>1, <2>1, FreezeOrPauseStep DEF StopMotion, ClearManual
<1>2. CASE mode # "auto"
  <2>1. Emit(<<>>) /\ UNCHANGED <<missionVars, autoVars, mode>> /\ Stop /\ ClearManual
    BY <1>2 DEF StopMotion
  <2>2. QED
    BY <2>1, StillStep
<1>3. QED
  BY <1>1, <1>2

\* Losing the client, or failing safe, preserves the invariant.
LEMMA DisconnectStep == ASSUME IInv, Disconnect PROVE IInv'
<1>1. CASE mode = "auto"
  <2>1. FreezeOrPause(/\ autoState' = autoState \/ autoState' = "idle"
                      /\ needsStart' = needsStart \/ needsStart' = FALSE)
    BY <1>1 DEF Disconnect, FreezeOrPause
  <2>2. QED
    BY <1>1, <2>1, FreezeOrPauseStep DEF Disconnect, ClearManual
<1>2. CASE mode # "auto"
  <2>1. Emit(<<>>) /\ UNCHANGED <<missionVars, autoVars, mode>> /\ Stop /\ ClearManual
    BY <1>2 DEF Disconnect
  <2>2. QED
    BY <2>1, StillStep
<1>3. QED
  BY <1>1, <1>2

\* pause preserves the invariant.
LEMMA PauseCommandStep == ASSUME IInv, Pause PROVE IInv'
<1>1. FreezeOrPause(/\ autoState' = autoState \/ autoState' = "idle"
                    /\ needsStart' = needsStart \/ needsStart' = FALSE)
  BY DEF Pause, FreezeOrPause
<1>2. QED
  BY <1>1, FreezeOrPauseStep DEF Pause, manualVars

\* manual.stop preserves the invariant.
LEMMA ManualStopStep == ASSUME IInv, ManualStop PROVE IInv'
BY StillStep DEF ManualStop

\* switch_to_auto preserves the invariant: work retained in Manual is still paused.
LEMMA SwitchToAutoStep == ASSUME IInv, SwitchToAuto PROVE IInv'
<1>1. /\ MissionType' /\ LogType' /\ LedgerConsistent'
      /\ last' = last /\ UNCHANGED missionVars
  BY QuietStep DEF SwitchToAuto
<1>2. ModeType'
  BY DEF IInv, TypeOK, ModeType, SwitchToAuto
<1>3. MotionType' /\ ManualLease'
  BY BoundAssumption DEF IInv, TypeOK, MotionType, Control, ManualLease, MotionAuthority,
     Stop, ClearManual, Drive, manualVars, SwitchToAuto
<1>4. SnapshotMatchesLog' /\ NoSilentStall' /\ VacateExclusive'
  <2>1. vacate = "none" /\ (HasWork => autoState = "paused")
    BY DEF IInv, TypeOK, ModeType, Control, SnapshotMatchesLog, NoSilentStall,
       VacateExclusive, HasWork, SwitchToAuto
  <2>2. CASE HasWork
    BY <1>1, <2>1, <2>2 DEF IInv, Control, SnapshotMatchesLog, NoSilentStall, VacateExclusive,
       missionVars, SwitchToAuto
  <2>3. CASE ~HasWork
    BY <1>1, <2>1, <2>3 DEF SnapshotMatchesLog, NoSilentStall, VacateExclusive, HasWork,
       missionVars, SwitchToAuto
  <2>4. QED
    BY <2>2, <2>3
<1>5. MotionAuthority'
  BY <1>1, BoundAssumption DEF IInv, TypeOK, MotionType, Control, MotionAuthority, VacateExclusive,
     NoSilentStall, ManualLease, HasWork, missionVars, Stop, Drive, ClearManual, manualVars, SwitchToAuto
<1>6. QED
  BY <1>1, <1>2, <1>3, <1>4, <1>5 DEF IInv, TypeOK, Control

\* manual.drive preserves the invariant, whatever the safety gate says.
LEMMA ManualDriveStep == ASSUME IInv, ManualDrive PROVE IInv'
<1>1. /\ MissionType' /\ LogType' /\ LedgerConsistent'
      /\ last' = last /\ UNCHANGED missionVars
  BY QuietStep DEF ManualDrive
<1>2. ModeType'
  BY DEF IInv, TypeOK, ModeType, ManualDrive, autoVars
<1>3. MotionType' /\ ManualLease'
  BY BoundAssumption DEF IInv, TypeOK, MotionType, Control, ManualLease, MotionAuthority,
     Stop, ClearManual, Drive, manualVars, ManualDrive, autoVars
<1>4. SnapshotMatchesLog' /\ NoSilentStall' /\ VacateExclusive'
  BY <1>1 DEF IInv, Control, SnapshotMatchesLog, NoSilentStall, VacateExclusive, HasWork,
     missionVars, ManualDrive, autoVars
<1>5. MotionAuthority'
  BY <1>1, BoundAssumption DEF IInv, TypeOK, MotionType, Control, MotionAuthority, VacateExclusive,
     NoSilentStall, ManualLease, HasWork, missionVars, Stop, Drive, ClearManual, manualVars, ManualDrive, autoVars
<1>6. QED
  BY <1>1, <1>2, <1>3, <1>4, <1>5 DEF IInv, TypeOK, Control

\* resume preserves the invariant.
LEMMA ResumeStep == ASSUME IInv, Resume PROVE IInv'
<1>1. /\ MissionType' /\ LogType' /\ LedgerConsistent'
      /\ last' = last /\ UNCHANGED missionVars
  BY QuietStep DEF Resume
<1>2. ModeType'
  <2>1. needsStart' \in BOOLEAN
    BY Zenon DEF Resume, HasWork
  <2>2. autoState' \in {"idle", "active"} /\ UNCHANGED <<mode, nav, vacate>>
    BY DEF Resume
  <2>3. QED
    BY <2>1, <2>2 DEF IInv, TypeOK, ModeType
<1>3. MotionType' /\ ManualLease'
  BY BoundAssumption DEF IInv, TypeOK, MotionType, Control, ManualLease, MotionAuthority,
     Stop, ClearManual, Drive, manualVars, Resume, manualVars
<1>4. SnapshotMatchesLog' /\ NoSilentStall' /\ VacateExclusive'
  BY <1>1 DEF IInv, Control, SnapshotMatchesLog, NoSilentStall, VacateExclusive, HasWork,
     missionVars, Resume, manualVars
<1>5. MotionAuthority'
  BY <1>1, BoundAssumption DEF IInv, TypeOK, MotionType, Control, MotionAuthority, VacateExclusive,
     NoSilentStall, ManualLease, HasWork, missionVars, Stop, Drive, ClearManual, manualVars, Resume, manualVars
<1>6. QED
  BY <1>1, <1>2, <1>3, <1>4, <1>5 DEF IInv, TypeOK, Control

\* A tick in Manual mode preserves the invariant.
LEMMA TickManualStep == ASSUME IInv, TickManual PROVE IInv'
<1>1. /\ MissionType' /\ LogType' /\ LedgerConsistent'
      /\ last' = last /\ UNCHANGED missionVars
  BY QuietStep DEF TickManual
<1>2. ModeType'
  BY DEF IInv, TypeOK, ModeType, TickManual, manualVars
<1>3. MotionType' /\ ManualLease'
  BY BoundAssumption DEF IInv, TypeOK, MotionType, Control, ManualLease, MotionAuthority,
     Stop, ClearManual, Drive, manualVars, TickManual, manualVars
<1>4. SnapshotMatchesLog' /\ NoSilentStall' /\ VacateExclusive'
  BY <1>1 DEF IInv, Control, SnapshotMatchesLog, NoSilentStall, VacateExclusive, HasWork,
     missionVars, TickManual, manualVars
<1>5. MotionAuthority'
  BY <1>1, BoundAssumption DEF IInv, TypeOK, MotionType, Control, MotionAuthority, VacateExclusive,
     NoSilentStall, ManualLease, HasWork, missionVars, Stop, Drive, ClearManual, manualVars, TickManual, manualVars
<1>6. QED
  BY <1>1, <1>2, <1>3, <1>4, <1>5 DEF IInv, TypeOK, Control

\* A tick of an idle, paused or blocked controller preserves the invariant.
LEMMA TickHeldStep == ASSUME IInv, TickHeld PROVE IInv'
<1>1. /\ MissionType' /\ LogType' /\ LedgerConsistent'
      /\ last' = last /\ UNCHANGED missionVars
  BY QuietStep DEF TickHeld
<1>2. ModeType'
  BY DEF IInv, TypeOK, ModeType, TickHeld, autoVars
<1>3. MotionType' /\ ManualLease'
  BY BoundAssumption DEF IInv, TypeOK, MotionType, Control, ManualLease, MotionAuthority,
     Stop, ClearManual, Drive, manualVars, TickHeld, autoVars
<1>4. SnapshotMatchesLog' /\ NoSilentStall' /\ VacateExclusive'
  BY <1>1 DEF IInv, Control, SnapshotMatchesLog, NoSilentStall, VacateExclusive, HasWork,
     missionVars, TickHeld, autoVars
<1>5. MotionAuthority'
  BY <1>1, BoundAssumption DEF IInv, TypeOK, MotionType, Control, MotionAuthority, VacateExclusive,
     NoSilentStall, ManualLease, HasWork, missionVars, Stop, Drive, ClearManual, manualVars, TickHeld, autoVars
<1>6. QED
  BY <1>1, <1>2, <1>3, <1>4, <1>5 DEF IInv, TypeOK, Control

\* A tick of the idle-vacate responder preserves the invariant.
LEMMA TickVacateStep == ASSUME IInv, TickVacate PROVE IInv'
<1>1. /\ MissionType' /\ LogType' /\ LedgerConsistent'
      /\ last' = last /\ UNCHANGED missionVars
  BY QuietStep DEF TickVacate
<1>2. ModeType'
  BY DEF IInv, TypeOK, ModeType, TickVacate, ResponderRuns
<1>3. MotionType' /\ ManualLease'
  BY BoundAssumption DEF IInv, TypeOK, MotionType, Control, ManualLease, MotionAuthority,
     Stop, ClearManual, Drive, manualVars, TickVacate, ResponderRuns
<1>4. SnapshotMatchesLog' /\ NoSilentStall' /\ VacateExclusive'
  BY <1>1 DEF IInv, Control, SnapshotMatchesLog, NoSilentStall, VacateExclusive, HasWork,
     missionVars, TickVacate, ResponderRuns
<1>5. MotionAuthority'
  BY <1>1, BoundAssumption DEF IInv, TypeOK, MotionType, Control, MotionAuthority, VacateExclusive,
     NoSilentStall, ManualLease, HasWork, missionVars, Stop, Drive, ClearManual, manualVars, TickVacate, ResponderRuns
<1>6. QED
  BY <1>1, <1>2, <1>3, <1>4, <1>5 DEF IInv, TypeOK, Control

\* Physics and the watchdog preserve the invariant.
LEMMA AdvanceStep == ASSUME IInv, NEW d \in Nat \ {0}, Advance(d) PROVE IInv'
<1>1. /\ MissionType' /\ LogType' /\ LedgerConsistent'
      /\ last' = last /\ UNCHANGED missionVars
  BY QuietStep DEF Advance
<1>2. ModeType'
  BY DEF IInv, TypeOK, ModeType, Advance, autoVars, Less
<1>3. MotionType' /\ ManualLease'
  BY BoundAssumption DEF IInv, TypeOK, MotionType, Control, ManualLease, MotionAuthority,
     Stop, ClearManual, Drive, manualVars, Advance, autoVars, Less
<1>4. SnapshotMatchesLog' /\ NoSilentStall' /\ VacateExclusive'
  BY <1>1 DEF IInv, Control, SnapshotMatchesLog, NoSilentStall, VacateExclusive, HasWork,
     missionVars, Advance, autoVars, Less
<1>5. MotionAuthority'
  BY <1>1, BoundAssumption DEF IInv, TypeOK, MotionType, Control, MotionAuthority, VacateExclusive,
     NoSilentStall, ManualLease, HasWork, missionVars, Stop, Drive, ClearManual, manualVars, Advance, autoVars, Less
<1>6. QED
  BY <1>1, <1>2, <1>3, <1>4, <1>5 DEF IInv, TypeOK, Control

\* switch_to_manual preserves the invariant: the work of Auto mode is paused.
LEMMA SwitchToManualStep == ASSUME IInv, SwitchToManual PROVE IInv'
<1>1. MissionType' /\ MotionType' /\ ManualLease' /\ MotionAuthority'
  BY BoundAssumption DEF IInv, TypeOK, MissionType, MotionType, MotionAuthority, ManualLease,
     Stop, ClearManual, SwitchToManual, missionVars
<1>2. CASE HasWork
  <2>1. LedgerConsistent' /\ LogType' /\ (active # NoMission => last'[active] = "paused")
    BY <1>2, PauseStep DEF SwitchToManual, LogType
  <2>2. ModeType'
    BY <1>2 DEF IInv, TypeOK, ModeType, PauseActive, SwitchToManual
  <2>3. SnapshotMatchesLog' /\ NoSilentStall' /\ VacateExclusive'
    BY <1>2, <2>1 DEF SnapshotMatchesLog, NoSilentStall, VacateExclusive, PauseActive,
       SwitchToManual, missionVars
  <2>4. QED
    BY <1>1, <2>1, <2>2, <2>3 DEF IInv, TypeOK, Control
<1>3. CASE ~HasWork
  <2>1. Emit(<<>>) /\ UNCHANGED missionVars
    BY <1>3 DEF SwitchToManual
  <2>2. LogType' /\ LedgerConsistent'
    BY <2>1, QuietStep
  <2>3. ModeType'
    BY <1>3 DEF IInv, TypeOK, ModeType, SwitchToManual
  <2>4. SnapshotMatchesLog' /\ NoSilentStall' /\ VacateExclusive'
    BY <1>3, <2>1 DEF SnapshotMatchesLog, NoSilentStall, VacateExclusive, HasWork,
       SwitchToManual, missionVars
  <2>5. QED
    BY <1>1, <2>2, <2>3, <2>4 DEF IInv, TypeOK, Control
<1>4. QED
  BY <1>2, <1>3

NoRepeats(s) == \A i, j \in DOMAIN s : s[i] = s[j] => i = j
Listed(s, m) == \E i \in DOMAIN s : s[i] = m
Disjoint(s, r) == \A i \in DOMAIN s, j \in DOMAIN r : s[i] # r[j]

\* Appending the new missions of a batch to the queue: which missions are queued
\* afterwards, and that none is queued twice.
LEMMA AppendFresh ==
  ASSUME NEW S, NEW p \in Seq(S), NEW f \in Seq(S), NEW q, q = p \o f,
         NoRepeats(p), NoRepeats(f), Disjoint(p, f)
  PROVE  /\ q \in Seq(S) /\ Len(q) = Len(p) + Len(f)
         /\ NoRepeats(q)
         /\ \A m \in S : Listed(q, m) <=> Listed(p, m) \/ Listed(f, m)
<1> USE DEF NoRepeats, Listed, Disjoint
<1>1. /\ q \in Seq(S) /\ Len(q) = Len(p) + Len(f)
      /\ \A i \in 1..(Len(p) + Len(f)) :
           q[i] = IF i <= Len(p) THEN p[i] ELSE f[i - Len(p)]
  BY ConcatProperties
<1>2. /\ DOMAIN p = 1..Len(p) /\ DOMAIN f = 1..Len(f)
      /\ DOMAIN q = 1..(Len(p) + Len(f)) /\ Len(p) \in Nat /\ Len(f) \in Nat
  BY <1>1
<1>3. \A i, j \in DOMAIN q : q[i] = q[j] => i = j
  <2> TAKE i, j \in DOMAIN q
  <2> HAVE q[i] = q[j]
  <2>1. \A k \in DOMAIN q : \/ k \in DOMAIN p /\ q[k] = p[k]
                            \/ k > Len(p) /\ k - Len(p) \in DOMAIN f /\ q[k] = f[k - Len(p)]
    BY <1>1, <1>2
  <2>2. CASE i \in DOMAIN p /\ q[i] = p[i]
    BY <2>1, <2>2, <1>2
  <2>3. CASE i > Len(p) /\ i - Len(p) \in DOMAIN f /\ q[i] = f[i - Len(p)]
    <3>1. j - Len(p) \in DOMAIN f /\ q[j] = f[j - Len(p)]
      BY <2>1, <2>3, <1>2
    <3>2. i - Len(p) = j - Len(p)
      BY <2>3, <3>1
    <3>3. QED
      BY <3>2, <1>2
  <2>4. QED
    BY <2>1, <2>2, <2>3
<1>4. ASSUME NEW m \in S PROVE Listed(q, m) <=> Listed(p, m) \/ Listed(f, m)
  <2>1. ASSUME NEW i \in DOMAIN f PROVE i + Len(p) \in DOMAIN q /\ q[i + Len(p)] = f[i]
    <3>1. i \in 1..Len(f) /\ i + Len(p) \in 1..(Len(p) + Len(f)) /\ ~(i + Len(p) <= Len(p))
          /\ (i + Len(p)) - Len(p) = i
      BY <1>2
    <3>2. QED
      BY <1>1, <1>2, <3>1
  <2>2. ASSUME NEW i \in DOMAIN p PROVE i \in DOMAIN q /\ q[i] = p[i]
    BY <1>1, <1>2
  <2>3. ASSUME NEW i \in DOMAIN q
        PROVE \/ i \in DOMAIN p /\ q[i] = p[i]
              \/ i - Len(p) \in DOMAIN f /\ q[i] = f[i - Len(p)]
    BY <1>1, <1>2
  <2>4. ASSUME NEW i \in DOMAIN q, q[i] = m
        PROVE (\E k \in DOMAIN p : p[k] = m) \/ (\E k \in DOMAIN f : f[k] = m)
    BY <2>3, <2>4, Zenon
  <2>5. ASSUME NEW i \in DOMAIN p, p[i] = m PROVE \E k \in DOMAIN q : q[k] = m
    BY <2>2, <2>5, Zenon
  <2>6. ASSUME NEW i \in DOMAIN f, f[i] = m PROVE \E k \in DOMAIN q : q[k] = m
    BY <2>1, <2>6, Zenon
  <2>7. QED
    BY <2>4, <2>5, <2>6, Zenon
<1>5. QED
  BY <1>1, <1>3, <1>4

\* What push logs, and which missions it appends to the queue.
LEMMA PushLog ==
  ASSUME IInv, NEW definition \in Batches, NEW fresh \in Orders(DOMAIN definition),
         Push(definition, fresh)
  PROVE  /\ fresh \in Seq(MissionIds) /\ NoRepeats(fresh)
         /\ \A i \in DOMAIN fresh : fresh[i] \in MissionIds /\ last[fresh[i]] = "none"
         /\ emitted' = [i \in 1..Len(fresh) |-> Ev(fresh[i], "queued")]
         /\ last' = [m \in MissionIds |-> IF Listed(fresh, m) THEN "queued" ELSE last[m]]
<1>1. DOMAIN definition \subseteq MissionIds
  BY DEF Batches
<1>2. fresh \in Seq(MissionIds) /\ DOMAIN fresh = 1..Len(fresh) /\ Len(fresh) \in Nat
  BY <1>1, BoundAssumption DEF Orders
<1>3. \A i \in DOMAIN fresh : fresh[i] \in DOMAIN definition /\ known[fresh[i]] = NoDefinition
  <2>1. {fresh[i] : i \in DOMAIN fresh} = {m \in DOMAIN definition : known[m] = NoDefinition}
    BY DEF Push
  <2>2. QED
    BY <2>1
<1>4. /\ Emit([i \in 1..Len(fresh) |-> Ev(fresh[i], "queued")])
      /\ \A i, j \in DOMAIN fresh : fresh[i] = fresh[j] => i = j
  BY DEF Push
<1>5. \A i \in DOMAIN fresh : fresh[i] \in MissionIds /\ last[fresh[i]] = "none"
  BY <1>1, <1>3 DEF IInv, LedgerConsistent
<1>6. /\ emitted' = [i \in 1..Len(fresh) |-> Ev(fresh[i], "queued")]
      /\ last' = [m \in MissionIds |->
                    IF \E i \in DOMAIN fresh : fresh[i] = m THEN "queued" ELSE last[m]]
  <2>1. last \in [MissionIds -> Statuses \cup {"none"}] /\ "queued" \in Statuses
    BY DEF IInv, TypeOK, LogType, Statuses
  <2>2. QED
    BY <2>1, <1>2, <1>4, EmitEach
<1>7. NoRepeats(fresh)
  BY <1>4 DEF NoRepeats
<1>8. QED
  BY <1>2, <1>5, <1>6, <1>7 DEF Listed

\* push preserves the invariant, retries and mixed batches included.
LEMMA PushStep ==
  ASSUME IInv, NEW definition \in Batches, NEW fresh \in Orders(DOMAIN definition),
         Push(definition, fresh)
  PROVE  IInv'
<1>1. /\ DOMAIN definition \subseteq MissionIds
      /\ \A m \in DOMAIN definition : definition[m] \in Definitions
  BY DEF Batches
<1>2. fresh \in Seq(MissionIds) /\ DOMAIN fresh = 1..Len(fresh) /\ Len(fresh) \in Nat
  BY <1>1, BoundAssumption DEF Orders
<1>3. /\ \A i \in DOMAIN fresh : fresh[i] \in DOMAIN definition /\ known[fresh[i]] = NoDefinition
      /\ \A m \in DOMAIN definition : known[m] = NoDefinition => \E i \in DOMAIN fresh : fresh[i] = m
  <2>1. {fresh[i] : i \in DOMAIN fresh} = {m \in DOMAIN definition : known[m] = NoDefinition}
    BY DEF Push
  <2>2. QED
    BY <2>1
<1>4. Emit([i \in 1..Len(fresh) |-> Ev(fresh[i], "queued")])
      /\ \A i, j \in DOMAIN fresh : fresh[i] = fresh[j] => i = j
  BY DEF Push
<1>5. /\ emitted' \in Seq(Event)
      /\ last' = [m \in MissionIds |->
                    IF \E i \in DOMAIN fresh : fresh[i] = m THEN "queued" ELSE last[m]]
  <2>1. last \in [MissionIds -> Statuses \cup {"none"}] /\ "queued" \in Statuses
    BY DEF IInv, TypeOK, LogType, Statuses
  <2>2. QED
    BY <2>1, <1>2, <1>4, EmitEach
<1>6. \A i \in DOMAIN fresh : last[fresh[i]] = "none" /\ fresh[i] \in MissionIds
  BY <1>1, <1>3 DEF IInv, LedgerConsistent
<1>7. /\ pending' \in Seq(MissionIds) /\ Len(pending') = Len(pending) + Len(fresh)
      /\ \A i, j \in DOMAIN pending' : pending'[i] = pending'[j] => i = j
      /\ \A m \in MissionIds : (\E i \in DOMAIN pending' : pending'[i] = m)
                              <=> \/ \E i \in DOMAIN pending : pending[i] = m
                                  \/ \E i \in DOMAIN fresh : fresh[i] = m
  <2>1. pending \in Seq(MissionIds) /\ pending' = pending \o fresh
    BY DEF IInv, TypeOK, MissionType, Push
  <2>2. \A i \in DOMAIN pending, j \in DOMAIN fresh : pending[i] # fresh[j]
    BY <1>6, <2>1 DEF IInv, LedgerConsistent
  <2>3. \A i, j \in DOMAIN pending : pending[i] = pending[j] => i = j
    BY DEF IInv, LedgerConsistent
  <2>4. QED
    <3>1. fresh \in Seq(MissionIds) /\ \A i, j \in DOMAIN fresh : fresh[i] = fresh[j] => i = j
      BY <1>2, <1>4
    <3>2. pending' \in Seq(MissionIds) /\ Len(pending') = Len(pending) + Len(fresh)
      BY <3>1, <2>1, ConcatProperties, Zenon
    <3>3. NoRepeats(pending) /\ NoRepeats(fresh) /\ Disjoint(pending, fresh)
      BY <3>1, <2>2, <2>3 DEF NoRepeats, Disjoint
    <3>4. NoRepeats(pending') /\ \A m \in MissionIds :
            Listed(pending', m) <=> Listed(pending, m) \/ Listed(fresh, m)
      BY <3>1, <2>1, <3>3, AppendFresh
    <3>5. \A i, j \in DOMAIN pending' : pending'[i] = pending'[j] => i = j
      BY <3>4 DEF NoRepeats
    <3>6. \A m \in MissionIds : (\E i \in DOMAIN pending' : pending'[i] = m)
                              <=> \/ \E i \in DOMAIN pending : pending[i] = m
                                  \/ \E i \in DOMAIN fresh : fresh[i] = m
      BY <3>4 DEF Listed
    <3>7. QED
      BY <3>2, <3>5, <3>6
<1>8. known' = [m \in MissionIds |-> IF m \in DOMAIN definition THEN definition[m] ELSE known[m]]
      /\ active' = active /\ UNCHANGED subgoal /\ Len(pending) + Len(fresh) <= MissionCapacity
  BY DEF Push
<1>9. MissionType' /\ LogType'
  <2>1. known' \in [MissionIds -> Definitions \cup {NoDefinition}]
    BY <1>1, <1>8 DEF IInv, TypeOK, MissionType
  <2>2. last' \in [MissionIds -> Statuses \cup {"none"}]
    BY <1>5 DEF IInv, TypeOK, LogType, Statuses
  <2>3. QED
    BY <1>5, <1>7, <1>8, <2>1, <2>2 DEF IInv, TypeOK, MissionType, LogType
<1>10. LedgerConsistent'
  <2>1. ASSUME NEW m \in MissionIds
        PROVE  /\ last'[m] = "queued" <=> \E i \in DOMAIN pending' : pending'[i] = m
               /\ last'[m] \in {"active", "paused", "blocked"} <=> m = active'
               /\ last'[m] = "none" <=> known'[m] = NoDefinition
    <3>1. CASE \E i \in DOMAIN fresh : fresh[i] = m
      <4>1. last'[m] = "queued" /\ last[m] = "none" /\ m \in DOMAIN definition
        BY <1>3, <1>5, <1>6, <3>1
      <4>2. known'[m] # NoDefinition
        BY <1>1, <1>8, <4>1, MissionAssumption
      <4>3. m # active
        BY <4>1 DEF IInv, LedgerConsistent
      <4>4. QED
        BY <1>7, <1>8, <3>1, <4>1, <4>2, <4>3
    <3>2. CASE ~ \E i \in DOMAIN fresh : fresh[i] = m
      <4>1. last'[m] = last[m]
        BY <1>5, <3>2
      <4>2. known'[m] = NoDefinition <=> known[m] = NoDefinition
        BY <1>1, <1>3, <1>8, <3>2, MissionAssumption
      <4>3. QED
        BY <1>7, <1>8, <3>2, <4>1, <4>2 DEF IInv, LedgerConsistent
    <3>3. QED
      BY <3>1, <3>2
  <2>2. QED
    BY <1>7, <2>1 DEF LedgerConsistent
<1>11. ModeType' /\ MotionType' /\ ManualLease'
  BY DEF IInv, TypeOK, ModeType, MotionType, Control, ManualLease, Push, manualVars, motionVars
<1>12. fresh # <<>> => HasWork'
  <2>1. fresh # <<>> => Len(pending') # 0
    BY <1>2, <1>7, EmptySeq DEF IInv, TypeOK, MissionType
  <2>2. QED
    BY <2>1 DEF HasWork
<1>13. HasWork => HasWork'
  <2>1. pending # <<>> => Len(pending') # 0
    BY <1>2, <1>7, EmptySeq DEF IInv, TypeOK, MissionType
  <2>2. QED
    BY <1>8, <2>1 DEF HasWork
<1>14. active # NoMission => last'[active] = last[active]
  BY <1>5, <1>6 DEF IInv, TypeOK, MissionType, LedgerConsistent
<1>15. CASE fresh # <<>> /\ autoState = "idle"
  <2>1. autoState' = "active" /\ needsStart' = TRUE /\ mode' = "auto" /\ vacate' = vacate
        /\ target' = target /\ watchdog' = watchdog /\ setpoint' = setpoint /\ mode = "auto"
    BY <1>15 DEF Push, manualVars, motionVars
  <2>2. SnapshotMatchesLog' /\ NoSilentStall' /\ VacateExclusive' /\ MotionAuthority'
    BY <1>8, <1>12, <1>15, <2>1 DEF IInv, Control, SnapshotMatchesLog, NoSilentStall,
       VacateExclusive, MotionAuthority
  <2>3. QED
    BY <1>9, <1>10, <1>11, <2>2 DEF IInv, TypeOK, Control
<1>16. CASE ~(fresh # <<>> /\ autoState = "idle")
  <2>1. autoState' = autoState /\ needsStart' = needsStart /\ mode' = mode /\ vacate' = vacate
        /\ nav' = nav /\ target' = target /\ watchdog' = watchdog /\ setpoint' = setpoint
    BY <1>16 DEF Push, manualVars, motionVars
  <2>2. autoState = "idle" => pending' = pending
    <3>1. autoState = "idle" => fresh = <<>>
      BY <1>16
    <3>2. pending' = pending \o fresh /\ pending \in Seq(MissionIds)
      BY DEF Push, IInv, TypeOK, MissionType
    <3>3. QED
      BY <3>1, <3>2, ConcatEmptySeq
  <2>3. SnapshotMatchesLog' /\ NoSilentStall' /\ VacateExclusive' /\ MotionAuthority'
    <3>1. autoState = "idle" => ~HasWork'
      BY <1>8, <2>2 DEF IInv, Control, SnapshotMatchesLog, HasWork
    <3>2. SnapshotMatchesLog'
      BY <1>8, <1>14, <2>1, <3>1 DEF IInv, Control, SnapshotMatchesLog
    <3>3. NoSilentStall' /\ VacateExclusive' /\ MotionAuthority'
      BY <1>8, <1>13, <2>1 DEF IInv, Control, NoSilentStall, VacateExclusive, MotionAuthority
    <3>4. QED
      BY <3>2, <3>3
  <2>4. QED
    BY <1>9, <1>10, <1>11, <2>3 DEF IInv, TypeOK, Control
<1>17. QED
  BY <1>15, <1>16

\* Everything cancel_all drops, in order: the active mission, then the queue.
LEMMA HeldMissions ==
  ASSUME IInv
  PROVE  LET missions == (IF active = NoMission THEN <<>> ELSE <<active>>) \o pending
         IN  /\ missions \in Seq(MissionIds) /\ NoRepeats(missions)
             /\ \A m \in MissionIds : Listed(missions, m) <=> m = active \/ Listed(pending, m)
<1> DEFINE missions == (IF active = NoMission THEN <<>> ELSE <<active>>) \o pending
<1>1. /\ missions \in Seq(MissionIds) /\ NoRepeats(missions)
      /\ \A m \in MissionIds : Listed(missions, m) <=> m = active \/ Listed(pending, m)
  <2>1. pending \in Seq(MissionIds) /\ NoRepeats(pending)
    BY DEF IInv, TypeOK, MissionType, LedgerConsistent, NoRepeats
  <2>2. CASE active = NoMission
    <3>1. missions = pending
      BY <2>1, <2>2, ConcatEmptySeq
    <3> HIDE DEF missions
    <3>2. QED
      BY <2>1, <2>2, <3>1, MissionAssumption
  <2>3. CASE active # NoMission
    <3>1. active \in MissionIds
      BY <2>3 DEF IInv, TypeOK, MissionType
    <3> DEFINE front == <<active>>
    <3>2. front \in Seq(MissionIds) /\ DOMAIN front = {1} /\ front[1] = active
      BY <3>1
    <3>3. missions = front \o pending
      BY <2>3
    <3> HIDE DEF missions, front
    <3>4. NoRepeats(front) /\ \A m \in MissionIds : Listed(front, m) <=> m = active
      BY <3>2 DEF NoRepeats, Listed
    <3>5. Disjoint(front, pending)
      BY <3>1, <3>2 DEF IInv, LedgerConsistent, Disjoint
    <3>6. QED
      BY <2>1, <3>2, <3>3, <3>4, <3>5, AppendFresh
  <2>4. QED
    BY <2>2, <2>3
<1>2. QED
  BY <1>1

\* cancel_all preserves the invariant: everything held is reported cancelled.
LEMMA CancelAllStep == ASSUME IInv, CancelAll PROVE IInv'
<1> DEFINE missions == (IF active = NoMission THEN <<>> ELSE <<active>>) \o pending
<1>1. /\ missions \in Seq(MissionIds) /\ NoRepeats(missions)
      /\ \A m \in MissionIds : Listed(missions, m) <=> m = active \/ Listed(pending, m)
  BY HeldMissions
<1>2. Emit([i \in 1..Len(missions) |-> Ev(missions[i], "cancelled")])
  BY DEF CancelAll
<1> HIDE DEF missions
<1>3. /\ emitted' \in Seq(Event)
      /\ last' = [m \in MissionIds |-> IF Listed(missions, m) THEN "cancelled" ELSE last[m]]
  <2>1. last \in [MissionIds -> Statuses \cup {"none"}] /\ "cancelled" \in Statuses
    BY DEF IInv, TypeOK, LogType, Statuses
  <2>2. \A i, j \in DOMAIN missions : missions[i] = missions[j] => i = j
    BY <1>1 DEF NoRepeats
  <2>3. QED
    BY <1>1, <1>2, <2>1, <2>2, EmitEach DEF Listed
<1>4. active' = NoMission /\ pending' = <<>> /\ subgoal' = 1 /\ known' = known
      /\ Len(<<>>) = 0 /\ <<>> \in Seq(MissionIds)
  BY DEF CancelAll
<1>5. MissionType' /\ LogType'
  <2>1. last' \in [MissionIds -> Statuses \cup {"none"}]
    BY <1>3 DEF IInv, TypeOK, LogType, Statuses
  <2>2. QED
    BY <1>3, <1>4, <2>1, BoundAssumption DEF IInv, TypeOK, MissionType, LogType
<1>6. LedgerConsistent'
  <2>1. \A m \in MissionIds : ~ \E i \in DOMAIN pending' : pending'[i] = m
    BY <1>4
  <2>2. ASSUME NEW m \in MissionIds
        PROVE  /\ last'[m] \notin {"queued", "active", "paused", "blocked"}
               /\ last'[m] = "none" <=> known'[m] = NoDefinition
    BY <1>1, <1>3, <1>4 DEF IInv, LedgerConsistent, Listed
  <2>3. QED
    BY <1>4, <2>1, <2>2, MissionAssumption DEF LedgerConsistent
<1>7. ModeType' /\ MotionType' /\ ManualLease'
  <2>1. ModeType'
    BY DEF IInv, TypeOK, ModeType, CancelAll
  <2>2. MotionType' /\ ManualLease'
    BY BoundAssumption DEF IInv, TypeOK, MotionType, Control, ManualLease, CancelAll, Stop, manualVars
  <2>3. QED
    BY <2>1, <2>2
<1>8. SnapshotMatchesLog' /\ NoSilentStall' /\ VacateExclusive' /\ MotionAuthority'
  BY <1>4 DEF SnapshotMatchesLog, NoSilentStall, VacateExclusive, MotionAuthority, HasWork,
     Stop, CancelAll
<1>9. QED
  BY <1>5, <1>6, <1>7, <1>8 DEF IInv, TypeOK, Control

----------------------------------------------------------------------------
(* Active ticks preserve the invariant. *)

\* Taking the head off a queue without repetitions.
LEMMA TailOf ==
  ASSUME NEW S, NEW p \in Seq(S), p # <<>>, NoRepeats(p)
  PROVE  /\ NoRepeats(Tail(p))
         /\ \A m : Listed(Tail(p), m) <=> Listed(p, m) /\ m # Head(p)
<1> USE DEF NoRepeats, Listed
<1> DEFINE r == Tail(p)
<1>1. /\ Len(p) \in Nat /\ Len(p) >= 1 /\ DOMAIN p = 1..Len(p) /\ Head(p) = p[1]
      /\ r \in Seq(S) /\ DOMAIN r = 1..(Len(p) - 1)
      /\ \A i \in 1..(Len(p) - 1) : r[i] = p[i + 1]
  BY HeadTailProperties
<1> HIDE DEF r
<1>2. NoRepeats(r)
  <2> SUFFICES ASSUME NEW i \in DOMAIN r, NEW j \in DOMAIN r, r[i] = r[j] PROVE i = j
    OBVIOUS
  <2>1. i + 1 \in DOMAIN p /\ j + 1 \in DOMAIN p /\ p[i + 1] = p[j + 1] /\ i \in Int /\ j \in Int
    BY <1>1
  <2>2. i + 1 = j + 1
    BY <2>1
  <2>3. QED
    BY <2>1, <2>2
<1>3. ASSUME NEW m, Listed(r, m) PROVE Listed(p, m) /\ m # Head(p)
  <2>1. PICK i \in DOMAIN r : r[i] = m
    BY <1>3
  <2>2. i + 1 \in DOMAIN p /\ p[i + 1] = m /\ i + 1 # 1 /\ 1 \in DOMAIN p
    BY <1>1, <2>1
  <2>3. QED
    BY <1>1, <2>2
<1>4. ASSUME NEW m, Listed(p, m), m # Head(p) PROVE Listed(r, m)
  <2>1. PICK i \in DOMAIN p : p[i] = m
    BY <1>4
  <2>2. i - 1 \in DOMAIN r /\ (i - 1) + 1 = i
    BY <1>1, <1>4, <2>1
  <2>3. r[i - 1] = m
    BY <1>1, <2>1, <2>2
  <2>4. QED
    BY <2>2, <2>3
<1>5. QED
  BY <1>2, <1>3, <1>4 DEF r

\* What is still queued behind the mission a tick serves.
LEMMA WaitingQueue ==
  ASSUME IInv, IF needsStart THEN HasWork ELSE active # NoMission
  PROVE  /\ NoRepeats(Waiting)
         /\ \A m \in MissionIds : Listed(Waiting, m) <=> Listed(pending, m) /\ m # Served
         /\ last[Served] \in {"queued", "active", "paused", "blocked"}
<1>1. pending \in Seq(MissionIds) /\ NoRepeats(pending) /\ TypeOK
  BY DEF IInv, TypeOK, MissionType, LedgerConsistent, NoRepeats
<1>2. /\ Served \in MissionIds
      /\ active = NoMission => pending # <<>> /\ Served = Head(pending) /\ Waiting = Tail(pending)
      /\ active # NoMission => Served = active /\ Waiting = pending
  BY <1>1, ServedType
<1>3. CASE active = NoMission
  <2>1. NoRepeats(Waiting) /\ \A m : Listed(Waiting, m) <=> Listed(pending, m) /\ m # Served
    BY <1>1, <1>2, <1>3, TailOf
  <2>2. 1 \in DOMAIN pending /\ pending[1] = Served
    BY <1>1, <1>2, <1>3, HeadTailProperties
  <2>3. QED
    BY <1>2, <2>1, <2>2 DEF IInv, LedgerConsistent
<1>4. CASE active # NoMission
  <2>1. last[active] \in {"active", "paused", "blocked"} /\ ~Listed(pending, active)
    BY <1>2, <1>4 DEF IInv, LedgerConsistent, Listed
  <2>2. QED
    BY <1>1, <1>2, <1>4, <2>1
<1>5. QED
  BY <1>3, <1>4

\* A tick that keeps serving a mission, reported active or blocked, preserves
\* the invariant.
LEMMA ServeStep ==
  ASSUME IInv, Working, subgoal' \in Nat \ {0}, emitted' \in Seq(Event),
         NEW s \in {"active", "blocked"}, last' = [last EXCEPT ![Served] = s],
         autoState' = s, nav' = s, vacate' = "none",
         Stop \/ (s = "active" /\ Drive("auto"))
  PROVE  IInv'
<1>1. /\ IF needsStart THEN HasWork ELSE active # NoMission
      /\ mode = "auto" /\ mode' = mode /\ known' = known /\ active' = Served
      /\ pending' = Waiting /\ needsStart' = FALSE /\ ClearManual
  BY DEF Working, Serving
<1>2. /\ Served \in MissionIds
      /\ Waiting \in Seq(MissionIds) /\ Len(Waiting) <= MissionCapacity
  BY <1>1, ServedType DEF IInv
<1>3. /\ NoRepeats(Waiting)
      /\ \A m \in MissionIds : Listed(Waiting, m) <=> Listed(pending, m) /\ m # Served
      /\ last[Served] \in {"queued", "active", "paused", "blocked"}
  BY <1>1, WaitingQueue
<1>4. MissionType' /\ LogType'
  <2>1. last' \in [MissionIds -> Statuses \cup {"none"}]
    BY <1>2 DEF IInv, TypeOK, LogType, Statuses
  <2>2. QED
    BY <1>1, <1>2, <2>1 DEF IInv, TypeOK, MissionType, LogType
<1>5. LedgerConsistent'
  <2>1. ASSUME NEW m \in MissionIds
        PROVE  /\ last'[m] = "queued" <=> Listed(Waiting, m)
               /\ last'[m] \in {"active", "paused", "blocked"} <=> m = Served
               /\ last'[m] = "none" <=> known[m] = NoDefinition
    <3>1. CASE m = Served
      BY <1>2, <1>3, <3>1 DEF IInv, TypeOK, LogType, LedgerConsistent
    <3>2. CASE m # Served
      <4>1. last'[m] = last[m] /\ (Listed(Waiting, m) <=> Listed(pending, m))
        BY <1>2, <1>3, <3>2 DEF IInv, TypeOK, LogType
      <4>2. active # NoMission => active = Served
        BY <1>1, ServedType DEF IInv
      <4>3. m = active => active # NoMission
        BY MissionAssumption
      <4>4. QED
        BY <3>2, <4>1, <4>2, <4>3 DEF IInv, LedgerConsistent, Listed
    <3>3. QED
      BY <3>1, <3>2
  <2>2. QED
    BY <1>1, <1>3, <2>1 DEF LedgerConsistent, Listed, NoRepeats
<1>6. ModeType' /\ MotionType' /\ ManualLease'
  <2>1. ModeType'
    BY <1>1 DEF ModeType
  <2>2. MotionType' /\ ManualLease'
    BY <1>1, BoundAssumption DEF IInv, TypeOK, MotionType, Control, ManualLease, ClearManual,
       Stop, Drive
  <2>3. QED
    BY <2>1, <2>2
<1>7. SnapshotMatchesLog' /\ NoSilentStall' /\ VacateExclusive' /\ MotionAuthority'
  <2>1. last'[Served] = s
    BY <1>2 DEF IInv, TypeOK, LogType
  <2>2. active' # NoMission /\ HasWork'
    BY <1>1, <1>2, MissionAssumption DEF HasWork
  <2>3. QED
    BY <1>1, <2>1, <2>2, BoundAssumption DEF SnapshotMatchesLog, NoSilentStall, VacateExclusive,
       MotionAuthority, Stop, Drive
<1>8. QED
  BY <1>4, <1>5, <1>6, <1>7 DEF IInv, TypeOK, Control

\* The yield session is closed on every tick that serves a mission.
LEMMA VacateClosed == ASSUME IInv, Serving, KeepVacate PROVE vacate' = "none"
BY DEF IInv, Control, VacateExclusive, Serving, KeepVacate

\* A failed start preserves the invariant.
LEMMA StartFailsStep == ASSUME IInv, StartFails PROVE IInv'
<1>1. IF needsStart THEN HasWork ELSE active # NoMission
  BY DEF StartFails, Startable
<1>2. Served \in MissionIds /\ Index \in Nat \ {0}
  BY <1>1, ServedType DEF IInv
<1>3. emitted' \in Seq(Event) /\ last' = [last EXCEPT ![Served] = "blocked"]
  BY <1>2, EmitSingle DEF IInv, StartFails, Statuses
<1>4. QED
  BY <1>2, <1>3, ServeStep DEF StartFails

\* A tick on which navigation goes on preserves the invariant.
LEMMA TickDriveStep == ASSUME IInv, TickDrive PROVE IInv'
<1>1. (IF needsStart THEN HasWork ELSE active # NoMission) /\ Serving /\ autoState = "active"
  BY DEF TickDrive, Working, Serving
<1>2. Served \in MissionIds /\ Index \in Nat \ {0}
  BY <1>1, ServedType DEF IInv
<1>3. /\ emitted' \in Seq(Event)
      /\ last' = IF needsStart THEN [last EXCEPT ![Served] = "active"] ELSE last
  BY <1>2, EmitStart DEF IInv, TickDrive
<1>4. ~needsStart => last[Served] = "active"
  BY <1>1 DEF IInv, Control, SnapshotMatchesLog, Served
<1>5. last' = [last EXCEPT ![Served] = "active"]
  BY <1>2, <1>3, <1>4 DEF IInv, TypeOK, LogType
<1>6. vacate' = "none"
  BY <1>1, VacateClosed DEF TickDrive
<1>7. QED
  BY <1>1, <1>2, <1>3, <1>5, <1>6, ServeStep DEF TickDrive

\* A tick that gives up on the subgoal preserves the invariant.
LEMMA TickBlockedStep == ASSUME IInv, TickBlocked PROVE IInv'
<1>1. (IF needsStart THEN HasWork ELSE active # NoMission) /\ Serving
  BY DEF TickBlocked, Working, Serving
<1>2. Served \in MissionIds /\ Index \in Nat \ {0}
  BY <1>1, ServedType DEF IInv
<1>3. emitted' \in Seq(Event) /\ last' = [last EXCEPT ![Served] = "blocked"]
  BY <1>2, EmitAfterStart DEF IInv, TickBlocked, Statuses
<1>4. vacate' = "none"
  BY <1>1, VacateClosed DEF TickBlocked
<1>5. QED
  BY <1>2, <1>3, <1>4, ServeStep DEF TickBlocked

\* A tick that reaches an inner subgoal preserves the invariant.
LEMMA TickNextSubgoalStep == ASSUME IInv, TickNextSubgoal PROVE IInv'
<1>1. (IF needsStart THEN HasWork ELSE active # NoMission) /\ autoState = "active"
  BY DEF TickNextSubgoal, Working, Serving
<1>2. Served \in MissionIds /\ Index \in Nat \ {0} /\ Index + 1 \in Nat \ {0}
  BY <1>1, ServedType DEF IInv
<1>3. Working /\ subgoal' = Index + 1 /\ vacate' = "none" /\ Stop
  BY DEF TickNextSubgoal
<1>4. CASE nav' = "active" /\ Emit(StartEvent) /\ UNCHANGED autoState
  <2>1. /\ emitted' \in Seq(Event)
        /\ last' = IF needsStart THEN [last EXCEPT ![Served] = "active"] ELSE last
    BY <1>2, <1>4, EmitStart DEF IInv
  <2>2. ~needsStart => last[Served] = "active"
    BY <1>1 DEF IInv, Control, SnapshotMatchesLog, Served
  <2>3. last' = [last EXCEPT ![Served] = "active"]
    BY <1>2, <2>1, <2>2 DEF IInv, TypeOK, LogType
  <2>4. QED
    BY <1>1, <1>2, <1>3, <1>4, <2>1, <2>3, ServeStep
<1>5. CASE nav' = "blocked" /\ autoState' = "blocked"
           /\ Emit(StartEvent \o <<Ev(Served, "blocked")>>)
  <2>1. emitted' \in Seq(Event) /\ last' = [last EXCEPT ![Served] = "blocked"]
    BY <1>2, <1>5, EmitAfterStart DEF IInv, Statuses
  <2>2. QED
    BY <1>2, <1>3, <1>5, <2>1, ServeStep
<1>6. QED
  BY <1>4, <1>5 DEF TickNextSubgoal

\* A tick that finishes a mission preserves the invariant, with or without
\* another mission waiting.
LEMMA TickReachedStep == ASSUME IInv, TickReached PROVE IInv'
<1>1. /\ IF needsStart THEN HasWork ELSE active # NoMission
      /\ mode = "auto" /\ mode' = mode /\ known' = known /\ active' = NoMission
      /\ pending' = Waiting /\ subgoal' = 1 /\ vacate' = "none" /\ nav' = "reached"
      /\ Stop /\ ClearManual
  BY DEF TickReached, Serving
<1>2. /\ Served \in MissionIds
      /\ Waiting \in Seq(MissionIds) /\ Len(Waiting) <= MissionCapacity
  BY <1>1, ServedType DEF IInv
<1>3. /\ NoRepeats(Waiting)
      /\ \A m \in MissionIds : Listed(Waiting, m) <=> Listed(pending, m) /\ m # Served
      /\ last[Served] \in {"queued", "active", "paused", "blocked"}
  BY <1>1, WaitingQueue
<1>4. emitted' \in Seq(Event) /\ last' = [last EXCEPT ![Served] = "reached"]
  BY <1>2, EmitAfterStart DEF IInv, TickReached, Statuses
<1>5. MissionType' /\ LogType'
  <2>1. last' \in [MissionIds -> Statuses \cup {"none"}]
    BY <1>2, <1>4 DEF IInv, TypeOK, LogType, Statuses
  <2>2. QED
    BY <1>1, <1>2, <1>4, <2>1 DEF IInv, TypeOK, MissionType, LogType
<1>6. LedgerConsistent'
  <2>1. ASSUME NEW m \in MissionIds
        PROVE  /\ last'[m] = "queued" <=> Listed(Waiting, m)
               /\ last'[m] \notin {"active", "paused", "blocked"}
               /\ last'[m] = "none" <=> known[m] = NoDefinition
    <3>1. CASE m = Served
      BY <1>2, <1>3, <1>4, <3>1 DEF IInv, TypeOK, LogType, LedgerConsistent
    <3>2. CASE m # Served
      <4>1. last'[m] = last[m] /\ (Listed(Waiting, m) <=> Listed(pending, m))
        BY <1>2, <1>3, <1>4, <3>2 DEF IInv, TypeOK, LogType
      <4>2. m # active
        BY <1>1, <3>2, ServedType, MissionAssumption DEF IInv
      <4>3. QED
        BY <4>1, <4>2 DEF IInv, LedgerConsistent, Listed
    <3>3. QED
      BY <3>1, <3>2
  <2>2. QED
    BY <1>1, <1>3, <2>1, MissionAssumption DEF LedgerConsistent, Listed, NoRepeats
<1>7. MotionType' /\ ManualLease'
  BY <1>1, BoundAssumption DEF IInv, TypeOK, MotionType, Control, ManualLease, ClearManual, Stop
<1>8. CASE Waiting # <<>>
  <2>1. autoState' = "active" /\ needsStart' = TRUE /\ HasWork'
    BY <1>1, <1>8 DEF TickReached, HasWork
  <2>2. ModeType' /\ SnapshotMatchesLog' /\ NoSilentStall' /\ VacateExclusive' /\ MotionAuthority'
    BY <1>1, <2>1 DEF ModeType, SnapshotMatchesLog, NoSilentStall, VacateExclusive,
       MotionAuthority, Stop
  <2>3. QED
    BY <1>5, <1>6, <1>7, <2>2 DEF IInv, TypeOK, Control
<1>9. CASE Waiting = <<>>
  <2>1. autoState' = "idle" /\ needsStart' = FALSE /\ ~HasWork'
    BY <1>1, <1>9 DEF TickReached, HasWork
  <2>2. ModeType' /\ SnapshotMatchesLog' /\ NoSilentStall' /\ VacateExclusive' /\ MotionAuthority'
    BY <1>1, <2>1 DEF ModeType, SnapshotMatchesLog, NoSilentStall, VacateExclusive,
       MotionAuthority, Stop
  <2>3. QED
    BY <1>5, <1>6, <1>7, <2>2 DEF IInv, TypeOK, Control
<1>10. QED
  BY <1>8, <1>9

\* A stuttering step preserves the invariant.
LEMMA StutterStep == ASSUME IInv, UNCHANGED vars PROVE IInv'
<1>1. UNCHANGED <<mode, active, pending, known, subgoal, emitted, last>>
      /\ UNCHANGED <<autoState, needsStart, nav, vacate>>
      /\ UNCHANGED <<setpoint, lease, sinceCommand, target, watchdog>>
  BY DEF vars, missionVars, logVars, autoVars, manualVars, motionVars
<1>2. TypeOK'
  BY <1>1 DEF IInv, TypeOK, MissionType, LogType, ModeType, MotionType
<1>3. LedgerConsistent' /\ Control'
  BY <1>1 DEF IInv, LedgerConsistent, Control, SnapshotMatchesLog, NoSilentStall,
     VacateExclusive, MotionAuthority, ManualLease, HasWork
<1>4. QED
  BY <1>2, <1>3 DEF IInv

\* Every step of the controller preserves the invariant.
LEMMA NextInv == ASSUME IInv, [Next]_vars PROVE IInv'
<1>1. CASE Command
  <2>1. ASSUME NEW definition \in Batches, NEW fresh \in Orders(DOMAIN definition),
               Push(definition, fresh)
        PROVE  IInv'
    BY <2>1, PushStep
  <2>2. QED
    BY <1>1, <2>1, StopMotionStep, SwitchToManualStep, SwitchToAutoStep, ManualDriveStep,
       ManualStopStep, PauseCommandStep, ResumeStep, CancelAllStep, DisconnectStep DEF Command
<1>2. CASE Tick
  BY <1>2, TickManualStep, TickHeldStep, TickVacateStep, StartFailsStep, TickDriveStep,
     TickBlockedStep, TickNextSubgoalStep, TickReachedStep DEF Tick
<1>3. CASE Time
  <2>1. PICK d \in 1..MaxStep : Advance(d)
    BY <1>3 DEF Time
  <2>2. d \in Nat \ {0}
    BY BoundAssumption
  <2>3. QED
    BY <2>1, <2>2, AdvanceStep
<1>4. CASE UNCHANGED vars
  BY <1>4, StutterStep
<1>5. QED
  BY <1>1, <1>2, <1>3, <1>4 DEF Next

\* The inductive invariant holds in every state a controller reaches.
THEOREM Invariance == Spec => []IInv
<1>1. Init => IInv
  BY InitInv
<1>2. IInv /\ [Next]_vars => IInv'
  BY NextInv
<1>3. QED
  BY <1>1, <1>2, PTL DEF Spec

----------------------------------------------------------------------------
(* What the invariant means for the code. *)

\* Every field of the controller and the vehicle keeps its type: the queue
\* within mission_capacity, leases and watchdog within the command timeout.
THEOREM TypeCorrect == Spec => []TypeOK
<1>1. IInv => TypeOK
  BY DEF IInv
<1>2. QED
  BY <1>1, Invariance, PTL

\* Whatever commands, disconnects and tick outcomes happen, replaying the event
\* log rebuilds the queue, the active mission and the set of known missions.
THEOREM LedgerCorrect == Spec => []LedgerConsistent
<1>1. IInv => LedgerConsistent
  BY DEF IInv
<1>2. QED
  BY <1>1, Invariance, PTL

\* The snapshot a reconnecting client is sent never contradicts the event log.
THEOREM SnapshotCorrect == Spec => []SnapshotMatchesLog
<1>1. IInv => SnapshotMatchesLog
  BY DEF IInv, Control
<1>2. QED
  BY <1>1, Invariance, PTL

\* An Active controller is never left without anything a tick can work on.
THEOREM NeverStalls == Spec => []NoSilentStall
<1>1. IInv => NoSilentStall
  BY DEF IInv, Control
<1>2. QED
  BY <1>1, Invariance, PTL

\* An idle-vacate session never overlaps a mission or Manual mode.
THEOREM VacateSafe == Spec => []VacateExclusive
<1>1. IInv => VacateExclusive
  BY DEF IInv, Control
<1>2. QED
  BY <1>1, Invariance, PTL

\* Whoever is driving the vehicle has the authority to.
THEOREM MotionSafe == Spec => []MotionAuthority
<1>1. IInv => MotionAuthority
  BY DEF IInv, Control
<1>2. QED
  BY <1>1, Invariance, PTL

\* Manual motion ends within two command timeouts of the last accepted drive
\* command, for any timeout and however ticks and physics steps interleave.
THEOREM ManualMotionEnds == Spec => []ManualMotionBounded
<1>1. IInv => ManualMotionBounded
  BY BoundAssumption DEF IInv, TypeOK, MotionType, Control, ManualLease, ManualMotionBounded
<1>2. QED
  BY <1>1, Invariance, PTL

\* Paused or blocked work is resumed by an explicit command only.
THEOREM ResumeIsExplicit == Spec => RestartNeedsResume
<1>1. ASSUME IInv, [Next]_vars, autoState \in {"paused", "blocked"}, autoState' = "active"
      PROVE  mode = "auto" /\ needsStart' /\ target' = "zero" /\ emitted' = <<>> /\ active' = active
  <2>2. Resume
    BY <1>1 DEF Next, Command, Tick, Time, StopMotion, SwitchToManual, SwitchToAuto,
       ManualDrive, ManualStop, Push, Pause, CancelAll, Disconnect, FreezeOrPause,
       FreezeIdleVacate, PauseActive, TickManual, TickHeld, TickVacate, ResponderRuns,
       StartFails, Startable, TickDrive, TickBlocked, TickNextSubgoal, TickReached, Working,
       Serving, Advance, vars, autoVars
  <2>3. HasWork
    BY <1>1, <2>2 DEF Resume
  <2>4. Emit(<<>>) /\ last \in [MissionIds -> Statuses \cup {"none"}]
    BY <1>1, <2>2 DEF Resume, IInv, TypeOK, LogType
  <2>5. QED
    BY <2>2, <2>3, <2>4, EmitNothing DEF Resume, Stop, missionVars
<1>2. IInv /\ [Next]_vars =>
        [(autoState \in {"paused", "blocked"} /\ autoState' = "active")
         => (mode = "auto" /\ needsStart' /\ target' = "zero" /\ emitted' = <<>>
             /\ active' = active)]_vars
  BY <1>1
<1>3. QED
  BY <1>2, Invariance, PTL DEF Spec, RestartNeedsResume

----------------------------------------------------------------------------
(* The grammar of the event log.                                            *)

\* The i-th event of evs is a legal successor of the one before it in the log.
LegalAt(evs, i) ==
  LET m == evs[i].mission
      Earlier == {j \in DOMAIN evs : j < i /\ evs[j].mission = m}
  IN  IF Earlier = {}
        THEN evs[i].status \in Legal[last[m]]
        ELSE \E j \in Earlier : /\ \A k \in Earlier : k <= j
                                /\ evs[i].status \in Legal[evs[j].status]

LegalLog(evs) == \A i \in DOMAIN evs : LegalAt(evs, i)

\* What may follow what, as EventGrammar reads it.
LEMMA LegalTable ==
  /\ Legal["none"] = {"queued"}
  /\ Legal["queued"] = {"active", "blocked", "cancelled"}
  /\ Legal["active"] = {"paused", "blocked", "reached", "cancelled"}
  /\ Legal["paused"] = {"active", "paused", "blocked", "cancelled"}
  /\ Legal["blocked"] = {"active", "paused", "blocked", "cancelled"}
BY DEF Legal

\* An empty step of the log is legal.
LEMMA LegalNothing == LegalLog(<<>>)
BY DEF LegalLog

\* One event that may follow the newest one of its mission.
LEMMA LegalOne ==
  ASSUME NEW m \in MissionIds, NEW s \in Statuses, s \in Legal[last[m]]
  PROVE  LegalLog(<<Ev(m, s)>>)
<1> DEFINE evs == <<Ev(m, s)>>
<1>1. DOMAIN evs = {1} /\ evs[1].mission = m /\ evs[1].status = s
  BY DEF Ev
<1> HIDE DEF evs
<1>2. {j \in DOMAIN evs : j < 1 /\ evs[j].mission = m} = {}
  BY <1>1
<1>3. LegalAt(evs, 1)
  BY <1>1, <1>2 DEF LegalAt
<1>4. QED
  BY <1>1, <1>3 DEF LegalLog, evs

\* Two events of one mission, each of which may follow the one before it.
LEMMA LegalTwo ==
  ASSUME NEW m \in MissionIds, NEW r \in Statuses, NEW s \in Statuses,
         r \in Legal[last[m]], s \in Legal[r]
  PROVE  LegalLog(<<Ev(m, r), Ev(m, s)>>)
<1> DEFINE evs == <<Ev(m, r), Ev(m, s)>>
<1>1. /\ DOMAIN evs = {1, 2} /\ evs[1].mission = m /\ evs[1].status = r
      /\ evs[2].mission = m /\ evs[2].status = s
  BY DEF Ev
<1> HIDE DEF evs
<1>2. {j \in DOMAIN evs : j < 1 /\ evs[j].mission = m} = {}
  BY <1>1
<1>3. {j \in DOMAIN evs : j < 2 /\ evs[j].mission = m} = {1}
  BY <1>1
<1>4. LegalAt(evs, 1)
  BY <1>1, <1>2 DEF LegalAt
<1>5. LegalAt(evs, 2)
  <2> DEFINE Earlier == {j \in DOMAIN evs : j < 2 /\ evs[j].mission = evs[2].mission}
  <2>1. Earlier = {1}
    BY <1>1, <1>3
  <2> HIDE DEF Earlier
  <2>2. Earlier # {} /\ 1 \in Earlier /\ (\A k \in Earlier : k <= 1)
    BY <2>1
  <2>3. evs[2].status \in Legal[evs[1].status]
    BY <1>1
  <2>4. \E j \in Earlier : (\A k \in Earlier : k <= j) /\ evs[2].status \in Legal[evs[j].status]
    BY <2>2, <2>3
  <2>5. QED
    BY <2>2, <2>4 DEF LegalAt, Earlier
<1>6. QED
  BY <1>1, <1>4, <1>5 DEF LegalLog, evs

\* One event for each of a list of different missions.
LEMMA LegalEach ==
  ASSUME NEW ms \in Seq(MissionIds), NEW s \in Statuses,
         NoRepeats(ms), \A i \in DOMAIN ms : s \in Legal[last[ms[i]]]
  PROVE  LegalLog([i \in 1..Len(ms) |-> Ev(ms[i], s)])
<1> DEFINE evs == [i \in 1..Len(ms) |-> Ev(ms[i], s)]
<1>1. /\ DOMAIN evs = DOMAIN ms
      /\ \A i \in DOMAIN ms : evs[i].mission = ms[i] /\ evs[i].status = s
      /\ \A i \in DOMAIN ms : i \in Int
  BY DEF Ev
<1> HIDE DEF evs
<1>2. ASSUME NEW i \in DOMAIN evs PROVE LegalAt(evs, i)
  <2>1. {j \in DOMAIN evs : j < i /\ evs[j].mission = evs[i].mission} = {}
    <3>1. ASSUME NEW j \in DOMAIN evs, j < i, evs[j].mission = evs[i].mission PROVE FALSE
      <4>1. ms[j] = ms[i]
        BY <1>1, <3>1
      <4>2. j = i
        BY <1>1, <4>1 DEF NoRepeats
      <4>3. QED
        BY <1>1, <3>1, <4>2
    <3>2. QED
      BY <3>1
  <2>2. QED
    BY <1>1, <2>1 DEF LegalAt
<1>3. QED
  BY <1>2 DEF LegalLog, evs

\* A start is announced only for a mission that is not reported active already:
\* _needs_start is never left set behind a mission whose start was logged.
StartIsNew == needsStart /\ active # NoMission => last[active] # "active"

\* A step that logs nothing, changes no active mission and requests no start.
LEMMA QuietStart ==
  ASSUME IInv, StartIsNew, Emit(<<>>), active' = active, needsStart' => needsStart
  PROVE  StartIsNew'
<1>1. last' = last
  BY EmitNothing DEF IInv, TypeOK, LogType
<1>2. QED
  BY <1>1 DEF StartIsNew

\* Every handler and every tick keeps StartIsNew.
LEMMA StartStep == ASSUME IInv, StartIsNew, [Next]_vars PROVE StartIsNew'
<1>1. CASE UNCHANGED vars
  BY <1>1 DEF StartIsNew, vars, missionVars, logVars, autoVars
<1>2. ASSUME FreezeOrPause(/\ autoState' = autoState \/ autoState' = "idle"
                           /\ needsStart' = needsStart \/ needsStart' = FALSE),
             active' = active
      PROVE  StartIsNew'
  <2>1. CASE FreezeIdleVacate
    BY <1>2, <2>1, QuietStart DEF FreezeIdleVacate
  <2>2. CASE PauseActive
    BY <2>2 DEF PauseActive, StartIsNew
  <2>3. CASE Emit(<<>>) /\ (needsStart' => needsStart)
    BY <1>2, <2>3, QuietStart
  <2>4. QED
    BY <1>2, <2>1, <2>2, <2>3 DEF FreezeOrPause
<1>3. CASE Command
  <2>1. CASE StopMotion
    <3>1. active' = active
      BY <2>1 DEF StopMotion, missionVars
    <3>2. CASE mode = "auto"
      <4>1. FreezeOrPause(/\ autoState' = autoState \/ autoState' = "idle"
                          /\ needsStart' = needsStart \/ needsStart' = FALSE)
        BY <2>1, <3>2 DEF StopMotion, FreezeOrPause
      <4>2. QED
        BY <3>1, <4>1, <1>2
    <3>3. CASE mode # "auto"
      BY <2>1, <3>1, <3>3, QuietStart DEF StopMotion, autoVars
    <3>4. QED
      BY <3>2, <3>3
  <2>2. CASE SwitchToManual
    <3>1. active' = active
      BY <2>2 DEF SwitchToManual, missionVars
    <3>2. CASE HasWork
      BY <2>2, <3>2 DEF SwitchToManual, PauseActive, StartIsNew
    <3>3. CASE ~HasWork
      BY <2>2, <3>1, <3>3, QuietStart DEF SwitchToManual
    <3>4. QED
      BY <3>2, <3>3
  <2>3. CASE SwitchToAuto
    BY <2>3, QuietStart DEF SwitchToAuto, missionVars
  <2>4. CASE ManualDrive \/ ManualStop
    BY <2>4, QuietStart DEF ManualDrive, ManualStop, missionVars, autoVars
  <2>5. ASSUME NEW definition \in Batches, NEW fresh \in Orders(DOMAIN definition),
               Push(definition, fresh)
        PROVE  StartIsNew'
    <3>1. active' = active /\ (needsStart' => needsStart \/ autoState = "idle")
      BY <2>5 DEF Push
    <3>2. autoState = "idle" => active = NoMission
      BY DEF IInv, Control, SnapshotMatchesLog, HasWork
    <3>3. active # NoMission => last'[active] \in {"queued", last[active]}
      BY <2>5, PushLog DEF IInv, TypeOK, MissionType
    <3>4. QED
      BY <3>1, <3>2, <3>3 DEF StartIsNew
  <2>6. CASE Pause
    <3>1. active' = active
      BY <2>6 DEF Pause, missionVars
    <3>2. FreezeOrPause(/\ autoState' = autoState \/ autoState' = "idle"
                        /\ needsStart' = needsStart \/ needsStart' = FALSE)
      BY <2>6 DEF Pause, FreezeOrPause
    <3>3. QED
      BY <3>1, <3>2, <1>2
  <2>7. CASE Resume
    <3>1. active' = active /\ last' = last
      BY <2>7, EmitNothing DEF Resume, missionVars, IInv, TypeOK, LogType
    <3>2. active # NoMission => last[active] \in {"paused", "blocked"}
      BY <2>7 DEF Resume, IInv, TypeOK, ModeType, Control, SnapshotMatchesLog, HasWork
    <3>3. QED
      BY <3>1, <3>2 DEF StartIsNew
  <2>8. CASE CancelAll
    BY <2>8 DEF CancelAll, StartIsNew
  <2>9. CASE Disconnect
    <3>1. active' = active
      BY <2>9 DEF Disconnect, missionVars
    <3>2. CASE mode = "auto"
      <4>1. FreezeOrPause(/\ autoState' = autoState \/ autoState' = "idle"
                          /\ needsStart' = needsStart \/ needsStart' = FALSE)
        BY <2>9, <3>2 DEF Disconnect, FreezeOrPause
      <4>2. QED
        BY <3>1, <4>1, <1>2
    <3>3. CASE mode # "auto"
      BY <2>9, <3>1, <3>3, QuietStart DEF Disconnect, autoVars
    <3>4. QED
      BY <3>2, <3>3
  <2>10. QED
    BY <1>3, <2>1, <2>2, <2>3, <2>4, <2>5, <2>6, <2>7, <2>8, <2>9 DEF Command
<1>4. CASE Tick
  <2>1. CASE TickManual \/ TickHeld \/ TickVacate
    BY <2>1, QuietStart DEF TickManual, TickHeld, TickVacate, missionVars
  <2>2. CASE StartFails \/ TickDrive \/ TickBlocked \/ TickNextSubgoal
    BY <2>2 DEF StartFails, TickDrive, TickBlocked, TickNextSubgoal, Working, StartIsNew
  <2>3. CASE TickReached
    BY <2>3 DEF TickReached, StartIsNew
  <2>4. QED
    BY <1>4, <2>1, <2>2, <2>3 DEF Tick
<1>5. CASE Time
  BY <1>5, QuietStart DEF Time, Advance, missionVars, autoVars
<1>6. QED
  BY <1>1, <1>3, <1>4, <1>5 DEF Next

\* Starts are only announced for missions not reported active, in every run.
LEMMA StartInvariance == Spec => [](IInv /\ StartIsNew)
<1>1. Init => IInv /\ StartIsNew
  BY InitInv DEF Init, StartIsNew
<1>2. (IInv /\ StartIsNew) /\ [Next]_vars => (IInv /\ StartIsNew)'
  BY NextInv, StartStep
<1>3. QED
  BY <1>1, <1>2, PTL DEF Spec

\* What a handler or a tick logs: nothing, or a legal continuation of the log.
LogStep == emitted' = <<>> \/ LegalLog(emitted')

\* A step that emits nothing.
LEMMA SilentLog == ASSUME Emit(<<>>) PROVE LogStep
BY DEF Emit, LogStep

\* Pausing the active mission is legal whatever was reported of it.
LEMMA PauseLog == ASSUME IInv, PauseActive PROVE LogStep
<1>1. CASE autoState = "paused" \/ active = NoMission
  BY <1>1, SilentLog DEF PauseActive
<1>2. CASE ~(autoState = "paused" \/ active = NoMission)
  <2>1. active \in MissionIds /\ last[active] \in {"active", "paused", "blocked"}
    BY <1>2 DEF IInv, TypeOK, MissionType, LedgerConsistent
  <2>2. "paused" \in Legal[last[active]] /\ "paused" \in Statuses
    BY <2>1, LegalTable DEF Statuses
  <2>3. emitted' = <<Ev(active, "paused")>>
    BY <1>2 DEF PauseActive, Emit
  <2>4. QED
    BY <2>1, <2>2, <2>3, LegalOne DEF LogStep
<1>3. QED
  BY <1>1, <1>2

\* stop_motion, pause, disconnect and fail_safe_stop in Auto mode.
LEMMA FreezeOrPauseLog == ASSUME IInv, FreezeOrPause(TRUE) PROVE LogStep
BY SilentLog, PauseLog DEF FreezeOrPause, FreezeIdleVacate

\* The events a tick appends for the mission it serves.
LEMMA ServedLog ==
  ASSUME IInv, StartIsNew, IF needsStart THEN HasWork ELSE active # NoMission,
         autoState = "active"
  PROVE  /\ Served \in MissionIds
         /\ needsStart => "active" \in Legal[last[Served]]
         /\ ~needsStart => last[Served] = "active"
         /\ "blocked" \in Legal[last[Served]]
<1>1. Served \in MissionIds /\ last[Served] \in {"queued", "active", "paused", "blocked"}
  BY ServedType, WaitingQueue DEF IInv
<1>2. ~needsStart => last[Served] = "active"
  BY DEF IInv, Control, SnapshotMatchesLog, Served
<1>3. needsStart => last[Served] # "active"
  <2>1. CASE active # NoMission
    BY <2>1 DEF StartIsNew, Served
  <2>2. CASE active = NoMission
    BY <1>1, <2>2, MissionAssumption DEF IInv, LedgerConsistent
  <2>3. QED
    BY <2>1, <2>2
<1>4. "blocked" \in Legal[last[Served]]
  BY <1>1, LegalTable
<1>5. needsStart => "active" \in Legal[last[Served]]
  BY <1>1, <1>3, LegalTable
<1>6. QED
  BY <1>1, <1>2, <1>4, <1>5

\* The announcement of the start alone, and followed by one more event that may
\* follow a start.
LEMMA StartLog ==
  ASSUME NEW s \in Statuses, s \in Legal["active"], Served \in MissionIds,
         needsStart => "active" \in Legal[last[Served]],
         ~needsStart => last[Served] = "active"
  PROVE  /\ Emit(StartEvent) => LogStep
         /\ Emit(StartEvent \o <<Ev(Served, s)>>) => LogStep
<1>1. Ev(Served, "active") \in Event /\ Ev(Served, s) \in Event /\ "active" \in Statuses
  BY DEF Ev, Event, Statuses
<1>2. CASE needsStart
  <2>1. StartEvent = <<Ev(Served, "active")>>
    BY <1>2 DEF StartEvent
  <2>2. StartEvent \o <<Ev(Served, s)>> = <<Ev(Served, "active"), Ev(Served, s)>>
    BY <1>1, <2>1, Tuples
  <2>3. LegalLog(<<Ev(Served, "active")>>)
    BY <1>1, <1>2, LegalOne
  <2>4. LegalLog(<<Ev(Served, "active"), Ev(Served, s)>>)
    BY <1>1, <1>2, LegalTwo
  <2>5. QED
    BY <2>1, <2>2, <2>3, <2>4 DEF Emit, LogStep
<1>3. CASE ~needsStart
  <2>1. StartEvent = <<>>
    BY <1>3 DEF StartEvent
  <2>2. StartEvent \o <<Ev(Served, s)>> = <<Ev(Served, s)>>
    BY <1>1, <2>1, Tuples
  <2>3. LegalLog(<<Ev(Served, s)>>)
    BY <1>3, LegalOne
  <2>4. QED
    BY <2>1, <2>2, <2>3 DEF Emit, LogStep
<1>4. QED
  BY <1>2, <1>3

\* cancel_all reports every held mission once, and each may be cancelled.
LEMMA CancelLog == ASSUME IInv, CancelAll PROVE LogStep
<1> DEFINE missions == (IF active = NoMission THEN <<>> ELSE <<active>>) \o pending
<1>1. /\ missions \in Seq(MissionIds) /\ NoRepeats(missions)
      /\ \A m \in MissionIds : Listed(missions, m) <=> m = active \/ Listed(pending, m)
  BY HeldMissions
<1>2. emitted' = [i \in 1..Len(missions) |-> Ev(missions[i], "cancelled")]
  BY DEF CancelAll, Emit
<1> HIDE DEF missions
<1>3. \A i \in DOMAIN missions : "cancelled" \in Legal[last[missions[i]]]
  <2> TAKE i \in DOMAIN missions
  <2>1. missions[i] \in MissionIds /\ Listed(missions, missions[i])
    BY <1>1 DEF Listed
  <2>2. last[missions[i]] \in {"queued", "active", "paused", "blocked"}
    BY <1>1, <2>1 DEF IInv, LedgerConsistent, Listed
  <2>3. QED
    BY <2>2, LegalTable
<1>4. QED
  BY <1>1, <1>2, <1>3, LegalEach DEF LogStep, Statuses

\* Every handler and every tick continues the log legally.
LEMMA NextLog == ASSUME IInv, StartIsNew, Next PROVE LogStep
<1>1. CASE Command
  <2>1. CASE StopMotion \/ Pause \/ Disconnect
    <3>1. FreezeOrPause(TRUE) \/ Emit(<<>>)
      BY <2>1 DEF StopMotion, Pause, Disconnect, FreezeOrPause
    <3>2. QED
      BY <3>1, SilentLog, FreezeOrPauseLog
  <2>2. CASE SwitchToManual
    BY <2>2, SilentLog, PauseLog DEF SwitchToManual
  <2>3. CASE SwitchToAuto \/ ManualDrive \/ ManualStop \/ Resume
    BY <2>3, SilentLog DEF SwitchToAuto, ManualDrive, ManualStop, Resume
  <2>4. ASSUME NEW definition \in Batches, NEW fresh \in Orders(DOMAIN definition),
               Push(definition, fresh)
        PROVE  LogStep
    <3>1. /\ fresh \in Seq(MissionIds) /\ NoRepeats(fresh)
          /\ \A i \in DOMAIN fresh : last[fresh[i]] = "none"
          /\ emitted' = [i \in 1..Len(fresh) |-> Ev(fresh[i], "queued")]
      BY <2>4, PushLog
    <3>2. \A i \in DOMAIN fresh : "queued" \in Legal[last[fresh[i]]]
      BY <3>1, LegalTable
    <3>3. QED
      BY <3>1, <3>2, LegalEach DEF LogStep, Statuses
  <2>5. CASE CancelAll
    BY <2>5, CancelLog
  <2>6. QED
    BY <1>1, <2>1, <2>2, <2>3, <2>4, <2>5 DEF Command
<1>2. CASE Tick
  <2>1. CASE TickManual \/ TickHeld \/ TickVacate
    BY <2>1, SilentLog DEF TickManual, TickHeld, TickVacate
  <2>2. ASSUME (IF needsStart THEN HasWork ELSE active # NoMission) /\ autoState = "active",
               \/ Emit(<<Ev(Served, "blocked")>>)
               \/ Emit(StartEvent)
               \/ Emit(StartEvent \o <<Ev(Served, "blocked")>>)
               \/ Emit(StartEvent \o <<Ev(Served, "reached")>>)
        PROVE  LogStep
    <3>1. /\ Served \in MissionIds
          /\ needsStart => "active" \in Legal[last[Served]]
          /\ ~needsStart => last[Served] = "active"
          /\ "blocked" \in Legal[last[Served]]
      BY <2>2, ServedLog
    <3>2. /\ "blocked" \in Legal["active"] /\ "reached" \in Legal["active"]
          /\ "blocked" \in Statuses /\ "reached" \in Statuses
      BY LegalTable DEF Statuses
    <3>3. CASE Emit(<<Ev(Served, "blocked")>>)
      BY <3>1, <3>2, <3>3, LegalOne DEF Emit, LogStep
    <3>4. CASE Emit(StartEvent) \/ Emit(StartEvent \o <<Ev(Served, "blocked")>>)
      BY <3>1, <3>2, <3>4, StartLog
    <3>5. CASE Emit(StartEvent \o <<Ev(Served, "reached")>>)
      BY <3>1, <3>2, <3>5, StartLog
    <3>6. QED
      BY <2>2, <3>3, <3>4, <3>5
  <2>3. CASE StartFails \/ TickDrive \/ TickBlocked \/ TickNextSubgoal \/ TickReached
    BY <2>2, <2>3 DEF StartFails, Startable, TickDrive, TickBlocked, TickNextSubgoal,
       TickReached, Working, Serving
  <2>4. QED
    BY <1>2, <2>1, <2>3 DEF Tick
<1>3. CASE Time
  BY <1>3, SilentLog DEF Time, Advance
<1>4. QED
  BY <1>1, <1>2, <1>3 DEF Next

\* The log of every mission follows the life cycle a client relies on: each
\* event is a legal successor of the one before it, also within one step, so
\* nothing follows reached or cancelled and nothing is started twice.
THEOREM LogIsLegal == Spec => EventGrammar
<1>1. IInv /\ StartIsNew /\ [Next]_vars =>
        [\A i \in DOMAIN emitted' :
           LET m == emitted'[i].mission
               Earlier == {j \in DOMAIN emitted' : j < i /\ emitted'[j].mission = m}
           IN  IF Earlier = {}
                 THEN emitted'[i].status \in Legal[last[m]]
                 ELSE \E j \in Earlier : /\ \A k \in Earlier : k <= j
                                         /\ emitted'[i].status \in Legal[emitted'[j].status]
        ]_vars
  <2> SUFFICES ASSUME IInv, StartIsNew, Next
               PROVE \A i \in DOMAIN emitted' : LegalAt(emitted', i)
    BY DEF LegalAt
  <2>1. LogStep
    BY NextLog
  <2>2. QED
    BY <2>1, LegalNothing DEF LogStep, LegalLog
<1>2. QED
  BY <1>1, StartInvariance, PTL DEF Spec, EventGrammar

----------------------------------------------------------------------------
(* The controller implements MissionLedger: step by step, from the ledger   *)
(* and the events of the step.                                              *)

Ended == {"reached", "cancelled"}

\* What a client reads off the log changes only with a final event.
LEMMA OutcomeKept ==
  ASSUME TypeOK, NEW m \in MissionIds, last[m] \notin Ended, NEW s \in Statuses \ Ended,
         last' = [last EXCEPT ![m] = s]
  PROVE  Outcome' = Outcome
<1>1. \A x \in MissionIds : last'[x] = IF x = m THEN s ELSE last[x]
  BY DEF TypeOK, LogType
<1>2. \A x \in MissionIds : (IF last'[x] \in {"reached", "cancelled"} THEN last'[x] ELSE "open")
                          = (IF last[x] \in {"reached", "cancelled"} THEN last[x] ELSE "open")
  BY <1>1 DEF Ended
<1>3. QED
  BY <1>2 DEF Outcome

\* A step that leaves the queue, the active mission and the outcomes alone.
Idle == active' = active /\ pending' = pending /\ Outcome' = Outcome

\* A step that logs nothing and moves no mission is none of the ledger's.
LEMMA IdleQuiet ==
  ASSUME IInv, Emit(<<>>), active' = active, pending' = pending
  PROVE  Idle
<1>1. last' = last
  BY EmitNothing DEF IInv, TypeOK, LogType
<1>2. QED
  BY <1>1 DEF Idle, Outcome

\* A pause is no step of the ledger.
LEMMA IdlePause ==
  ASSUME IInv, PauseActive, active' = active, pending' = pending
  PROVE  Idle
<1>1. CASE autoState = "paused" \/ active = NoMission
  BY <1>1, IdleQuiet DEF PauseActive
<1>2. CASE ~(autoState = "paused" \/ active = NoMission)
  <2>1. active \in MissionIds /\ last[active] \in {"active", "paused", "blocked"}
    BY <1>2 DEF IInv, TypeOK, MissionType, LedgerConsistent
  <2>2. last' = [last EXCEPT ![active] = "paused"]
    BY <1>2, <2>1, EmitSingle DEF PauseActive, IInv, Statuses
  <2>3. Outcome' = Outcome
    BY <2>1, <2>2, OutcomeKept DEF IInv, Ended, Statuses
  <2>4. QED
    BY <2>3 DEF Idle
<1>3. QED
  BY <1>1, <1>2

\* Nothing stop_motion, pause and disconnect do in Auto mode is a step of the ledger.
LEMMA IdleFreeze ==
  ASSUME IInv, FreezeOrPause(TRUE), active' = active, pending' = pending
  PROVE  Idle
BY IdleQuiet, IdlePause DEF FreezeOrPause, FreezeIdleVacate

\* What is held, as the ledger sees it.
LEMMA HeldListed ==
  ASSUME IInv, NEW m \in MissionIds
  PROVE  m \in Ledger!Held <=> m = active \/ Listed(pending, m)
BY MissionAssumption DEF Ledger!Held, Listed

\* push accepts the new missions of the batch, or none.
LEMMA PushLedger ==
  ASSUME IInv, NEW definition \in Batches, NEW fresh \in Orders(DOMAIN definition),
         Push(definition, fresh)
  PROVE  Idle \/ Ledger!Accept
<1>1. /\ fresh \in Seq(MissionIds) /\ NoRepeats(fresh)
      /\ \A i \in DOMAIN fresh : fresh[i] \in MissionIds /\ last[fresh[i]] = "none"
      /\ last' = [m \in MissionIds |-> IF Listed(fresh, m) THEN "queued" ELSE last[m]]
  BY PushLog
<1>2. active' = active /\ pending' = pending \o fresh /\ pending \in Seq(MissionIds)
  BY DEF Push, IInv, TypeOK, MissionType
<1>3. Outcome' = Outcome
  <2>1. ASSUME NEW m \in MissionIds
        PROVE (IF last'[m] \in {"reached", "cancelled"} THEN last'[m] ELSE "open")
            = (IF last[m] \in {"reached", "cancelled"} THEN last[m] ELSE "open")
    <3>1. CASE Listed(fresh, m)
      BY <1>1, <3>1 DEF Listed
    <3>2. CASE ~Listed(fresh, m)
      BY <1>1, <3>2
    <3>3. QED
      BY <3>1, <3>2
  <2>2. QED
    BY <2>1 DEF Outcome
<1>4. CASE fresh = <<>>
  BY <1>2, <1>3, <1>4, ConcatEmptySeq DEF Idle
<1>5. CASE fresh # <<>>
  <2>1. Len(fresh) \in Nat \ {0} /\ Len(pending) \in Nat
    BY <1>1, <1>2, <1>5, EmptySeq
  <2>2. /\ Len(pending') = Len(pending) + Len(fresh)
        /\ \A i \in 1..Len(pending) : pending'[i] = pending[i]
        /\ \A i \in (Len(pending) + 1)..Len(pending') :
             i - Len(pending) \in DOMAIN fresh /\ pending'[i] = fresh[i - Len(pending)]
    BY <1>1, <1>2, <2>1, ConcatProperties
  <2>3. Disjoint(pending, fresh)
    BY <1>1 DEF IInv, LedgerConsistent, Disjoint
  <2>4. NoRepeats(pending') /\ pending' \in Seq(MissionIds)
    <3>1. NoRepeats(pending)
      BY DEF IInv, LedgerConsistent, NoRepeats
    <3>2. QED
      BY <1>1, <1>2, <2>3, <3>1, AppendFresh
  <2>5. ASSUME NEW i \in (Len(pending) + 1)..Len(pending')
        PROVE  /\ pending'[i] \in MissionIds \ Ledger!Held
               /\ Outcome[pending'[i]] = "open"
               /\ \A j \in 1..Len(pending') : pending'[j] = pending'[i] => j = i
    <3>1. PICK k \in DOMAIN fresh : pending'[i] = fresh[k]
      BY <2>2, <2>5
    <3>2. fresh[k] \in MissionIds /\ last[fresh[k]] = "none"
      BY <1>1, <3>1
    <3>3. fresh[k] # active /\ ~Listed(pending, fresh[k])
      BY <3>2 DEF IInv, LedgerConsistent, Listed
    <3>4. fresh[k] \notin Ledger!Held
      BY <3>2, <3>3, HeldListed
    <3>5. Outcome[fresh[k]] = "open"
      BY <3>2 DEF Outcome
    <3>6. \A j \in 1..Len(pending') : pending'[j] = pending'[i] => j = i
      BY <2>1, <2>2, <2>4 DEF NoRepeats
    <3>7. QED
      BY <3>1, <3>2, <3>4, <3>5, <3>6
  <2>6. Len(pending') > Len(pending)
    BY <2>1, <2>2
  <2>7. QED
    BY <1>2, <1>3, <2>2, <2>5, <2>6 DEF Ledger!Accept
<1>6. QED
  BY <1>4, <1>5

\* A tick that takes a mission up, or goes on serving it, without ending it.
LEMMA ServeLedger ==
  ASSUME IInv, IF needsStart THEN HasWork ELSE active # NoMission,
         active' = Served, pending' = Waiting, Outcome' = Outcome
  PROVE  Idle \/ Ledger!Begin
<1>1. /\ active = NoMission => pending # <<>> /\ Served = Head(pending) /\ Waiting = Tail(pending)
      /\ active # NoMission => Served = active /\ Waiting = pending
  BY ServedType DEF IInv
<1>2. QED
  BY <1>1 DEF Idle, Ledger!Begin

\* The two ways a tick reports the mission it serves without ending it.
LEMMA ServedOutcome ==
  ASSUME IInv, IF needsStart THEN HasWork ELSE active # NoMission, autoState = "active"
  PROVE  /\ Emit(StartEvent) => Outcome' = Outcome
         /\ Emit(<<Ev(Served, "blocked")>>) => Outcome' = Outcome
         /\ Emit(StartEvent \o <<Ev(Served, "blocked")>>) => Outcome' = Outcome
<1>1. Served \in MissionIds /\ last[Served] \notin Ended
  BY ServedType, WaitingQueue DEF IInv, Ended
<1>2. "active" \in Statuses \ Ended /\ "blocked" \in Statuses \ Ended
  BY DEF Statuses, Ended
<1>3. ASSUME Emit(StartEvent) PROVE Outcome' = Outcome
  <2>1. last' = IF needsStart THEN [last EXCEPT ![Served] = "active"] ELSE last
    BY <1>1, <1>3, EmitStart DEF IInv
  <2>2. CASE needsStart
    BY <1>1, <1>2, <2>1, <2>2, OutcomeKept DEF IInv
  <2>3. CASE ~needsStart
    BY <2>1, <2>3 DEF Outcome
  <2>4. QED
    BY <2>2, <2>3
<1>4. ASSUME Emit(<<Ev(Served, "blocked")>>) PROVE Outcome' = Outcome
  <2>1. last' = [last EXCEPT ![Served] = "blocked"]
    BY <1>1, <1>2, <1>4, EmitSingle DEF IInv
  <2>2. QED
    BY <1>1, <1>2, <2>1, OutcomeKept DEF IInv
<1>5. ASSUME Emit(StartEvent \o <<Ev(Served, "blocked")>>) PROVE Outcome' = Outcome
  <2>1. last' = [last EXCEPT ![Served] = "blocked"]
    BY <1>1, <1>2, <1>5, EmitAfterStart DEF IInv
  <2>2. QED
    BY <1>1, <1>2, <2>1, OutcomeKept DEF IInv
<1>6. QED
  BY <1>3, <1>4, <1>5

\* The last subgoal is reached: the mission ends, and was being served or was
\* the oldest waiting one.
LEMMA ReachedLedger == ASSUME IInv, TickReached PROVE Ledger!Finish
<1>1. /\ IF needsStart THEN HasWork ELSE active # NoMission
      /\ active' = NoMission /\ pending' = Waiting
      /\ Emit(StartEvent \o <<Ev(Served, "reached")>>)
  BY DEF TickReached, Serving
<1>2. /\ Served \in MissionIds
      /\ active = NoMission => pending # <<>> /\ Served = Head(pending) /\ Waiting = Tail(pending)
      /\ active # NoMission => Served = active /\ Waiting = pending
  BY <1>1, ServedType DEF IInv
<1>3. last' = [last EXCEPT ![Served] = "reached"]
  BY <1>1, <1>2, EmitAfterStart DEF IInv, Statuses
<1>4. Outcome' = [Outcome EXCEPT ![Served] = "reached"]
  <2>1. \A x \in MissionIds : last'[x] = IF x = Served THEN "reached" ELSE last[x]
    BY <1>2, <1>3 DEF IInv, TypeOK, LogType
  <2>2. \A x \in MissionIds :
          (IF last'[x] \in {"reached", "cancelled"} THEN last'[x] ELSE "open")
          = IF x = Served THEN "reached"
              ELSE IF last[x] \in {"reached", "cancelled"} THEN last[x] ELSE "open"
    BY <2>1
  <2>3. QED
    BY <1>2, <2>2 DEF Outcome
<1>5. QED
  BY <1>1, <1>2, <1>4 DEF Ledger!Finish

\* cancel_all abandons everything held, or nothing is held.
LEMMA CancelLedger == ASSUME IInv, CancelAll PROVE Idle \/ Ledger!Abandon
<1> DEFINE missions == (IF active = NoMission THEN <<>> ELSE <<active>>) \o pending
<1>1. /\ missions \in Seq(MissionIds) /\ NoRepeats(missions)
      /\ \A m \in MissionIds : Listed(missions, m) <=> m = active \/ Listed(pending, m)
  BY HeldMissions
<1>2. Emit([i \in 1..Len(missions) |-> Ev(missions[i], "cancelled")])
  BY DEF CancelAll
<1> HIDE DEF missions
<1>3. last' = [m \in MissionIds |-> IF Listed(missions, m) THEN "cancelled" ELSE last[m]]
  <2>1. last \in [MissionIds -> Statuses \cup {"none"}] /\ "cancelled" \in Statuses
    BY DEF IInv, TypeOK, LogType, Statuses
  <2>2. \A i, j \in DOMAIN missions : missions[i] = missions[j] => i = j
    BY <1>1 DEF NoRepeats
  <2>3. QED
    BY <1>1, <1>2, <2>1, <2>2, EmitEach DEF Listed
<1>4. \A m \in MissionIds : Listed(missions, m) <=> m \in Ledger!Held
  BY <1>1, HeldListed
<1>5. Outcome' = [m \in MissionIds |-> IF m \in Ledger!Held THEN "cancelled" ELSE Outcome[m]]
  <2>1. \A m \in MissionIds :
          (IF last'[m] \in {"reached", "cancelled"} THEN last'[m] ELSE "open")
          = IF m \in Ledger!Held THEN "cancelled"
              ELSE IF last[m] \in {"reached", "cancelled"} THEN last[m] ELSE "open"
    BY <1>3, <1>4
  <2>2. QED
    BY <2>1 DEF Outcome
<1>6. active' = NoMission /\ pending' = <<>>
  BY DEF CancelAll
<1>7. CASE Ledger!Held = {}
  <2>1. active = NoMission
    BY <1>7 DEF Ledger!Held
  <2>2. pending = <<>>
    <3>1. DOMAIN pending = {} /\ pending \in Seq(MissionIds)
      <4>1. ASSUME NEW i \in DOMAIN pending PROVE FALSE
        <5>1. pending[i] \in {pending[k] : k \in DOMAIN pending}
          BY <4>1
        <5>2. QED
          BY <1>7, <5>1 DEF Ledger!Held
      <4>2. QED
        BY <4>1 DEF IInv, TypeOK, MissionType
    <3>2. DOMAIN pending = 1..Len(pending) /\ Len(pending) \in Nat
      BY <3>1
    <3>3. Len(pending) = 0
      BY <3>1, <3>2
    <3>4. QED
      BY <3>1, <3>3, EmptySeq
  <2>3. Outcome' = Outcome
    BY <1>5, <1>7 DEF Outcome
  <2>4. QED
    BY <1>6, <2>1, <2>2, <2>3 DEF Idle
<1>8. CASE Ledger!Held # {}
  BY <1>5, <1>6, <1>8 DEF Ledger!Abandon
<1>9. QED
  BY <1>7, <1>8

\* Every handler and every tick is a step of the ledger, or none.
LEMMA NextLedger == ASSUME IInv, [Next]_vars PROVE Idle \/ Ledger!Next
<1>1. CASE UNCHANGED vars
  BY <1>1 DEF vars, missionVars, logVars, Idle, Outcome
<1>2. CASE Command
  <2>1. CASE StopMotion \/ Pause \/ Disconnect
    <3>1. FreezeOrPause(TRUE) \/ Emit(<<>>)
      BY <2>1 DEF StopMotion, Pause, Disconnect, FreezeOrPause
    <3>2. active' = active /\ pending' = pending
      BY <2>1 DEF StopMotion, Pause, Disconnect, missionVars
    <3>3. QED
      BY <3>1, <3>2, IdleQuiet, IdleFreeze
  <2>2. CASE SwitchToManual
    BY <2>2, IdleQuiet, IdlePause DEF SwitchToManual, missionVars
  <2>3. CASE SwitchToAuto \/ ManualDrive \/ ManualStop \/ Resume
    BY <2>3, IdleQuiet DEF SwitchToAuto, ManualDrive, ManualStop, Resume, missionVars
  <2>4. ASSUME NEW definition \in Batches, NEW fresh \in Orders(DOMAIN definition),
               Push(definition, fresh)
        PROVE  Idle \/ Ledger!Next
    BY <2>4, PushLedger DEF Ledger!Next
  <2>5. CASE CancelAll
    BY <2>5, CancelLedger DEF Ledger!Next
  <2>6. QED
    BY <1>2, <2>1, <2>2, <2>3, <2>4, <2>5 DEF Command
<1>3. CASE Tick
  <2>1. CASE TickManual \/ TickHeld \/ TickVacate
    BY <2>1, IdleQuiet DEF TickManual, TickHeld, TickVacate, missionVars
  <2>2. CASE StartFails \/ TickDrive \/ TickBlocked \/ TickNextSubgoal
    <3>1. /\ IF needsStart THEN HasWork ELSE active # NoMission
          /\ autoState = "active" /\ active' = Served /\ pending' = Waiting
          /\ \/ Emit(StartEvent)
             \/ Emit(<<Ev(Served, "blocked")>>)
             \/ Emit(StartEvent \o <<Ev(Served, "blocked")>>)
      BY <2>2 DEF StartFails, TickDrive, TickBlocked, TickNextSubgoal, Working, Serving
    <3>2. Outcome' = Outcome
      BY <3>1, ServedOutcome
    <3>3. QED
      BY <3>1, <3>2, ServeLedger DEF Ledger!Next
  <2>3. CASE TickReached
    BY <2>3, ReachedLedger DEF Ledger!Next
  <2>4. QED
    BY <1>3, <2>1, <2>2, <2>3 DEF Tick
<1>4. CASE Time
  BY <1>4, IdleQuiet DEF Time, Advance, missionVars
<1>5. QED
  BY <1>1, <1>2, <1>3, <1>4 DEF Next

\* The controller implements the ledger it promises its clients: missions are
\* accepted once, wait in order, are served one at a time and end exactly once,
\* whatever commands, mode switches, disconnects and ticks come in between.
THEOREM ImplementsTheLedger == Spec => ImplementsLedger
<1>1. Init => Ledger!Init
  BY DEF Init, Ledger!Init, Outcome
<1>2. IInv /\ [Next]_vars => [Ledger!Next]_Ledger!ledgerVars
  BY NextLedger DEF Idle, Ledger!ledgerVars
<1>3. QED
  BY <1>1, <1>2, Invariance, PTL DEF Spec, ImplementsLedger, Ledger!Spec
=============================================================================
