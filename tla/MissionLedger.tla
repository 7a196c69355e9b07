---------------------------- MODULE MissionLedger ----------------------------
(****************************************************************************)
(* What the mission bookkeeping of RobotController promises its clients,    *)
(* without modes, ticks, navigation or events: missions are accepted once,  *)
(* wait in order, are served one at a time, and end exactly once.           *)
(****************************************************************************)
EXTENDS Naturals, Sequences

CONSTANTS MissionIds, NoMission

VARIABLES
  queue,    \* missions waiting, oldest first
  current,  \* the mission being served, or NoMission
  outcome   \* how each mission ended: "open" until then

ledgerVars == <<queue, current, outcome>>

\* Missions that have been accepted and have not ended.
Held == {queue[i] : i \in DOMAIN queue} \cup ({current} \ {NoMission})

Init ==
  /\ queue = <<>> /\ current = NoMission
  /\ outcome = [m \in MissionIds |-> "open"]

\* Accept new missions, none of which is held or has ended.
Accept ==
  /\ Len(queue') > Len(queue)
  /\ \A i \in 1..Len(queue) : queue'[i] = queue[i]
  /\ \A i \in (Len(queue) + 1)..Len(queue') :
       /\ queue'[i] \in MissionIds \ Held
       /\ outcome[queue'[i]] = "open"
       /\ \A j \in 1..Len(queue') : queue'[j] = queue'[i] => j = i
  /\ UNCHANGED <<current, outcome>>

\* Begin the oldest waiting mission.
Begin ==
  /\ current = NoMission /\ queue # <<>>
  /\ current' = Head(queue) /\ queue' = Tail(queue)
  /\ UNCHANGED outcome

\* Finish the mission being served, or the oldest waiting one if none is.
Finish ==
  /\ \/ current # NoMission /\ queue' = queue
        /\ outcome' = [outcome EXCEPT ![current] = "reached"]
     \/ current = NoMission /\ queue # <<>> /\ queue' = Tail(queue)
        /\ outcome' = [outcome EXCEPT ![Head(queue)] = "reached"]
  /\ current' = NoMission

\* Drop everything held.
Abandon ==
  /\ Held # {}
  /\ queue' = <<>> /\ current' = NoMission
  /\ outcome' = [m \in MissionIds |-> IF m \in Held THEN "cancelled" ELSE outcome[m]]

Next == Accept \/ Begin \/ Finish \/ Abandon

Spec == Init /\ [][Next]_ledgerVars
=============================================================================
