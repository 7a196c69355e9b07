------------------------------ MODULE FleetSession ------------------------------
(****************************************************************************)
(* One vehicle endpoint of the fleet server: fleet.fleet_handler (one       *)
(* coroutine per connection, the exclusive lease, the event cursor, the     *)
(* frame cursor) beside the fleet loop that ticks the controller and fills  *)
(* the telemetry ring.  Every message the handler awaits is a step, so      *)
(* ticks fall between any two of them.                                      *)
(*                                                                          *)
(* Abstractions.  An event is its event_seq, a frame (a pose and the scan   *)
(* that goes with it) its sequence number.  Of the controller only what a   *)
(* session can see is kept: the events it appends and on whose command the  *)
(* vehicle moves (RobotController models the rest).  A second connection    *)
(* is told vehicle_busy and changes nothing, so it has no action.           *)
(****************************************************************************)
EXTENDS Integers, Sequences

CONSTANTS
  Clients,
  NoClient,
  BufferFrames,  \* TELEMETRY_BUFFER_FRAMES
  MaxFrames,     \* bound: sequence number of the last frame sampled
  MaxEvents,     \* bound: events in the ledger
  MaxCommands,   \* bound: largest command seq
  MaxSessions    \* bound: connections accepted

ASSUME ClientAssumption == NoClient \notin Clients
ASSUME SessionBounds ==
  /\ BufferFrames \in Nat \ {0}
  /\ MaxFrames \in Nat /\ MaxEvents \in Nat
  /\ MaxCommands \in Nat /\ MaxSessions \in Nat

VARIABLES
  latest,     \* sequence of the newest frame in RobotNode._frames
  ledger,     \* RobotController.latest_event_seq
  owner,      \* who holds controller_lease
  mover,      \* on whose command the vehicle moves, NoClient if it rests
  pc,         \* what the handler does when outbox is empty
  outbox,     \* messages of the current block, still to be sent
  batch,      \* frames of pending_frames still to be sent
  cursor,     \* event_cursor
  sentFrame,  \* sent_frame_sequence
  lastSeq,    \* last_command_sequence, 0 if None
  heard,      \* client side: newest event, frame and ack heard in this session
  orderly,    \* client side: nothing arrived out of turn so far
  owed,       \* history: events of the command whose ack is not sent yet
  sessions    \* bound: connections accepted so far

worldVars   == <<latest, ledger, mover>>
handlerVars == <<owner, pc, outbox, batch, cursor, sentFrame, lastSeq, sessions>>
clientVars  == <<heard, orderly, owed>>
vars == <<worldVars, handlerVars, clientVars>>

Message == [kind : {"hello", "event", "chunks", "frame", "ack", "error"}, n : Nat]
Msg(kind, n) == [kind |-> kind, n |-> n]

TypeOK ==
  /\ latest \in 0..MaxFrames /\ ledger \in 0..MaxEvents
  /\ owner \in Clients \cup {NoClient} /\ mover \in Clients \cup {NoClient}
  /\ pc \in {"none", "replay", "chunks", "first", "poll", "frame", "frameEvents",
             "sent", "recv", "events", "end"}
  /\ outbox \in Seq(Message)
  /\ batch \in Seq(1..MaxFrames)
  /\ cursor \in 0..ledger /\ sentFrame \in 0..latest
  /\ lastSeq \in 0..MaxCommands
  /\ heard \in [event : 0..ledger, frame : -1..latest, ack : 0..MaxCommands]
  /\ orderly \in BOOLEAN
  /\ owed \subseteq 1..ledger
  /\ sessions \in 0..MaxSessions

Init ==
  /\ latest = 0 /\ ledger = 0 /\ mover = NoClient
  /\ owner = NoClient /\ pc = "none" /\ outbox = <<>> /\ batch = <<>>
  /\ cursor = 0 /\ sentFrame = 0 /\ lastSeq = 0 /\ sessions = 0
  /\ heard = [event |-> 0, frame |-> -1, ack |-> 0]
  /\ orderly = TRUE /\ owed = {}

----------------------------------------------------------------------------
(* The fleet loop. *)

\* Bound: no tick after frame MaxFrames, which is not sampled while a session is
\* still being greeted, so that every session that needs a later frame gets one.
TickBound(frames) ==
  /\ latest < MaxFrames
  /\ latest + frames = MaxFrames => pc \notin {"replay", "chunks", "first"}

\* FleetRuntime.tick: the controller may append an event, and the scan that is
\* due, if one is, is sampled after the controller ran.
Tick(events, frames) ==
  /\ TickBound(frames)
  /\ ledger + events <= MaxEvents
  /\ ledger' = ledger + events
  /\ latest' = latest + frames
  /\ UNCHANGED <<mover, handlerVars, clientVars>>

\* The oldest frame the ring still holds.
Oldest == IF latest < BufferFrames THEN 0 ELSE latest - BufferFrames + 1

----------------------------------------------------------------------------
(* The handler, from connection to `finally'. *)

\* The lease is free (no await between the test and the acquisition).
Connect(c) ==
  /\ owner = NoClient /\ sessions < MaxSessions
  /\ owner' = c /\ sessions' = sessions + 1
  /\ outbox' = <<Msg("hello", 0)>> /\ pc' = "replay"
  /\ batch' = <<>> /\ cursor' = 0 /\ sentFrame' = 0 /\ lastSeq' = 0
  /\ heard' = [event |-> 0, frame |-> -1, ack |-> 0]
  /\ orderly' = TRUE /\ owed' = {}
  /\ UNCHANGED worldVars

\* What the client makes of a message: events and frames must follow one
\* another without a gap, and an ack comes before the events it announces.
InTurn(m) ==
  CASE m.kind = "event" -> m.n = heard.event + 1 /\ m.n \notin owed
    [] m.kind = "frame" -> heard.frame \in {-1, m.n - 1}
    [] m.kind = "ack"   -> m.n > heard.ack
    [] OTHER            -> TRUE

\* One awaited send returns.
Send ==
  /\ owner # NoClient /\ outbox # <<>>
  /\ LET m == Head(outbox)
     IN  /\ cursor' = IF m.kind = "event" THEN m.n ELSE cursor
         /\ heard' = IF m.kind \in {"event", "frame", "ack"}
                       THEN [heard EXCEPT ![m.kind] = m.n] ELSE heard
         /\ orderly' = (orderly /\ InTurn(m))
         /\ owed' = IF m.kind = "ack" THEN {} ELSE owed
  /\ outbox' = Tail(outbox)
  /\ UNCHANGED <<worldVars, owner, pc, batch, sentFrame, lastSeq, sessions>>

\* events_after: a snapshot of the ledger behind the cursor.
EventsAfter(seq) == [i \in 1..(ledger - seq) |-> Msg("event", seq + i)]

\* The handler reaches `from' with nothing left to send and starts `block'.
Go(from, to, block) ==
  /\ owner # NoClient /\ outbox = <<>> /\ pc = from
  /\ pc' = to /\ outbox' = block
  /\ UNCHANGED <<worldVars, owner, cursor, lastSeq, sessions, clientVars>>

Replay == Go("replay", "chunks", EventsAfter(0)) /\ UNCHANGED <<batch, sentFrame>>
Chunks == Go("chunks", "first", <<Msg("chunks", 0)>>) /\ UNCHANGED <<batch, sentFrame>>

\* telemetry_messages(vehicle_id): the newest frame, whatever came before it.
First ==
  /\ Go("first", "poll", <<Msg("frame", latest)>>)
  /\ sentFrame' = latest
  /\ UNCHANGED batch

\* Mutant of Poll: a full ring drops the oldest frames without a word.
PollSilent ==
  LET start == IF sentFrame < Oldest - 1 THEN Oldest - 1 ELSE sentFrame
  IN  /\ Go("poll", "frame", <<>>)
      /\ batch' = [i \in 1..(latest - start) |-> start + i]
      /\ UNCHANGED sentFrame

\* frames_after: what the client has not seen, or an explicit overflow.
Poll ==
  IF sentFrame < Oldest - 1
    THEN Go("poll", "end", <<Msg("error", 0)>>) /\ UNCHANGED <<batch, sentFrame>>
    ELSE /\ Go("poll", "frame", <<>>)
         /\ batch' = [i \in 1..(latest - sentFrame) |-> sentFrame + i]
         /\ UNCHANGED sentFrame

SendFrame ==
  /\ batch # <<>>
  /\ Go("frame", "frameEvents", <<Msg("frame", Head(batch))>>)
  /\ UNCHANGED <<batch, sentFrame>>

\* Mutant of FrameEvents: events wait for a command.
NoFrameEvents == Go("frameEvents", "sent", <<>>) /\ UNCHANGED <<batch, sentFrame>>

\* What the ledger gained is sent after each frame.
FrameEvents ==
  Go("frameEvents", "sent", EventsAfter(cursor)) /\ UNCHANGED <<batch, sentFrame>>

\* Mutant of FrameSent: the cursor runs one frame ahead.
FrameSentAhead ==
  /\ Go("sent", "frame", <<>>)
  /\ sentFrame' = Head(batch) + 1 /\ batch' = Tail(batch)

\* The frame counts as sent once the events behind it are.
FrameSent ==
  /\ Go("sent", "frame", <<>>)
  /\ sentFrame' = Head(batch) /\ batch' = Tail(batch)

\* recv waits for a command for a while, then looks for frames again.
Wait == batch = <<>> /\ Go("frame", "recv", <<>>) /\ UNCHANGED <<batch, sentFrame>>
Timeout == Go("recv", "poll", <<>>) /\ UNCHANGED <<batch, sentFrame>>

\* A well-formed command with a fresh seq: handle_command, then its ack.  It
\* may append an event and start or stop the vehicle.
Command(seq, events, to) ==
  /\ owner # NoClient /\ pc = "recv"
  /\ seq > lastSeq
  /\ ledger + events <= MaxEvents
  /\ lastSeq' = seq
  /\ mover' = to
  /\ ledger' = ledger + events
  /\ owed' = (ledger + 1)..(ledger + events)
  /\ outbox' = <<Msg("ack", seq)>> /\ pc' = "events"
  /\ UNCHANGED <<latest, owner, batch, cursor, sentFrame, sessions, heard, orderly>>

\* A malformed command or a seq that does not increase: fail_safe_stop, which
\* may report the mission paused, then the error.
Reject(events) ==
  /\ owner # NoClient /\ pc = "recv"
  /\ ledger + events <= MaxEvents
  /\ mover' = NoClient
  /\ ledger' = ledger + events
  /\ outbox' = <<Msg("error", 0)>> /\ pc' = "events"
  /\ UNCHANGED <<latest, owner, batch, cursor, sentFrame, lastSeq, sessions, clientVars>>

CommandEvents == Go("events", "poll", EventsAfter(cursor)) /\ UNCHANGED <<batch, sentFrame>>

\* Mutant of Finish: the lease is released, the vehicle drives on.
FinishDriving(events) ==
  /\ owner # NoClient
  /\ ledger + events <= MaxEvents
  /\ ledger' = ledger + events
  /\ owner' = NoClient /\ pc' = "none" /\ outbox' = <<>> /\ batch' = <<>>
  /\ UNCHANGED <<latest, mover, cursor, sentFrame, lastSeq, sessions, clientVars>>

\* The `finally' clause, after an overflow, a failed send or recv, or the end
\* of the connection: the vehicle is stopped before the lease is released.
Finish(events) ==
  /\ owner # NoClient
  /\ ledger + events <= MaxEvents
  /\ ledger' = ledger + events
  /\ mover' = NoClient
  /\ owner' = NoClient /\ pc' = "none" /\ outbox' = <<>> /\ batch' = <<>>
  /\ UNCHANGED <<latest, cursor, sentFrame, lastSeq, sessions, clientVars>>

Overflowed(events) == pc = "end" /\ outbox = <<>> /\ Finish(events)

----------------------------------------------------------------------------
HandlerStep ==
  \/ Send \/ Replay \/ Chunks \/ First \/ Poll \/ SendFrame
  \/ FrameEvents \/ FrameSent \/ Wait \/ Timeout \/ CommandEvents
  \/ Overflowed(0)

ClientStep ==
  \/ \E c \in Clients : Connect(c)
  \/ \E seq \in 1..MaxCommands, events \in 0..1, to \in {owner, mover, NoClient} :
       Command(seq, events, to)
  \/ \E events \in 0..1 : Reject(events) \/ Finish(events)

FleetStep == \E events \in 0..1, frames \in 0..1 : Tick(events, frames)

Next == HandlerStep \/ ClientStep \/ FleetStep
Spec == Init /\ [][Next]_vars

\* The handler's coroutine is scheduled, and the fleet loop samples scans.
FairSpec ==
  /\ Spec
  /\ WF_vars(HandlerStep)
  /\ WF_vars(\E events \in 0..1 : Tick(events, 1))

----------------------------------------------------------------------------
(* Properties. *)

\* In one session events arrive as 1, 2, 3, ..., frames without a gap (or an
\* overflow error ends the session), acks with increasing seq, and no event
\* arrives before the ack of the command that caused it.
ArrivesInTurn == orderly

\* The vehicle never moves on the command of a client that no longer holds, or
\* never held, the lease.
NoOrphanMotion == mover \in {owner, NoClient}

\* The endpoint implements the event feed the protocol document promises,
\* including that an open session hears every event or ends.
Feed == INSTANCE EventFeed WITH online <- (owner # NoClient), heard <- heard.event
ImplementsFeed == Feed!Spec
=============================================================================
