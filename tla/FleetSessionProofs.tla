--------------------------- MODULE FleetSessionProofs ---------------------------
(***************************************************************************)
(* What an endpoint sends arrives in turn, and nobody but the holder of    *)
(* the lease moves the vehicle, for any number of clients, frames, events  *)
(* and commands; and the endpoint implements the safety part of EventFeed. *)
(***************************************************************************)
EXTENDS FleetSession, SequenceTheorems, TLAPS

\* The k events behind number n, and the k frames behind it.
Events(n, k) == [i \in 1..k |-> Msg("event", n + i)]
Frames(n, k) == [i \in 1..k |-> n + i]

(***************************************************************************)
(* The inductive invariant: what may still be in the outbox and in the     *)
(* batch, and what the client has heard, wherever the handler is.          *)
(***************************************************************************)
\* The outbox holds nothing, or this one message.
AtMost(m) == outbox \in {<<>>, <<m>>}
OnlyEvents == \E k \in 0..(ledger - cursor) : outbox = Events(cursor, k)
BatchFollows == \E k \in 0..(latest - sentFrame) : batch = Frames(sentFrame, k)

Greeted == heard.frame = sentFrame

AtPoll ==
  \/ outbox = <<Msg("frame", sentFrame)>> /\ heard.frame = -1
  \/ OnlyEvents /\ Greeted

AtFrameEvents ==
  /\ batch # <<>> /\ BatchFollows
  /\ \/ outbox = <<Msg("frame", Head(batch))>> /\ Greeted
     \/ outbox = <<>> /\ heard.frame = Head(batch)

AtEvents ==
  /\ Greeted
  /\ \/ outbox = <<Msg("ack", lastSeq)>> /\ heard.ack < lastSeq
     \/ AtMost(Msg("error", 0)) /\ owed = {}

Conversation ==
  /\ pc = "replay" => AtMost(Msg("hello", 0)) /\ cursor = 0 /\ heard.frame = -1
  /\ pc = "chunks" => OnlyEvents /\ heard.frame = -1
  /\ pc = "first" => AtMost(Msg("chunks", 0)) /\ heard.frame = -1
  /\ pc = "poll" => AtPoll
  /\ pc = "frame" => outbox = <<>> /\ Greeted /\ BatchFollows
  /\ pc = "frameEvents" => AtFrameEvents
  /\ pc = "sent" => OnlyEvents /\ batch # <<>> /\ BatchFollows /\ heard.frame = Head(batch)
  /\ pc = "recv" => outbox = <<>> /\ Greeted
  /\ pc = "events" => AtEvents
  /\ pc = "end" => AtMost(Msg("error", 0))
  /\ pc = "none" => outbox = <<>>

IInv ==
  /\ TypeOK
  /\ orderly
  /\ NoOrphanMotion
  /\ heard.event = cursor
  /\ heard.ack <= lastSeq
  /\ owner = NoClient <=> pc = "none"
  /\ pc # "none" /\ pc # "events" => owed = {}
  /\ pc # "none" => Conversation

(***************************************************************************)
(* Blocks of messages.                                                     *)
(***************************************************************************)
LEMMA EventsType ==
  ASSUME NEW n \in Nat, NEW k \in Nat
  PROVE  /\ Events(n, k) \in Seq(Message) /\ Len(Events(n, k)) = k
         /\ \A i \in 1..k : Events(n, k)[i] = Msg("event", n + i)
<1>1. \A i \in 1..k : Msg("event", n + i) \in Message
  BY DEF Msg, Message
<1> QED
  BY <1>1 DEF Events

\* The first of a block of events, and the rest of it.
LEMMA EventsShift ==
  ASSUME NEW n \in Nat, NEW k \in Nat
  PROVE  /\ Events(n, k) \in Seq(Message)
         /\ (k = 0) <=> (Events(n, k) = <<>>)
         /\ k > 0 => /\ Head(Events(n, k)) = Msg("event", n + 1)
                     /\ Tail(Events(n, k)) = Events(n + 1, k - 1)
<1> DEFINE s == Events(n, k)
<1>1. s \in Seq(Message) /\ Len(s) = k /\ \A i \in 1..k : s[i] = Msg("event", n + i)
  BY EventsType
<1> HIDE DEF s
<1>2. (k = 0) <=> (s = <<>>)
  BY <1>1, EmptySeq
<1>3. ASSUME k > 0
      PROVE  Head(s) = Msg("event", n + 1) /\ Tail(s) = Events(n + 1, k - 1)
  <2>1. s # <<>> /\ k - 1 \in Nat /\ n + 1 \in Nat
    BY <1>2, <1>3
  <2>2. Head(s) = Msg("event", n + 1)
    BY <1>1, <1>3, <2>1
  <2>3. /\ Tail(s) \in Seq(Message) /\ Len(Tail(s)) = k - 1
        /\ \A i \in 1..(k - 1) : Tail(s)[i] = s[i + 1]
    BY <1>1, <2>1, HeadTailProperties
  <2>4. \A i \in 1..(k - 1) : Tail(s)[i] = Msg("event", (n + 1) + i)
    <3> TAKE i \in 1..(k - 1)
    <3>1. i + 1 \in 1..k /\ n + (i + 1) = (n + 1) + i
      BY <2>1
    <3> QED
      BY <1>1, <2>3, <3>1
  <2>5. /\ Events(n + 1, k - 1) \in Seq(Message) /\ Len(Events(n + 1, k - 1)) = k - 1
        /\ \A i \in 1..(k - 1) : Events(n + 1, k - 1)[i] = Msg("event", (n + 1) + i)
    BY <2>1, EventsType
  <2>6. Tail(s) = Events(n + 1, k - 1)
    BY <2>3, <2>4, <2>5, SeqEqual
  <2> QED
    BY <2>2, <2>6
<1> QED
  BY <1>1, <1>2, <1>3 DEF s

\* A block of frames is numbered without a gap.
LEMMA FramesType ==
  ASSUME NEW n \in Nat, NEW k \in Nat
  PROVE  /\ Frames(n, k) \in Seq(Nat) /\ Len(Frames(n, k)) = k
         /\ \A i \in 1..k : Frames(n, k)[i] = n + i
         /\ \A m \in Nat : n + k <= m => Frames(n, k) \in Seq(1..m)
<1>1. ASSUME NEW m \in Nat, n + k <= m PROVE Frames(n, k) \in Seq(1..m)
  <2>1. \A i \in 1..k : n + i \in 1..m
    BY <1>1
  <2> QED
    BY <2>1 DEF Frames
<1> QED
  BY <1>1 DEF Frames

\* The first of a block of frames, and the rest of it.
LEMMA FramesShift ==
  ASSUME NEW n \in Nat, NEW k \in Nat
  PROVE  /\ (k = 0) <=> (Frames(n, k) = <<>>)
         /\ k > 0 => Head(Frames(n, k)) = n + 1 /\ Tail(Frames(n, k)) = Frames(n + 1, k - 1)
<1> DEFINE s == Frames(n, k)
<1>1. s \in Seq(Nat) /\ Len(s) = k /\ \A i \in 1..k : s[i] = n + i
  BY FramesType
<1> HIDE DEF s
<1>2. (k = 0) <=> (s = <<>>)
  BY <1>1, EmptySeq
<1>3. ASSUME k > 0
      PROVE  Head(s) = n + 1 /\ Tail(s) = Frames(n + 1, k - 1)
  <2>1. s # <<>> /\ k - 1 \in Nat /\ n + 1 \in Nat
    BY <1>2, <1>3
  <2>2. Head(s) = n + 1
    BY <1>1, <1>3, <2>1
  <2>3. /\ Tail(s) \in Seq(Nat) /\ Len(Tail(s)) = k - 1
        /\ \A i \in 1..(k - 1) : Tail(s)[i] = s[i + 1]
    BY <1>1, <2>1, HeadTailProperties
  <2>4. \A i \in 1..(k - 1) : Tail(s)[i] = (n + 1) + i
    <3> TAKE i \in 1..(k - 1)
    <3>1. i + 1 \in 1..k /\ n + (i + 1) = (n + 1) + i
      BY <2>1
    <3> QED
      BY <1>1, <2>3, <3>1
  <2>5. /\ Frames(n + 1, k - 1) \in Seq(Nat) /\ Len(Frames(n + 1, k - 1)) = k - 1
        /\ \A i \in 1..(k - 1) : Frames(n + 1, k - 1)[i] = (n + 1) + i
    BY <2>1, FramesType
  <2>6. Tail(s) = Frames(n + 1, k - 1)
    <3> DEFINE r == Tail(s)
               f == Frames(n + 1, k - 1)
    <3>1. r \in Seq(Nat) /\ f \in Seq(Nat) /\ Len(r) = Len(f) /\ \A i \in 1..Len(r) : r[i] = f[i]
      BY <2>3, <2>4, <2>5
    <3> HIDE DEF r, f
    <3>2. r = f
      BY <3>1, SeqEqual, Zenon
    <3> QED
      BY <3>2 DEF r, f
  <2> QED
    BY <2>2, <2>6
<1> QED
  BY <1>1, <1>2, <1>3 DEF s

\* A block of one message, and what sending it leaves.
LEMMA OneMessage ==
  ASSUME NEW kind \in {"hello", "event", "chunks", "frame", "ack", "error"}, NEW n \in Nat
  PROVE  /\ Msg(kind, n) \in Message /\ Msg(kind, n).kind = kind /\ Msg(kind, n).n = n
         /\ <<Msg(kind, n)>> \in Seq(Message) /\ <<Msg(kind, n)>> # <<>>
         /\ Head(<<Msg(kind, n)>>) = Msg(kind, n) /\ Tail(<<Msg(kind, n)>>) = <<>>
BY DEF Msg, Message

(***************************************************************************)
(* What one send does, by the kind of the message.                         *)
(***************************************************************************)
LEMMA SendQuiet ==
  ASSUME Send, NEW kind \in {"hello", "chunks", "error"}, outbox = <<Msg(kind, 0)>>
  PROVE  UNCHANGED <<cursor, heard, owed>> /\ outbox' = <<>> /\ (orderly => orderly')
<1>1. Head(outbox).kind = kind /\ outbox' = <<>>
  BY OneMessage DEF Send
<1>2. kind \notin {"event", "frame", "ack"}
  OBVIOUS
<1>3. InTurn(Head(outbox))
  BY <1>1, <1>2 DEF InTurn
<1>4. orderly => orderly'
  BY <1>3, Zenon DEF Send
<1> QED
  BY <1>1, <1>2, <1>4 DEF Send

\* Sending the event that is due moves the cursor and the client on by one.
LEMMA SendEvent ==
  ASSUME IInv, Send, owed = {}, NEW k \in 1..(ledger - cursor), outbox = Events(cursor, k)
  PROVE  /\ cursor' = cursor + 1 /\ outbox' = Events(cursor + 1, k - 1)
         /\ heard' = [heard EXCEPT !.event = cursor + 1]
         /\ orderly' /\ owed' = {}
<1>0. cursor \in Nat /\ k \in Nat /\ k > 0 /\ heard.event = cursor /\ orderly
  BY DEF IInv, TypeOK
<1>1. Head(outbox) = Msg("event", cursor + 1) /\ outbox' = Events(cursor + 1, k - 1)
  BY <1>0, EventsShift DEF Send
<1>2. Head(outbox).kind = "event" /\ Head(outbox).n = cursor + 1
  BY <1>1 DEF Msg
<1>3. InTurn(Head(outbox))
  BY <1>0, <1>2 DEF InTurn
<1>4. orderly'
  BY <1>0, <1>3, Zenon DEF Send
<1> QED
  BY <1>1, <1>2, <1>4 DEF Send

\* A client that gets its first frame, or the next one, is in order.
LEMMA SendFrameMessage ==
  ASSUME IInv, Send, NEW n \in Nat, outbox = <<Msg("frame", n)>>, heard.frame \in {-1, n - 1}
  PROVE  /\ heard' = [heard EXCEPT !.frame = n] /\ outbox' = <<>>
         /\ orderly' /\ owed' = owed /\ cursor' = cursor
<1>1. Head(outbox).kind = "frame" /\ Head(outbox).n = n /\ outbox' = <<>>
  BY OneMessage DEF Send
<1>2. InTurn(Head(outbox))
  BY <1>1 DEF InTurn
<1>3. orderly'
  BY <1>2, Zenon DEF Send, IInv
<1> QED
  BY <1>1, <1>3 DEF Send

\* An ack pays what was owed.
LEMMA SendAck ==
  ASSUME IInv, Send, NEW n \in Nat, outbox = <<Msg("ack", n)>>, heard.ack < n
  PROVE  /\ heard' = [heard EXCEPT !.ack = n] /\ outbox' = <<>>
         /\ orderly' /\ owed' = {} /\ cursor' = cursor
<1>1. Head(outbox).kind = "ack" /\ Head(outbox).n = n /\ outbox' = <<>>
  BY OneMessage DEF Send
<1>2. InTurn(Head(outbox))
  BY <1>1 DEF InTurn
<1>3. orderly'
  BY <1>2, Zenon DEF Send, IInv
<1> QED
  BY <1>1, <1>3 DEF Send

(***************************************************************************)
(* The actions.                                                            *)
(***************************************************************************)
LEMMA InitHolds == Init => IInv
<1> SUFFICES ASSUME Init PROVE IInv
  OBVIOUS
<1>1. TypeOK
  BY SessionBounds DEF Init, TypeOK
<1> QED
  BY <1>1 DEF Init, IInv, NoOrphanMotion

\* A place behind one end is behind a later end.
LEMMA GrowingRange ==
  ASSUME NEW a \in Nat, NEW b \in Nat, NEW c \in Nat, NEW k \in 0..(a - c), a <= b
  PROVE  k \in 0..(b - c)
OBVIOUS

\* The fleet ticks between any two awaits.
LEMMA TickHolds ==
  ASSUME IInv, NEW events \in 0..1, NEW frames \in 0..1, Tick(events, frames)
  PROVE  IInv'
<1>0. /\ ledger \in Nat /\ latest \in Nat /\ cursor \in Nat /\ sentFrame \in Nat
      /\ ledger' \in Nat /\ ledger <= ledger' /\ ledger' <= MaxEvents
      /\ latest' \in Nat /\ latest <= latest' /\ latest' <= MaxFrames
      /\ cursor <= ledger /\ sentFrame <= latest
      /\ UNCHANGED mover /\ UNCHANGED handlerVars /\ UNCHANGED clientVars
      /\ UNCHANGED <<cursor, sentFrame, outbox, batch>>
  BY SessionBounds DEF Tick, TickBound, IInv, TypeOK, handlerVars
<1>1. TypeOK'
  BY <1>0 DEF IInv, TypeOK, handlerVars, clientVars
<1>2. ASSUME OnlyEvents PROVE OnlyEvents'
  <2>1. PICK k \in 0..(ledger - cursor) : outbox = Events(cursor, k)
    BY <1>2 DEF OnlyEvents
  <2>2. k \in 0..(ledger' - cursor')
    <3>1. cursor' = cursor /\ k \in 0..(ledger' - cursor)
      BY <1>0, <2>1, GrowingRange
    <3> QED
      BY <3>1, Zenon
  <2>3. outbox' = Events(cursor', k)
    BY <1>0, <2>1, Zenon
  <2> QED
    BY <2>2, <2>3 DEF OnlyEvents
<1>3. ASSUME BatchFollows PROVE BatchFollows'
  <2>1. PICK k \in 0..(latest - sentFrame) : batch = Frames(sentFrame, k)
    BY <1>3 DEF BatchFollows
  <2>2. k \in 0..(latest' - sentFrame')
    <3>1. sentFrame' = sentFrame /\ k \in 0..(latest' - sentFrame)
      BY <1>0, <2>1, GrowingRange
    <3> QED
      BY <3>1, Zenon
  <2>3. batch' = Frames(sentFrame', k)
    BY <1>0, <2>1, Zenon
  <2> QED
    BY <2>2, <2>3 DEF BatchFollows
<1>4. Conversation => Conversation'
  BY <1>0, <1>2, <1>3 DEF Conversation, AtMost, AtPoll, AtFrameEvents, AtEvents, Greeted,
     handlerVars, clientVars
<1> QED
  BY <1>0, <1>1, <1>4 DEF IInv, NoOrphanMotion, handlerVars, clientVars

\* A client is admitted.
LEMMA ConnectHolds ==
  ASSUME IInv, NEW c \in Clients, Connect(c)
  PROVE  IInv'
<1>1. TypeOK'
  BY OneMessage, SessionBounds DEF Connect, IInv, TypeOK, worldVars
<1>2. c # NoClient
  BY ClientAssumption
<1>3. NoOrphanMotion'
  BY DEF IInv, NoOrphanMotion, Connect, worldVars
<1>4. Conversation'
  BY DEF Connect, Conversation, AtMost
<1> QED
  BY <1>1, <1>2, <1>3, <1>4, SessionBounds DEF IInv, Connect

\* Steps of the handler that touch nothing but its place, its outbox and its frames.
LEMMA GoHolds ==
  ASSUME IInv, NEW from, NEW to, to # "none", from # "none", to # "events", NEW block,
         Go(from, to, block),
         TypeOK', from = "events" => owed = {}, Conversation'
  PROVE  IInv'
BY DEF Go, IInv, NoOrphanMotion, clientVars, worldVars

\* The replay of the log is queued.
LEMMA ReplayHolds == IInv /\ Replay => IInv'
<1> SUFFICES ASSUME IInv, Replay PROVE IInv'
  OBVIOUS
<1>0. /\ ledger \in Nat /\ cursor = 0 /\ heard.frame = -1
      /\ outbox' = Events(cursor, ledger - cursor) /\ ledger - cursor \in Nat
      /\ UNCHANGED <<cursor, ledger, heard>>
  BY DEF IInv, TypeOK, Replay, Go, Conversation, EventsAfter, Events, worldVars, clientVars
<1>1. TypeOK'
  <2>1. outbox' \in Seq(Message)
    BY <1>0, EventsShift
  <2> QED
    BY <2>1 DEF Replay, Go, IInv, TypeOK, worldVars, clientVars
<1>2. Conversation'
  BY <1>0 DEF Replay, Go, Conversation, OnlyEvents
<1> QED
  BY <1>1, <1>2, GoHolds DEF Replay

\* The chunks of the map are queued.
LEMMA ChunksHolds == IInv /\ Chunks => IInv'
<1> SUFFICES ASSUME IInv, Chunks PROVE IInv'
  OBVIOUS
<1>1. TypeOK'
  BY OneMessage DEF Chunks, Go, IInv, TypeOK, worldVars, clientVars
<1>2. Conversation'
  BY DEF IInv, Chunks, Go, Conversation, AtMost, clientVars
<1> QED
  BY <1>1, <1>2, GoHolds DEF Chunks

\* The newest frame is queued.
LEMMA FirstHolds == IInv /\ First => IInv'
<1> SUFFICES ASSUME IInv, First PROVE IInv'
  OBVIOUS
<1>0. latest \in Nat
  BY SessionBounds DEF IInv, TypeOK
<1>1. TypeOK'
  BY <1>0, OneMessage DEF First, Go, IInv, TypeOK, worldVars, clientVars
<1>2. Conversation'
  BY DEF IInv, First, Go, Conversation, AtPoll, clientVars
<1> QED
  BY <1>1, <1>2, GoHolds DEF First

\* The ring is read: frames, an overflow, or nothing new.
LEMMA PollHolds == IInv /\ Poll => IInv'
<1> SUFFICES ASSUME IInv, Poll PROVE IInv'
  OBVIOUS
<1>0. /\ latest \in Nat /\ sentFrame \in Nat /\ latest - sentFrame \in Nat /\ latest <= MaxFrames
      /\ MaxFrames \in Nat
  BY SessionBounds DEF IInv, TypeOK
<1>1. CASE sentFrame < Oldest - 1
  <2>0. Go("poll", "end", <<Msg("error", 0)>>) /\ UNCHANGED <<batch, sentFrame>>
    BY <1>1 DEF Poll
  <2>1. <<Msg("error", 0)>> \in Seq(Message)
    BY DEF Msg, Message
  <2>2. TypeOK'
    BY <2>0, <2>1 DEF Go, IInv, TypeOK, worldVars, clientVars
  <2>3. Conversation'
    BY <2>0 DEF Go, Conversation, AtMost
  <2> QED
    BY <2>0, <2>2, <2>3, GoHolds
<1>2. CASE ~(sentFrame < Oldest - 1)
  <2>1. /\ Go("poll", "frame", <<>>) /\ sentFrame' = sentFrame
        /\ batch' = Frames(sentFrame, latest - sentFrame)
    BY <1>2 DEF Poll, Frames
  <2>2. batch' \in Seq(1..MaxFrames)
    BY <1>0, <2>1, FramesType
  <2>3. TypeOK'
    BY <2>1, <2>2 DEF Go, IInv, TypeOK, worldVars, clientVars
  <2>4. Greeted'
    BY <1>0, <2>1 DEF IInv, Go, Conversation, AtPoll, Greeted, clientVars
  <2>5. Conversation'
    BY <1>0, <2>1, <2>4 DEF Go, Conversation, BatchFollows, worldVars
  <2> QED
    BY <2>1, <2>3, <2>5, GoHolds
<1> QED
  BY <1>1, <1>2

\* The first frame of a batch, where there is one, is the next one.
LEMMA NextFrame ==
  ASSUME IInv, BatchFollows, batch # <<>>
  PROVE  /\ Head(batch) = sentFrame + 1 /\ sentFrame + 1 <= latest
         /\ \E k \in 0..(latest - (sentFrame + 1)) : Tail(batch) = Frames(sentFrame + 1, k)
         /\ Tail(batch) \in Seq(1..MaxFrames)
<1>0. latest \in Nat /\ sentFrame \in Nat
  BY SessionBounds DEF IInv, TypeOK
<1>1. PICK k \in 0..(latest - sentFrame) : batch = Frames(sentFrame, k)
  BY DEF BatchFollows
<1>2. k \in Nat /\ k > 0
  BY <1>0, <1>1, FramesShift
<1>3. Head(batch) = sentFrame + 1 /\ Tail(batch) = Frames(sentFrame + 1, k - 1)
  BY <1>0, <1>1, <1>2, FramesShift
<1>4. Tail(batch) \in Seq(1..MaxFrames)
  BY HeadTailProperties DEF IInv, TypeOK
<1> QED
  BY <1>0, <1>2, <1>3, <1>4

\* The next frame of the batch is queued.
LEMMA SendFrameHolds == IInv /\ SendFrame => IInv'
<1> SUFFICES ASSUME IInv, SendFrame PROVE IInv'
  OBVIOUS
<1>0. /\ BatchFollows /\ Greeted /\ batch # <<>> /\ sentFrame \in Nat
      /\ Go("frame", "frameEvents", <<Msg("frame", Head(batch))>>)
      /\ UNCHANGED <<batch, sentFrame, latest, heard>>
  BY SessionBounds DEF IInv, TypeOK, Conversation, SendFrame, Go, worldVars, clientVars
<1>1. Head(batch) \in Nat
  BY <1>0, NextFrame
<1>2. TypeOK'
  BY <1>0, <1>1, OneMessage DEF Go, IInv, TypeOK, worldVars, clientVars
<1>3. Conversation'
  BY <1>0 DEF Go, Conversation, AtFrameEvents, BatchFollows, Greeted
<1> QED
  BY <1>0, <1>2, <1>3, GoHolds

\* The events before a frame is counted as sent are queued.
LEMMA FrameEventsHolds == IInv /\ FrameEvents => IInv'
<1> SUFFICES ASSUME IInv, FrameEvents PROVE IInv'
  OBVIOUS
<1>0. /\ BatchFollows /\ heard.frame = Head(batch) /\ batch # <<>>
      /\ cursor \in Nat /\ ledger \in Nat /\ ledger - cursor \in Nat
      /\ Go("frameEvents", "sent", Events(cursor, ledger - cursor))
      /\ UNCHANGED <<batch, sentFrame, latest, heard, cursor, ledger>>
  BY SessionBounds DEF IInv, TypeOK, Conversation, AtFrameEvents, FrameEvents, EventsAfter,
     Events, Go, worldVars, clientVars
<1>1. outbox' = Events(cursor, ledger - cursor) /\ outbox' \in Seq(Message)
  BY <1>0, EventsShift DEF Go
<1>2. TypeOK'
  BY <1>0, <1>1 DEF Go, IInv, TypeOK, worldVars, clientVars
<1>3. Conversation'
  BY <1>0, <1>1 DEF Go, Conversation, OnlyEvents, BatchFollows
<1> QED
  BY <1>0, <1>2, <1>3, GoHolds

\* The frame counts as sent.
LEMMA FrameSentHolds == IInv /\ FrameSent => IInv'
<1> SUFFICES ASSUME IInv, FrameSent PROVE IInv'
  OBVIOUS
<1>0. /\ BatchFollows /\ heard.frame = Head(batch) /\ batch # <<>>
      /\ Go("sent", "frame", <<>>) /\ sentFrame' = Head(batch) /\ batch' = Tail(batch)
      /\ UNCHANGED <<latest, heard>> /\ latest \in Nat /\ sentFrame \in Nat
  BY SessionBounds DEF IInv, TypeOK, Conversation, FrameSent, Go, worldVars, clientVars
<1>1. /\ sentFrame' = sentFrame + 1 /\ sentFrame + 1 <= latest /\ batch' \in Seq(1..MaxFrames)
      /\ \E k \in 0..(latest - (sentFrame + 1)) : batch' = Frames(sentFrame + 1, k)
  BY <1>0, NextFrame
<1>2. TypeOK'
  BY <1>0, <1>1 DEF Go, IInv, TypeOK, worldVars, clientVars
<1>3. Conversation'
  BY <1>0, <1>1 DEF Go, Conversation, BatchFollows, Greeted
<1> QED
  BY <1>0, <1>2, <1>3, GoHolds

\* The handler waits for a message.
LEMMA WaitHolds == IInv /\ Wait => IInv'
<1> SUFFICES ASSUME IInv, Wait PROVE IInv'
  OBVIOUS
<1>1. TypeOK'
  BY DEF Wait, Go, IInv, TypeOK, worldVars, clientVars
<1>2. Conversation'
  BY DEF IInv, Wait, Go, Conversation, Greeted, clientVars
<1> QED
  BY <1>1, <1>2, GoHolds DEF Wait

\* It stops waiting.
LEMMA TimeoutHolds == IInv /\ Timeout => IInv'
<1> SUFFICES ASSUME IInv, Timeout PROVE IInv'
  OBVIOUS
<1>0. /\ cursor \in Nat /\ ledger \in Nat /\ cursor <= ledger /\ UNCHANGED <<cursor, ledger>>
      /\ outbox' = <<>>
  BY SessionBounds DEF IInv, TypeOK, Timeout, Go, worldVars
<1>1. TypeOK'
  BY DEF Timeout, Go, IInv, TypeOK, worldVars, clientVars
<1>2. OnlyEvents'
  BY <1>0, EventsShift DEF OnlyEvents
<1>3. Conversation'
  BY <1>2 DEF IInv, Timeout, Go, Conversation, AtPoll, Greeted, clientVars
<1> QED
  BY <1>1, <1>3, GoHolds DEF Timeout

\* The events of a command are queued behind its ack.
LEMMA CommandEventsHolds == IInv /\ CommandEvents => IInv'
<1> SUFFICES ASSUME IInv, CommandEvents PROVE IInv'
  OBVIOUS
<1>0. /\ cursor \in Nat /\ ledger \in Nat /\ ledger - cursor \in Nat /\ Greeted /\ owed = {}
      /\ Go("events", "poll", Events(cursor, ledger - cursor))
      /\ UNCHANGED <<batch, sentFrame, heard, cursor, ledger>>
  BY SessionBounds, OneMessage DEF IInv, TypeOK, Conversation, AtEvents, CommandEvents, EventsAfter,
     Events, Go, worldVars, clientVars
<1>1. outbox' = Events(cursor, ledger - cursor) /\ outbox' \in Seq(Message)
  BY <1>0, EventsShift DEF Go
<1>2. TypeOK'
  BY <1>0, <1>1 DEF Go, IInv, TypeOK, worldVars, clientVars
<1>3. Conversation'
  BY <1>0, <1>1 DEF Go, Conversation, AtPoll, OnlyEvents, Greeted
<1> QED
  BY <1>0, <1>2, <1>3, GoHolds

\* A command takes effect and its ack is queued.
LEMMA CommandHolds ==
  ASSUME IInv, NEW seq \in 1..MaxCommands, NEW events \in 0..1, NEW to \in {owner, mover, NoClient},
         Command(seq, events, to)
  PROVE  IInv'
<1>0. /\ seq \in Nat /\ seq > lastSeq /\ lastSeq \in Nat /\ heard.ack \in Nat /\ heard.ack <= lastSeq
      /\ ledger \in Nat /\ ledger' \in Nat /\ ledger <= ledger' /\ ledger' <= MaxEvents
      /\ pc = "recv" /\ owner # NoClient /\ MaxCommands \in Nat
  BY SessionBounds DEF IInv, TypeOK, Command
<1>1. outbox' = <<Msg("ack", seq)>> /\ outbox' \in Seq(Message)
  BY <1>0, OneMessage DEF Command
<1>2. owed' \subseteq 1..ledger'
  BY <1>0 DEF Command
<1>3. mover' \in {owner, NoClient} /\ mover' \in Clients \cup {NoClient}
  BY DEF Command, IInv, NoOrphanMotion, TypeOK
<1>4. TypeOK'
  BY <1>0, <1>1, <1>2, <1>3 DEF IInv, TypeOK, Command
<1>5. Conversation'
  BY <1>0, <1>1 DEF IInv, Conversation, AtEvents, Greeted, Command
<1> QED
  BY <1>0, <1>3, <1>4, <1>5 DEF IInv, NoOrphanMotion, Command

\* An invalid command stops the vehicle.
LEMMA RejectHolds ==
  ASSUME IInv, NEW events \in 0..1, Reject(events)
  PROVE  IInv'
<1>0. /\ ledger \in Nat /\ ledger' \in Nat /\ ledger <= ledger' /\ ledger' <= MaxEvents
      /\ pc = "recv" /\ owner # NoClient /\ owed = {}
  BY SessionBounds DEF IInv, TypeOK, Reject
<1>1. outbox' = <<Msg("error", 0)>> /\ outbox' \in Seq(Message)
  BY OneMessage DEF Reject
<1>2. TypeOK'
  BY <1>0, <1>1 DEF IInv, TypeOK, Reject, clientVars
<1>3. Conversation'
  BY <1>0, <1>1 DEF IInv, Conversation, AtEvents, AtMost, Greeted, Reject, clientVars
<1> QED
  BY <1>0, <1>2, <1>3 DEF IInv, NoOrphanMotion, Reject, clientVars

\* The `finally' clause runs, for whatever reason.
LEMMA FinishHolds ==
  ASSUME IInv, NEW events \in 0..1, Finish(events)
  PROVE  IInv'
<1>0. /\ ledger \in Nat /\ ledger' \in Nat /\ ledger <= ledger' /\ ledger' <= MaxEvents
      /\ owner # NoClient /\ <<>> \in Seq(Message) /\ <<>> \in Seq(1..MaxFrames)
  BY SessionBounds DEF IInv, TypeOK, Finish
<1>1. TypeOK'
  BY <1>0 DEF IInv, TypeOK, Finish, clientVars
<1> QED
  BY <1>0, <1>1 DEF IInv, NoOrphanMotion, Finish, clientVars

\* The events left once one of a block is sent.
LEMMA EventSent ==
  ASSUME IInv, Send, OnlyEvents, owed = {}
  PROVE  /\ OnlyEvents' /\ heard' = [heard EXCEPT !.event = cursor'] /\ cursor' \in 1..ledger
         /\ orderly' /\ owed' = {} /\ outbox' \in Seq(Message)
<1>0. cursor \in Nat /\ ledger \in Nat /\ ledger' = ledger /\ outbox # <<>>
  BY SessionBounds DEF IInv, TypeOK, Send, worldVars
<1>1. PICK k \in 0..(ledger - cursor) : outbox = Events(cursor, k)
  BY DEF OnlyEvents
<1>2. k \in 1..(ledger - cursor) /\ k - 1 \in Nat /\ k \in Nat
  BY <1>0, <1>1, EventsShift
<1>3. /\ cursor' = cursor + 1 /\ outbox' = Events(cursor + 1, k - 1)
      /\ heard' = [heard EXCEPT !.event = cursor + 1]
      /\ orderly' /\ owed' = {}
  BY <1>1, <1>2, SendEvent
<1>4. k - 1 \in 0..(ledger' - cursor')
  BY <1>0, <1>2, <1>3
<1>5. OnlyEvents'
  BY <1>3, <1>4 DEF OnlyEvents, Events
<1>6. outbox' \in Seq(Message)
  <2>1. cursor + 1 \in Nat /\ k - 1 \in Nat
    BY <1>0, <1>2
  <2>2. Events(cursor + 1, k - 1) \in Seq(Message)
    BY <2>1, EventsShift, Zenon
  <2> QED
    BY <1>3, <2>2
<1> QED
  BY <1>0, <1>2, <1>3, <1>5, <1>6

\* A send returns.
LEMMA SendHolds == IInv /\ Send => IInv'
<1> SUFFICES ASSUME IInv, Send PROVE IInv'
  OBVIOUS
<1>0. /\ UNCHANGED <<worldVars, owner, pc, batch, sentFrame, lastSeq, sessions>>
      /\ outbox # <<>> /\ owner # NoClient /\ pc # "none" /\ TypeOK /\ Conversation
      /\ lastSeq \in Nat /\ heard.ack \in Nat /\ heard.ack <= lastSeq
      /\ latest \in Nat /\ sentFrame \in Nat /\ <<>> \in Seq(Message) /\ heard.event = cursor
      /\ orderly /\ NoOrphanMotion
  BY SessionBounds DEF Send, IInv, TypeOK
<1> DEFINE Quiet == UNCHANGED <<cursor, heard, owed>> /\ outbox' = <<>> /\ orderly'
<1>1. ASSUME Quiet, Conversation', pc # "events" => owed = {} PROVE IInv'
  <2>1. TypeOK'
    BY <1>0, <1>1 DEF TypeOK, worldVars
  <2> QED
    BY <1>0, <1>1, <2>1 DEF IInv, NoOrphanMotion, worldVars
<1>2. ASSUME pc \in {"chunks", "poll", "sent"}, OnlyEvents, Conversation' PROVE IInv'
  <2>0. owed = {}
    BY <1>2 DEF IInv
  <2>1. /\ heard' = [heard EXCEPT !.event = cursor'] /\ cursor' \in 1..ledger
        /\ orderly' /\ owed' = {} /\ outbox' \in Seq(Message)
    BY <1>2, <2>0, EventSent
  <2>2. TypeOK'
    BY <1>0, <2>1 DEF TypeOK, worldVars
  <2> QED
    BY <1>0, <1>2, <2>1, <2>2 DEF IInv, NoOrphanMotion, TypeOK, worldVars
<1>3. ASSUME NEW n \in 0..latest, outbox = <<Msg("frame", n)>>, heard.frame \in {-1, n - 1},
             owed = {}, pc # "events", Conversation'
      PROVE  IInv'
  <2>1. /\ heard' = [heard EXCEPT !.frame = n] /\ outbox' = <<>>
        /\ orderly' /\ owed' = owed /\ cursor' = cursor
    BY <1>0, <1>3, SendFrameMessage
  <2>2. TypeOK'
    BY <1>0, <2>1 DEF TypeOK, worldVars
  <2> QED
    BY <1>0, <1>3, <2>1, <2>2 DEF IInv, NoOrphanMotion, TypeOK, worldVars
<1>4. CASE pc = "replay"
  <2>1. Quiet
    BY <1>0, <1>4, SendQuiet DEF Conversation, AtMost
  <2>2. Conversation'
    BY <1>0, <1>4, <2>1 DEF Conversation, AtMost
  <2> QED
    BY <1>1, <1>4, <2>1, <2>2 DEF IInv
<1>5. CASE pc = "first"
  <2>1. Quiet
    BY <1>0, <1>5, SendQuiet DEF Conversation, AtMost
  <2>2. Conversation'
    BY <1>0, <1>5, <2>1 DEF Conversation, AtMost
  <2> QED
    BY <1>1, <1>5, <2>1, <2>2 DEF IInv
<1>6. CASE pc = "end"
  <2>1. Quiet
    BY <1>0, <1>6, SendQuiet DEF Conversation, AtMost
  <2>2. Conversation'
    BY <1>0, <1>6, <2>1 DEF Conversation, AtMost
  <2> QED
    BY <1>1, <1>6, <2>1, <2>2 DEF IInv
<1>7. CASE pc = "chunks"
  <2>1. OnlyEvents /\ owed = {}
    BY <1>0, <1>7 DEF Conversation, IInv
  <2>2. OnlyEvents' /\ heard' = [heard EXCEPT !.event = cursor']
    BY <2>1, EventSent
  <2>3. Conversation'
    BY <1>0, <1>7, <2>2 DEF Conversation, TypeOK
  <2> QED
    BY <1>2, <1>7, <2>1, <2>3
<1>8. CASE pc = "sent"
  <2>1. OnlyEvents /\ owed = {}
    BY <1>0, <1>8 DEF Conversation, IInv
  <2>2. OnlyEvents' /\ heard' = [heard EXCEPT !.event = cursor']
    BY <2>1, EventSent
  <2>3. Conversation'
    BY <1>0, <1>8, <2>2 DEF Conversation, BatchFollows, TypeOK, worldVars
  <2> QED
    BY <1>2, <1>8, <2>1, <2>3
<1>9. CASE pc = "poll" /\ outbox = <<Msg("frame", sentFrame)>> /\ heard.frame = -1
  <2>0. owed = {} /\ sentFrame \in 0..latest /\ cursor \in Nat /\ ledger \in Nat /\ cursor <= ledger
    BY <1>9, SessionBounds DEF IInv, TypeOK
  <2>1. heard' = [heard EXCEPT !.frame = sentFrame] /\ outbox' = <<>> /\ cursor' = cursor
    BY <1>0, <1>9, SendFrameMessage
  <2>2. OnlyEvents'
    <3>1. outbox' = Events(cursor', 0)
      BY <2>0, <2>1, EventsShift
    <3>2. 0 \in 0..(ledger' - cursor')
      BY <1>0, <2>0, <2>1 DEF worldVars
    <3> QED
      BY <3>1, <3>2 DEF OnlyEvents
  <2>3. Conversation'
    BY <1>0, <1>9, <2>1, <2>2 DEF Conversation, AtPoll, Greeted, TypeOK
  <2> QED
    BY <1>3, <1>9, <2>0, <2>3
<1>10. CASE pc = "poll" /\ OnlyEvents /\ Greeted
  <2>1. owed = {}
    BY <1>10 DEF IInv
  <2>2. OnlyEvents' /\ heard' = [heard EXCEPT !.event = cursor']
    BY <1>10, <2>1, EventSent
  <2>3. Conversation'
    BY <1>0, <1>10, <2>2 DEF Conversation, AtPoll, Greeted, TypeOK
  <2> QED
    BY <1>2, <1>10, <2>3
<1>11. CASE pc = "frameEvents"
  <2>0. owed = {} /\ BatchFollows /\ batch # <<>> /\ outbox = <<Msg("frame", Head(batch))>> /\ Greeted
    BY <1>0, <1>11 DEF IInv, Conversation, AtFrameEvents
  <2>1. Head(batch) \in 0..latest /\ heard.frame \in {-1, Head(batch) - 1}
    <3>1. heard.frame = sentFrame /\ sentFrame \in Nat
      BY <1>0, <2>0 DEF Greeted
    <3>2. Head(batch) = sentFrame + 1 /\ sentFrame + 1 <= latest
      BY <2>0, NextFrame
    <3> QED
      BY <1>0, <3>1, <3>2
  <2>2. heard' = [heard EXCEPT !.frame = Head(batch)] /\ outbox' = <<>>
    BY <2>0, <2>1, SendFrameMessage
  <2>3. Conversation'
    BY <1>0, <1>11, <2>0, <2>2 DEF Conversation, AtFrameEvents, BatchFollows, TypeOK, worldVars
  <2> QED
    BY <1>3, <1>11, <2>0, <2>1, <2>3
<1>12. CASE pc = "events" /\ outbox = <<Msg("ack", lastSeq)>> /\ heard.ack < lastSeq
  <2>1. /\ heard' = [heard EXCEPT !.ack = lastSeq] /\ outbox' = <<>>
        /\ orderly' /\ owed' = {} /\ cursor' = cursor
    BY <1>0, <1>12, SendAck
  <2>2. TypeOK'
    BY <1>0, <2>1 DEF TypeOK, worldVars
  <2>3. Conversation'
    BY <1>0, <1>12, <2>1 DEF Conversation, AtEvents, AtMost, Greeted, TypeOK
  <2> QED
    BY <1>0, <1>12, <2>1, <2>2, <2>3 DEF IInv, NoOrphanMotion, TypeOK, worldVars
<1>13. CASE pc = "events" /\ AtMost(Msg("error", 0)) /\ owed = {} /\ Greeted
  <2>1. Quiet
    BY <1>0, <1>13, SendQuiet DEF AtMost
  <2>2. Conversation'
    BY <1>0, <1>13, <2>1 DEF Conversation, AtEvents, AtMost, Greeted
  <2> QED
    BY <1>1, <1>13, <2>1, <2>2
<1> QED
  <2>1. pc \notin {"frame", "recv", "none"}
    BY <1>0 DEF Conversation
  <2> QED
    BY <1>0, <2>1, <1>4, <1>5, <1>6, <1>7, <1>8, <1>9, <1>10, <1>11, <1>12, <1>13
       DEF TypeOK, Conversation, AtPoll, AtEvents

\* Every step keeps the invariant.
LEMMA NextHolds == IInv /\ [Next]_vars => IInv'
<1> SUFFICES ASSUME IInv, [Next]_vars PROVE IInv'
  OBVIOUS
<1>1. CASE HandlerStep
  <2>1. Overflowed(0) => IInv'
    BY FinishHolds DEF Overflowed
  <2> QED
    BY <1>1, <2>1, SendHolds, ReplayHolds, ChunksHolds, FirstHolds, PollHolds, SendFrameHolds,
       FrameEventsHolds, FrameSentHolds, WaitHolds, TimeoutHolds, CommandEventsHolds
       DEF HandlerStep
<1>2. CASE ClientStep
  BY <1>2, ConnectHolds, CommandHolds, RejectHolds, FinishHolds DEF ClientStep
<1>3. CASE FleetStep
  BY <1>3, TickHolds DEF FleetStep
<1>4. CASE UNCHANGED vars
  BY <1>4 DEF vars, worldVars, handlerVars, clientVars, IInv, TypeOK, NoOrphanMotion, Conversation,
     AtMost, OnlyEvents, BatchFollows, Greeted, AtPoll, AtFrameEvents, AtEvents
<1> QED
  BY <1>1, <1>2, <1>3, <1>4 DEF Next

\* The inductive invariant holds in every state the endpoint reaches.
LEMMA Inductive == Spec => []IInv
BY InitHolds, NextHolds, PTL DEF Spec

(***************************************************************************)
(* Theorems.                                                               *)
(***************************************************************************)
\* Type correctness: cursors stay behind what they follow, and the outbox and the batch hold
\* messages and frames that exist.
THEOREM TypeCorrect == Spec => []TypeOK
BY Inductive, PTL DEF IInv

\* fleet.py, fleet_handler: however ticks, sends and commands interleave, events, frames and
\* acks reach the client without gap, repetition or inversion, and events after their ack.
THEOREM InTurnAlways == Spec => []ArrivesInTurn
BY Inductive, PTL DEF IInv, ArrivesInTurn

\* fleet.py, fleet_handler and its `finally': the vehicle moves on the command of the
\* client that holds the lease or not at all.
THEOREM MotionIsOwned == Spec => []NoOrphanMotion
BY Inductive, PTL DEF IInv

(***************************************************************************)
(* The endpoint implements the event feed of the protocol document.        *)
(***************************************************************************)
\* Every step of the endpoint is a step of the feed or leaves it alone.
LEMMA StepRefines == IInv /\ [Next]_vars => [Feed!Next]_(Feed!vars)
<1> SUFFICES ASSUME IInv, [Next]_vars PROVE [Feed!Next]_(Feed!vars)
  OBVIOUS
<1> DEFINE online == owner # NoClient
<1>0. /\ ledger \in Nat /\ ledger <= MaxEvents /\ MaxEvents \in Nat
      /\ heard.event = cursor /\ cursor \in Nat /\ cursor <= ledger
  BY SessionBounds DEF IInv, TypeOK
<1>1. ASSUME ledger' = ledger, owner' = owner, heard' = heard PROVE UNCHANGED Feed!vars
  BY <1>1 DEF Feed!vars
<1>2. ASSUME NEW events \in 0..1, ledger + events <= MaxEvents, ledger' = ledger + events
      PROVE  Feed!Grow
  <2>1. ledger + events \in ledger..MaxEvents
    BY <1>0, <1>2
  <2> QED
    BY <1>2, <2>1 DEF Feed!Grow
<1>3. ASSUME Feed!Grow, owner' = owner, heard' = heard PROVE Feed!Next
  BY <1>3 DEF Feed!Next, Feed!AppendEvents
<1>4. CASE Send
  <2>1. CASE outbox # <<>> /\ Head(outbox).kind = "event"
    <3>1. OnlyEvents /\ owed = {} /\ owner # NoClient
      BY <2>1, OneMessage, <1>4 DEF Send, IInv, TypeOK, Conversation, AtMost, AtPoll, AtFrameEvents,
         AtEvents, Msg
    <3>2. PICK k \in 0..(ledger - cursor) : outbox = Events(cursor, k)
      BY <3>1 DEF OnlyEvents
    <3>3. k \in 1..(ledger - cursor)
      BY <1>0, <2>1, <3>2, EventsShift
    <3>4. heard' = [heard EXCEPT !.event = cursor + 1] /\ ledger' = ledger /\ owner' = owner
      BY <1>4, <3>1, <3>2, <3>3, SendEvent DEF Send, worldVars
    <3>5. heard'.event = heard.event + 1 /\ heard.event < ledger
      BY <1>0, <3>3, <3>4 DEF IInv, TypeOK
    <3> QED
      BY <3>1, <3>4, <3>5 DEF Feed!Next, Feed!Hear
  <2>2. CASE ~(outbox # <<>> /\ Head(outbox).kind = "event")
    <3>1. heard'.event = heard.event /\ ledger' = ledger /\ owner' = owner
      BY <1>4, <2>2 DEF Send, IInv, TypeOK, worldVars
    <3> QED
      BY <3>1 DEF Feed!vars
  <2> QED
    BY <2>1, <2>2
<1>5. CASE \E c \in Clients : Connect(c)
  BY <1>5, ClientAssumption DEF Connect, worldVars, Feed!Next, Feed!Open
<1>6. ASSUME NEW seq, NEW events \in 0..1, NEW to, Command(seq, events, to) PROVE Feed!Next
  BY <1>2, <1>3, <1>6 DEF Command
<1>7. ASSUME NEW events \in 0..1, Reject(events) PROVE Feed!Next
  BY <1>2, <1>3, <1>7 DEF Reject, clientVars
<1>8. ASSUME NEW events \in 0..1, Finish(events) PROVE Feed!Next
  <2>1. Feed!Grow
    BY <1>2, <1>8 DEF Finish
  <2>2. owner # NoClient /\ owner' = NoClient /\ heard' = heard
    BY <1>8 DEF Finish, clientVars
  <2> QED
    BY <2>1, <2>2 DEF Feed!Next, Feed!Close
<1>9. CASE FleetStep
  <2>1. PICK events \in 0..1, frames \in 0..1 : Tick(events, frames)
    BY <1>9 DEF FleetStep
  <2> QED
    BY <1>2, <1>3, <2>1 DEF Tick, handlerVars, clientVars
<1>10. ASSUME NEW from, NEW to, NEW block, Go(from, to, block) PROVE UNCHANGED Feed!vars
  BY <1>1, <1>10 DEF Go, worldVars, clientVars
<1>11. CASE HandlerStep
  <2>1. Poll => UNCHANGED Feed!vars
    BY <1>10 DEF Poll
  <2> QED
    BY <1>4, <1>8, <1>10, <1>11, <2>1 DEF HandlerStep, Replay, Chunks, First, SendFrame, FrameEvents,
       FrameSent, Wait, Timeout, CommandEvents, Overflowed
<1>12. CASE ClientStep
  BY <1>5, <1>6, <1>7, <1>8, <1>12 DEF ClientStep
<1>13. CASE UNCHANGED vars
  BY <1>1, <1>13 DEF vars, worldVars, handlerVars, clientVars
<1> QED
  BY <1>9, <1>11, <1>12, <1>13 DEF Next

\* docs/websocket_protocol.md: a session hears the events from the first one on, in order
\* and without a gap.  This is the safety part of ImplementsFeed, which adds that an open
\* session hears every event or ends.
THEOREM RefinesFeed == Spec => Feed!Init /\ [][Feed!Next]_(Feed!vars)
<1>1. Init => Feed!Init
  BY DEF Init, Feed!Init
<1> QED
  BY <1>1, StepRefines, Inductive, PTL DEF Spec
=============================================================================
