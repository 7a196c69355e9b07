----------------------------- MODULE MapSyncProofs -----------------------------
(***************************************************************************)
(* The map-sync pipeline keeps payloads, numbers, dirty cells and evidence *)
(* in step, for any grid, any number of peers, and wherever the sidecar    *)
(* dies.                                                                   *)
(***************************************************************************)
EXTENDS MapSync, SequenceTheorems, FiniteSetTheorems, TLAPS

Unique(S) == \A a, b \in S : a = b

\* Where the queue, the send loop, the socket and the results hold something of a channel.
Spots(s, ch) == {i \in DOMAIN s : s[i].channel = ch}
InHand(ch) == sending # NoPayload /\ sending.channel = ch

\* r holds of channel ch what s holds but its head.
Loses(r, s, ch) ==
  /\ \A i \in Spots(r, ch) : i + 1 \in Spots(s, ch) /\ r[i] = s[i + 1]
  /\ Head(s).channel = ch => 1 \in Spots(s, ch) /\ s[1] = Head(s)
  /\ Head(s).channel # ch => \A i \in Spots(s, ch) : i - 1 \in Spots(r, ch) /\ r[i - 1] = s[i]
  /\ Unique(Spots(s, ch)) => Unique(Spots(r, ch))
  /\ Unique(Spots(s, ch)) /\ Head(s).channel = ch => Spots(r, ch) = {}

\* r holds of channel ch what s holds, and at its end e, or the elements of t.
Gains(r, s, e, ch) ==
  /\ e.channel # ch => Spots(r, ch) = Spots(s, ch)
  /\ e.channel = ch => Spots(r, ch) = Spots(s, ch) \cup {Len(s) + 1}
  /\ \A i \in Spots(s, ch) : r[i] = s[i]
  /\ r[Len(s) + 1] = e /\ Len(s) + 1 \notin Spots(s, ch)
Joins(r, s, t, ch) ==
  /\ Spots(r, ch) = Spots(s, ch) \cup {Len(s) + i : i \in Spots(t, ch)}
  /\ \A i \in Spots(s, ch) : r[i] = s[i]
  /\ \A i \in Spots(t, ch) : r[Len(s) + i] = t[i]

(***************************************************************************)
(* The inductive invariant.                                                *)
(***************************************************************************)
\* Of each channel one payload at most is on its way, or its result.
Alone(ch) ==
  /\ Unique(Spots(outbound, ch)) /\ Unique(Spots(socket, ch)) /\ Unique(Spots(results, ch))
  /\ Spots(outbound, ch) # {} => ~InHand(ch) /\ Spots(socket, ch) = {} /\ Spots(results, ch) = {}
  /\ InHand(ch) => Spots(socket, ch) = {} /\ Spots(results, ch) = {}
  /\ Spots(socket, ch) # {} => Spots(results, ch) = {}

\* It is the payload in flight.
Matches(ch) ==
  /\ \A i \in Spots(outbound, ch) : outbound[i] = inflight[ch]
  /\ InHand(ch) => sending = inflight[ch]
  /\ \A i \in Spots(socket, ch) : socket[i] = inflight[ch]
  /\ \A i \in Spots(results, ch) :
       inflight[ch] # NoPayload /\ results[i].sequence = inflight[ch].sequence

\* While the sidecar lives a payload in flight is somewhere.
Present(ch) ==
  inflight[ch] # NoPayload =>
    \/ Spots(outbound, ch) # {} \/ InHand(ch) \/ Spots(socket, ch) # {} \/ Spots(results, ch) # {}

Pipeline ==
  /\ link \in {"open", "broken"} => \A ch \in Channels : Alone(ch) /\ Matches(ch)
  /\ link = "open" => \A ch \in Channels : Present(ch)
  /\ link # "open" => socket = <<>>
  /\ link \in {"closing", "gone"} => results = <<>>

\* A payload in flight has its channel's next number; only deltas carry
\* cells, and those stay dirty.
Numbers ==
  \A ch \in Channels :
    inflight[ch] # NoPayload =>
      /\ inflight[ch].channel = ch /\ inflight[ch].sequence = sequence[ch] + 1
      /\ DOMAIN inflight[ch].cells \subseteq (IF ch = "delta" THEN dirty ELSE {})

\* An accepted delta whose result is not read yet.
Told == \E i \in Spots(results, "delta") : results[i].accepted

\* Every accepted number but the last one is also the vehicle's; what was accepted shows.
Accepted ==
  /\ link = "open" => Len(published) = sequence["delta"] + (IF Told THEN 1 ELSE 0)
  /\ Told => \A c \in DOMAIN inflight["delta"].cells : Image[c] = inflight["delta"].cells[c]

\* Each published map is the one before it and the delta.
Chain ==
  \A n \in DOMAIN published :
    published[n].image =
      Overlay(IF n = 1 THEN Blank ELSE published[n - 1].image, published[n].cells)

IInv ==
  /\ TypeOK
  /\ Pipeline
  /\ Numbers
  /\ Accepted
  /\ Chain
  /\ CleanIsPublished
  /\ PublishedInOrder
  /\ NoGapMeansComplete

(***************************************************************************)
(* Spots of a sequence that loses its head, or gains elements.             *)
(***************************************************************************)
LEMMA TailSpots ==
  ASSUME NEW S, NEW s \in Seq(S), s # <<>>, NEW ch
  PROVE  /\ Head(s) \in S /\ Tail(s) \in Seq(S)
         /\ Loses(Tail(s), s, ch)
<1>1. /\ Head(s) \in S /\ Tail(s) \in Seq(S) /\ Len(Tail(s)) = Len(s) - 1
      /\ \A i \in 1..Len(Tail(s)) : Tail(s)[i] = s[i + 1]
  BY HeadTailProperties
<1>2. Len(s) \in Nat /\ Len(s) > 0 /\ DOMAIN s = 1..Len(s) /\ Head(s) = s[1]
      /\ DOMAIN Tail(s) = 1..(Len(s) - 1)
  BY <1>1, EmptySeq, LenProperties
<1>3. \A i \in Spots(Tail(s), ch) : i + 1 \in Spots(s, ch) /\ Tail(s)[i] = s[i + 1] /\ i \in Nat /\ i > 0
  <2> TAKE i \in Spots(Tail(s), ch)
  <2>1. i \in 1..(Len(s) - 1) /\ Tail(s)[i] = s[i + 1] /\ Tail(s)[i].channel = ch
    BY <1>1, <1>2 DEF Spots
  <2>2. i + 1 \in 1..Len(s) /\ i \in Nat /\ i > 0
    BY <1>2, <2>1
  <2> QED
    BY <1>2, <2>1, <2>2 DEF Spots
<1>4. Head(s).channel = ch => 1 \in Spots(s, ch) /\ s[1] = Head(s)
  BY <1>2 DEF Spots
<1>5. ASSUME Unique(Spots(s, ch)) PROVE Unique(Spots(Tail(s), ch))
  <2> SUFFICES ASSUME NEW a \in Spots(Tail(s), ch), NEW b \in Spots(Tail(s), ch) PROVE a = b
    BY DEF Unique
  <2>1. a + 1 = b + 1 /\ a \in Nat /\ b \in Nat
    BY <1>3, <1>5 DEF Unique
  <2> QED
    BY <2>1
<1>6. ASSUME Unique(Spots(s, ch)), Head(s).channel = ch PROVE Spots(Tail(s), ch) = {}
  <2> SUFFICES ASSUME NEW a \in Spots(Tail(s), ch) PROVE FALSE
    OBVIOUS
  <2>1. a + 1 = 1 /\ a \in Nat /\ a > 0
    BY <1>3, <1>4, <1>6 DEF Unique
  <2> QED
    BY <2>1
<1>7. ASSUME Head(s).channel # ch, NEW b \in Spots(s, ch)
      PROVE  b - 1 \in Spots(Tail(s), ch) /\ Tail(s)[b - 1] = s[b]
  <2>1. b \in 1..Len(s) /\ b # 1 /\ s[b].channel = ch
    BY <1>2, <1>7 DEF Spots
  <2> DEFINE a == b - 1
  <2>2. a \in 1..(Len(s) - 1) /\ a + 1 = b
    BY <1>2, <2>1
  <2>3. a \in Spots(Tail(s), ch) /\ Tail(s)[a] = s[b]
    <3> HIDE DEF a
    <3> QED
      BY <1>1, <1>2, <2>1, <2>2 DEF Spots
  <2> QED
    BY <2>3
<1> QED
  BY <1>1, <1>3, <1>4, <1>5, <1>6, <1>7 DEF Loses

\* Where a channel occurs in a queue after one more payload.
LEMMA AppendSpots ==
  ASSUME NEW S, NEW s \in Seq(S), NEW e \in S, NEW ch
  PROVE  /\ Append(s, e) \in Seq(S)
         /\ Gains(Append(s, e), s, e, ch)
<1>1. /\ Append(s, e) \in Seq(S) /\ Len(Append(s, e)) = Len(s) + 1
      /\ \A i \in 1..Len(s) : Append(s, e)[i] = s[i]
      /\ Append(s, e)[Len(s) + 1] = e
  BY AppendProperties
<1>2. /\ Len(s) \in Nat /\ DOMAIN s = 1..Len(s) /\ DOMAIN Append(s, e) = 1..(Len(s) + 1)
      /\ 1..(Len(s) + 1) = 1..Len(s) \cup {Len(s) + 1} /\ Len(s) + 1 \notin 1..Len(s)
  BY <1>1, LenProperties
<1> DEFINE n == Len(s) + 1
           r == Append(s, e)
<1>3. /\ DOMAIN r = DOMAIN s \cup {n} /\ n \notin DOMAIN s
      /\ \A i \in DOMAIN s : r[i] = s[i]
      /\ r[n] = e
  BY <1>1, <1>2
<1> HIDE DEF n, r
<1>4. /\ e.channel # ch => Spots(r, ch) = Spots(s, ch)
      /\ e.channel = ch => Spots(r, ch) = Spots(s, ch) \cup {n}
      /\ \A i \in Spots(s, ch) : r[i] = s[i]
      /\ n \notin Spots(s, ch)
  BY <1>3, Zenon DEF Spots
<1>5. r \in Seq(S) /\ r[n] = e
  BY <1>1 DEF n, r
<1> QED
  BY <1>4, <1>5 DEF n, r, Gains

\* Where a channel occurs in two queues one after the other.
LEMMA ConcatSpots ==
  ASSUME NEW S, NEW s \in Seq(S), NEW t \in Seq(S), NEW ch
  PROVE  /\ s \o t \in Seq(S) /\ Len(s \o t) = Len(s) + Len(t)
         /\ Joins(s \o t, s, t, ch)
<1>1. /\ s \o t \in Seq(S) /\ Len(s \o t) = Len(s) + Len(t)
      /\ \A i \in 1..(Len(s) + Len(t)) : (s \o t)[i] = IF i <= Len(s) THEN s[i] ELSE t[i - Len(s)]
  BY ConcatProperties
<1>2. /\ Len(s) \in Nat /\ Len(t) \in Nat /\ DOMAIN s = 1..Len(s) /\ DOMAIN t = 1..Len(t)
      /\ DOMAIN (s \o t) = 1..(Len(s) + Len(t))
  BY <1>1, LenProperties
<1> DEFINE r == s \o t
           m == Len(s)
           n == Len(t)
<1>3. /\ DOMAIN r = 1..(m + n) /\ DOMAIN s = 1..m /\ DOMAIN t = 1..n /\ m \in Nat /\ n \in Nat
      /\ \A i \in 1..(m + n) : r[i] = IF i <= m THEN s[i] ELSE t[i - m]
  BY <1>1, <1>2
<1> HIDE DEF r, m, n
<1>4. \A i \in Spots(s, ch) : i \in Spots(r, ch) /\ r[i] = s[i]
  <2> TAKE i \in Spots(s, ch)
  <2>1. i \in 1..m /\ s[i].channel = ch
    BY <1>3 DEF Spots
  <2>2. i \in 1..(m + n) /\ i <= m
    BY <1>3, <2>1
  <2> QED
    BY <1>3, <2>1, <2>2 DEF Spots
<1>5. \A i \in Spots(t, ch) : m + i \in Spots(r, ch) /\ r[m + i] = t[i]
  <2> TAKE i \in Spots(t, ch)
  <2>1. i \in 1..n /\ t[i].channel = ch
    BY <1>3 DEF Spots
  <2>2. m + i \in 1..(m + n) /\ ~(m + i <= m) /\ (m + i) - m = i
    BY <1>3, <2>1
  <2>3. r[m + i] = t[i]
    BY <1>3, <2>2
  <2> QED
    BY <1>3, <2>1, <2>2, <2>3 DEF Spots
<1>6. \A j \in Spots(r, ch) : j \in Spots(s, ch) \/ \E i \in Spots(t, ch) : j = m + i
  <2> TAKE j \in Spots(r, ch)
  <2>1. j \in 1..(m + n) /\ r[j].channel = ch
    BY <1>3 DEF Spots
  <2>2. CASE j <= m
    BY <1>3, <2>1, <2>2 DEF Spots
  <2>3. CASE ~(j <= m)
    <3>1. j - m \in 1..n /\ j = m + (j - m)
      BY <1>3, <2>1, <2>3
    <3>2. j - m \in Spots(t, ch)
      BY <1>3, <2>1, <2>3, <3>1 DEF Spots
    <3> QED
      BY <3>1, <3>2
  <2> QED
    BY <2>2, <2>3
<1>7. Spots(r, ch) = Spots(s, ch) \cup {m + i : i \in Spots(t, ch)}
  BY <1>4, <1>5, <1>6
<1> QED
  BY <1>1, <1>4, <1>5, <1>7 DEF r, m, n, Joins

(***************************************************************************)
(* What flush_once hands to the queue.                                     *)
(***************************************************************************)
\* A list of different channels that have something to send.
Offered(q) ==
  /\ q \in Seq(Channels)
  /\ \A i \in DOMAIN q : Preparable(q[i])
  /\ \A i, j \in DOMAIN q : q[i] = q[j] => i = j

\* One more channel, not yet there, is offered at the end.
LEMMA ConcatOffered ==
  ASSUME NEW q, NEW ch \in Channels, Offered(q), \A i \in DOMAIN q : q[i] # ch
  PROVE  Offered(q \o Offer(ch))
<1>1. CASE ~Preparable(ch)
  BY <1>1, ConcatEmptySeq DEF Offer, Offered
<1>2. CASE Preparable(ch)
  <2> DEFINE r == Append(q, ch)
  <2>1. q \in Seq(Channels) /\ Offer(ch) = <<ch>>
    BY <1>2 DEF Offer, Offered
  <2>2. q \o Offer(ch) = r
    BY <2>1, AppendIsConcat
  <2>3. /\ r \in Seq(Channels) /\ DOMAIN r = 1..(Len(q) + 1) /\ DOMAIN q = 1..Len(q) /\ Len(q) \in Nat
        /\ \A i \in DOMAIN q : r[i] = q[i]
        /\ r[Len(q) + 1] = ch
    BY <2>1, AppendProperties, LenProperties
  <2> DEFINE n == Len(q) + 1
  <2>4. DOMAIN r = DOMAIN q \cup {n}
    BY <2>3
  <2> HIDE DEF r, n
  <2>5. \A i \in DOMAIN r : Preparable(r[i])
    BY <1>2, <2>3, <2>4 DEF Offered, n
  <2>6. \A i, j \in DOMAIN r : r[i] = r[j] => i = j
    BY <2>3, <2>4 DEF Offered, n
  <2> QED
    BY <2>2, <2>3, <2>5, <2>6 DEF Offered
<1> QED
  BY <1>1, <1>2

\* What a channel offers is a sequence.
LEMMA OfferType ==
  ASSUME NEW S, NEW ch \in S
  PROVE  Offer(ch) \in Seq(S)
<1>1. CASE Preparable(ch)
  <2>1. <<ch>> \in Seq(S)
    OBVIOUS
  <2> QED
    BY <1>1, <2>1, Zenon DEF Offer
<1>2. CASE ~Preparable(ch)
  <2>1. <<>> \in Seq(S)
    OBVIOUS
  <2> QED
    BY <1>2, <2>1, Zenon DEF Offer
<1> QED
  BY <1>1, <1>2

\* flush_once offers each channel at most once.
LEMMA ReadyOffered == Offered(Ready)
<1>0. {"state", "delta", "intent"} \subseteq Channels
  BY DEF Channels
<1>1. Offered(<<>>) /\ DOMAIN <<>> = {}
  BY DEF Offered
<1>2. Offered(<<>> \o Offer("state"))
  BY <1>0, <1>1, ConcatOffered
<1>3. <<>> \o Offer("state") = Offer("state")
  BY <1>0, OfferType, ConcatEmptySeq
<1>4. Offer("state") \in Seq({"state"})
  BY OfferType
<1>5. \A i \in DOMAIN Offer("state") : Offer("state")[i] # "delta"
  BY <1>4, ElementOfSeq, LenProperties
<1>6. Offered(Offer("state") \o Offer("delta"))
  <2> DEFINE q == Offer("state")
  <2>1. Offered(q) /\ \A i \in DOMAIN q : q[i] # "delta"
    BY <1>2, <1>3, <1>5
  <2> HIDE DEF q
  <2>2. Offered(q \o Offer("delta"))
    BY <1>0, <2>1, ConcatOffered
  <2> QED
    BY <2>2 DEF q
<1> DEFINE q == Offer("state") \o Offer("delta")
<1>7. \A i \in DOMAIN q : q[i] # "intent"
  <2>1. Offer("state") \in Seq({"state", "delta"}) /\ Offer("delta") \in Seq({"state", "delta"})
    BY OfferType
  <2>2. q \in Seq({"state", "delta"})
    BY <2>1, ConcatProperties
  <2> HIDE DEF q
  <2> QED
    BY <2>2, ElementOfSeq, LenProperties
<1> HIDE DEF q
<1>8. Offered(q)
  BY <1>6 DEF q
<1>9. Offered(q \o Offer("intent"))
  BY <1>0, <1>7, <1>8, ConcatOffered
<1> QED
  BY <1>9 DEF Ready, q

\* The part of an offer that the queue takes offers each channel at most once too.
LEMMA PrefixOffered ==
  ASSUME NEW q, Offered(q), NEW n \in 0..Len(q)
  PROVE  Offered(SubSeq(q, 1, n)) /\ Len(SubSeq(q, 1, n)) = n
<1>1. q \in Seq(Channels) /\ DOMAIN q = 1..Len(q) /\ Len(q) \in Nat
  BY LenProperties DEF Offered
<1>2. \A i \in 1..n : i \in DOMAIN q /\ q[i] \in Channels
  BY <1>1, ElementOfSeq
<1> DEFINE r == SubSeq(q, 1, n)
<1>3. r \in Seq(Channels) /\ Len(r) = n /\ \A i \in 1..n : r[i] = q[i]
  BY <1>1, <1>2
<1>4. DOMAIN r = 1..n
  BY <1>3
<1> HIDE DEF r
<1> QED
  BY <1>2, <1>3, <1>4 DEF Offered, r

\* One flush: the channels it takes up, and what that changes.
LEMMA FlushTakes ==
  ASSUME TypeOK, Flush
  PROVE  \E q : /\ Offered(q) /\ Len(outbound) + Len(q) <= QueueSize
                /\ inflight' = [ch \in Channels |-> IF \E i \in DOMAIN q : q[i] = ch
                                                      THEN Prepared(ch) ELSE inflight[ch]]
                /\ outbound' = outbound \o [i \in DOMAIN q |-> Prepared(q[i])]
<1> DEFINE room == QueueSize - Len(outbound)
           q == IF Len(Ready) <= room THEN Ready ELSE SubSeq(Ready, 1, room)
<1>1. Len(outbound) \in Nat /\ room \in Nat
  BY SizeAssumption, LenProperties DEF TypeOK
<1>2. Offered(Ready) /\ Len(Ready) \in Nat
  BY ReadyOffered, LenProperties DEF Offered
<1>3. Offered(q) /\ Len(q) <= room
  <2>1. CASE Len(Ready) <= room
    BY <1>2, <2>1
  <2>2. CASE ~(Len(Ready) <= room)
    <3>1. room \in 0..Len(Ready)
      BY <1>1, <1>2, <2>2
    <3>2. Offered(SubSeq(Ready, 1, room)) /\ Len(SubSeq(Ready, 1, room)) = room
      BY <1>2, <3>1, PrefixOffered
    <3> QED
      BY <1>1, <2>2, <3>2
  <2> QED
    BY <2>1, <2>2
<1>4. Len(q) \in Nat
  BY <1>3, LenProperties DEF Offered
<1>5. Len(outbound) + Len(q) <= QueueSize
  <2> HIDE DEF q
  <2> QED
    BY <1>1, <1>3, <1>4, SizeAssumption
<1>6. /\ inflight' = [ch \in Channels |-> IF ch \in {q[i] : i \in DOMAIN q}
                                            THEN Prepared(ch) ELSE inflight[ch]]
      /\ outbound' = outbound \o [i \in DOMAIN q |-> Prepared(q[i])]
  BY DEF Flush
<1>7. \A ch : ch \in {q[i] : i \in DOMAIN q} <=> \E i \in DOMAIN q : q[i] = ch
  OBVIOUS
<1>8. inflight' = [ch \in Channels |-> IF \E i \in DOMAIN q : q[i] = ch THEN Prepared(ch) ELSE inflight[ch]]
  <2> HIDE DEF q
  <2> QED
    BY <1>6, <1>7
<1> HIDE DEF q
<1> QED
  BY <1>3, <1>5, <1>6, <1>8

(***************************************************************************)
(* Types of what the actions build.                                        *)
(***************************************************************************)
LEMMA OverlayType ==
  ASSUME NEW m \in Maps, NEW patch \in Patches
  PROVE  Overlay(m, patch) \in Maps
<1>1. PICK D \in SUBSET Cells : patch \in [D -> CellStates]
  BY DEF Patches
<1> QED
  BY <1>1 DEF Overlay, Maps

\* A payload that is prepared carries the next number and dirty cells only.
LEMMA PreparedType ==
  ASSUME TypeOK, NEW ch \in Channels
  PROVE  /\ Prepared(ch) \in Payloads /\ Prepared(ch) # NoPayload
         /\ Prepared(ch).channel = ch /\ Prepared(ch).sequence = sequence[ch] + 1
         /\ DOMAIN Prepared(ch).cells \subseteq (IF ch = "delta" THEN dirty ELSE {})
<1>1. sequence[ch] \in Nat /\ sequence[ch] + 1 \in Nat
  BY DEF TypeOK
<1>2. Batch \subseteq dirty /\ Batch \in SUBSET Cells
  BY DEF Batch, TypeOK
<1>3. [c \in Batch |-> own[c]] \in [Batch -> CellStates]
  BY <1>2 DEF TypeOK, Maps
<1>4. [c \in Batch |-> own[c]] \in Patches
  BY <1>2, <1>3 DEF Patches
<1>5. Empty \in Patches
  <2>1. Empty \in [{} -> CellStates]
    BY DEF Empty
  <2> QED
    BY <2>1 DEF Patches
<1>6. Prepared(ch).cells = IF ch = "delta" THEN [c \in Batch |-> own[c]] ELSE Empty
  BY DEF Prepared
<1>7. Prepared(ch).cells \in Patches
  BY <1>4, <1>5, <1>6
<1>8. Prepared(ch) \in Payloads
  BY <1>1, <1>7 DEF Prepared, Payloads
<1>9. DOMAIN Empty = {}
  BY DEF Empty
<1> QED
  BY <1>2, <1>6, <1>8, <1>9, PayloadAssumption DEF Prepared

\* What is published adds up to a map.
LEMMA ImageType == TypeOK => Image \in Maps
<1> SUFFICES ASSUME TypeOK PROVE Image \in Maps
  OBVIOUS
<1>1. CASE published = <<>>
  BY <1>1 DEF Image, Blank, Maps
<1>2. CASE published # <<>>
  <2> DEFINE S == [sequence : Nat, cells : Patches, image : Maps]
  <2>1. published \in Seq(S)
    BY DEF TypeOK
  <2>2. Len(published) \in 1..Len(published)
    BY <1>2, <2>1, EmptySeq
  <2>3. published[Len(published)] \in S
    BY <2>1, <2>2, ElementOfSeq
  <2> QED
    BY <1>2, <2>3 DEF Image
<1> QED
  BY <1>1, <1>2

\* Nothing of a channel that has nothing in flight is on its way.
LEMMA IdleChannel ==
  ASSUME IInv, link \in {"open", "broken"}, NEW ch \in Channels, inflight[ch] = NoPayload
  PROVE  /\ Spots(outbound, ch) = {} /\ ~InHand(ch)
         /\ Spots(socket, ch) = {} /\ Spots(results, ch) = {}
<1>1. Matches(ch)
  BY DEF IInv, Pipeline
<1>2. /\ \A i \in DOMAIN outbound : outbound[i] # NoPayload
      /\ \A i \in DOMAIN socket : socket[i] # NoPayload
  BY PayloadAssumption, ElementOfSeq, LenProperties DEF IInv, TypeOK
<1> QED
  BY <1>1, <1>2 DEF Matches, Spots, InHand

\* What is told is in flight, as long as it counts.
LEMMA ToldIsInflight ==
  ASSUME IInv, Told
  PROVE  /\ link \in {"open", "broken"} /\ inflight["delta"] \in Payloads
         /\ Spots(outbound, "delta") = {} /\ ~InHand("delta") /\ Spots(socket, "delta") = {}
<1>1. "delta" \in Channels
  BY DEF Channels
<1>2. PICK i \in Spots(results, "delta") : results[i].accepted
  BY DEF Told
<1>3. results # <<>> /\ Spots(results, "delta") # {}
  BY <1>2 DEF Spots
<1>4. link \in {"open", "broken"}
  BY <1>3 DEF IInv, Pipeline, TypeOK
<1> QED
  BY <1>1, <1>2, <1>3, <1>4 DEF IInv, Pipeline, Alone, Matches, TypeOK

(***************************************************************************)
(* The source.                                                             *)
(***************************************************************************)
LEMMA InitHolds == Init => IInv
<1> SUFFICES ASSUME Init PROVE IInv
  OBVIOUS
<1>1. Blank \in Maps /\ \A c \in Cells : Blank[c] = Unknown
  BY DEF Blank, Maps
<1>2. TypeOK
  BY <1>1, SizeAssumption DEF Init, TypeOK
<1>3. \A ch : Spots(outbound, ch) = {} /\ Spots(socket, ch) = {} /\ Spots(results, ch) = {} /\ ~InHand(ch)
  BY DEF Init, Spots, InHand
<1>4. Pipeline
  BY <1>3 DEF Init, Pipeline, Alone, Unique, Matches, Present
<1>5. Numbers /\ Chain /\ PublishedInOrder
  BY DEF Init, Numbers, Chain, PublishedInOrder
<1>6. Accepted
  BY <1>3 DEF Init, Accepted, Told, Channels
<1>7. CleanIsPublished
  BY <1>1 DEF Init, CleanIsPublished
<1>8. NoGapMeansComplete
  BY DEF Init, NoGapMeansComplete
<1> QED
  BY <1>2, <1>4, <1>5, <1>6, <1>7, <1>8 DEF IInv

\* The pipeline depends on nothing but the bridge and what is in flight.
LEMMA PipelineSame ==
  ASSUME Pipeline, UNCHANGED <<outbound, sending, link, socket, results, inflight>>
  PROVE  Pipeline'
BY DEF Pipeline, Alone, Matches, Present, InHand

\* A scan changes own cells.
LEMMA RecordLocalHolds == IInv /\ RecordLocal => IInv'
<1> SUFFICES ASSUME IInv, RecordLocal PROVE IInv'
  OBVIOUS
<1>0. PICK D \in (SUBSET Cells) \ {{}} : \E patch \in [D -> CellStates] :
        own' = Overlay(own, patch) /\ dirty' = dirty \cup D
  BY DEF RecordLocal
<1>1. PICK patch \in [D -> CellStates] : own' = Overlay(own, patch) /\ dirty' = dirty \cup D
  BY <1>0
<1>2. /\ changes' = changes + 1 /\ changes < MaxChanges
      /\ UNCHANGED <<recorded, inflight, sequence>> /\ UNCHANGED bridgeVars /\ UNCHANGED netVars
  BY DEF RecordLocal
<1>3. patch \in Patches /\ DOMAIN patch = D
  BY DEF Patches
<1>4. own' \in Maps /\ \A c \in Cells : own'[c] = IF c \in D THEN patch[c] ELSE own[c]
  BY <1>1, <1>3, OverlayType DEF IInv, TypeOK, Overlay
<1>5. TypeOK'
  <2>1. dirty' \subseteq {c \in Cells : own'[c] # Unknown}
    <3>1. \A c \in D : patch[c] \in CellStates /\ patch[c] # Unknown /\ c \in Cells
      BY CellAssumption
    <3>2. \A c \in dirty : c \in Cells /\ own[c] # Unknown
      BY DEF IInv, TypeOK
    <3> QED
      BY <1>1, <1>4, <3>1, <3>2
  <2>2. changes' \in 0..MaxChanges
    BY <1>2, SizeAssumption DEF IInv, TypeOK
  <2> QED
    BY <1>2, <1>4, <2>1, <2>2 DEF IInv, TypeOK, bridgeVars, netVars
<1>6. Pipeline'
  BY <1>2, PipelineSame DEF IInv, bridgeVars
<1>7. Numbers'
  BY <1>1, <1>2 DEF IInv, Numbers
<1>8. Accepted'
  BY <1>2 DEF IInv, Accepted, Told, Spots, Image, bridgeVars, netVars
<1>9. CleanIsPublished'
  BY <1>1, <1>2, <1>4 DEF IInv, CleanIsPublished, Image, netVars
<1>10. (Chain /\ PublishedInOrder /\ NoGapMeansComplete)'
  BY <1>2 DEF IInv, Chain, PublishedInOrder, NoGapMeansComplete, netVars
<1> QED
  BY <1>5, <1>6, <1>7, <1>8, <1>9, <1>10 DEF IInv

\* A vehicle state or a motion intent is recorded.
LEMMA RecordHolds ==
  ASSUME IInv, NEW ch \in {"state", "intent"}, Record(ch)
  PROVE  IInv'
<1>1. /\ UNCHANGED <<own, dirty, inflight, sequence, changes>>
      /\ UNCHANGED bridgeVars /\ UNCHANGED netVars /\ recorded' = recorded \cup {ch}
  BY DEF Record
<1>2. TypeOK'
  BY <1>1 DEF IInv, TypeOK, bridgeVars, netVars
<1>3. Pipeline'
  BY <1>1, PipelineSame DEF IInv, bridgeVars
<1> QED
  BY <1>1, <1>2, <1>3 DEF IInv, Numbers, Accepted, Told, Chain, CleanIsPublished, Image,
     PublishedInOrder, NoGapMeansComplete, bridgeVars, netVars

\* A flush prepares payloads and offers them to the queue.
LEMMA FlushHolds == IInv /\ Flush => IInv'
<1> SUFFICES ASSUME IInv, Flush PROVE IInv'
  OBVIOUS
<1>0. TypeOK /\ outbound \in Seq(Payloads) /\ inflight \in [Channels -> Payloads \cup {NoPayload}]
  BY DEF IInv, TypeOK
<1>1. PICK q : /\ Offered(q) /\ Len(outbound) + Len(q) <= QueueSize
               /\ inflight' = [ch \in Channels |-> IF \E i \in DOMAIN q : q[i] = ch
                                                     THEN Prepared(ch) ELSE inflight[ch]]
               /\ outbound' = outbound \o [i \in DOMAIN q |-> Prepared(q[i])]
  BY <1>0, FlushTakes
<1>2. /\ UNCHANGED <<own, dirty, recorded, sequence, changes>>
      /\ UNCHANGED <<sending, link, socket, results>> /\ UNCHANGED netVars
  BY DEF Flush
<1> DEFINE new == [i \in DOMAIN q |-> Prepared(q[i])]
<1>3. /\ q \in Seq(Channels) /\ DOMAIN q = 1..Len(q) /\ Len(q) \in Nat
      /\ \A i \in DOMAIN q : q[i] \in Channels /\ Preparable(q[i])
      /\ \A i, j \in DOMAIN q : q[i] = q[j] => i = j
  BY <1>1, LenProperties, ElementOfSeq DEF Offered
<1>4. /\ new \in Seq(Payloads) /\ Len(new) = Len(q) /\ DOMAIN new = DOMAIN q
      /\ \A i \in DOMAIN q : new[i] = Prepared(q[i]) /\ new[i].channel = q[i]
  BY <1>0, <1>3, PreparedType
<1> HIDE DEF new
<1>5. outbound' = outbound \o new
  BY <1>1 DEF new
<1>6. outbound' \in Seq(Payloads) /\ Len(outbound') <= QueueSize
  <2>1. outbound \o new \in Seq(Payloads) /\ Len(outbound \o new) = Len(outbound) + Len(new)
    BY <1>0, <1>4, ConcatProperties
  <2>2. Len(outbound) + Len(new) <= QueueSize
    BY <1>1, <1>4
  <2> QED
    BY <1>5, <2>1, <2>2, Zenon
<1>7. \A ch \in Channels : \/ inflight'[ch] = inflight[ch] /\ \A i \in DOMAIN q : q[i] # ch
                           \/ /\ inflight'[ch] = Prepared(ch) /\ inflight[ch] = NoPayload
                              /\ \E i \in DOMAIN q : q[i] = ch
  BY <1>1, <1>3 DEF Preparable
<1>8. TypeOK'
  <2>1. inflight' \in [Channels -> Payloads \cup {NoPayload}]
    BY <1>0, <1>1, PreparedType
  <2> QED
    BY <1>2, <1>6, <2>1 DEF IInv, TypeOK, netVars
<1>9. Pipeline'
  <2>1. ASSUME link \in {"open", "broken"}, NEW ch \in Channels
        PROVE  (Alone(ch) /\ Matches(ch) /\ (link = "open" => Present(ch)))'
    <3>1. Joins(outbound', outbound, new, ch)
      BY <1>0, <1>4, <1>5, ConcatSpots
    <3>2. InHand(ch)' = InHand(ch)
      BY <1>2 DEF InHand
    <3>3. Alone(ch) /\ Matches(ch) /\ (link = "open" => Present(ch))
      BY <2>1 DEF IInv, Pipeline
    <3>4. CASE inflight'[ch] = inflight[ch] /\ \A i \in DOMAIN q : q[i] # ch
      <4>1. Spots(new, ch) = {}
        BY <1>4, <3>4 DEF Spots
      <4>2. Spots(outbound', ch) = Spots(outbound, ch)
        BY <3>1, <4>1 DEF Joins
      <4> QED
        BY <1>2, <3>1, <3>2, <3>3, <3>4, <4>2 DEF Joins, Alone, Matches, Present
    <3>5. CASE /\ inflight'[ch] = Prepared(ch) /\ inflight[ch] = NoPayload
               /\ \E i \in DOMAIN q : q[i] = ch
      <4>1. PICK k \in DOMAIN q : q[k] = ch
        BY <3>5
      <4>2. Spots(new, ch) = {k} /\ new[k] = Prepared(ch)
        BY <1>3, <1>4, <4>1 DEF Spots
      <4>3. Spots(outbound, ch) = {} /\ ~InHand(ch) /\ Spots(socket, ch) = {} /\ Spots(results, ch) = {}
        BY <2>1, <3>5, IdleChannel
      <4>4. Spots(outbound', ch) = {Len(outbound) + k} /\ outbound'[Len(outbound) + k] = Prepared(ch)
        BY <3>1, <4>2, <4>3 DEF Joins
      <4> QED
        BY <1>2, <3>2, <3>5, <4>3, <4>4 DEF Alone, Matches, Present, Unique
    <3> QED
      BY <1>7, <3>4, <3>5
  <2> QED
    BY <1>2, <2>1 DEF IInv, Pipeline
<1>10. Numbers'
  <2> SUFFICES ASSUME NEW ch \in Channels, inflight'[ch] # NoPayload
               PROVE  /\ inflight'[ch].channel = ch /\ inflight'[ch].sequence = sequence'[ch] + 1
                      /\ DOMAIN inflight'[ch].cells \subseteq (IF ch = "delta" THEN dirty' ELSE {})
    BY DEF Numbers
  <2>1. CASE inflight'[ch] = inflight[ch]
    BY <1>2, <2>1 DEF IInv, Numbers
  <2>2. CASE inflight'[ch] = Prepared(ch)
    BY <1>0, <1>2, <2>2, PreparedType
  <2> QED
    BY <1>7, <2>1, <2>2
<1>11. Accepted'
  <2>1. Told' = Told /\ Image' = Image
    BY <1>2 DEF Told, Image, netVars
  <2>2. Told => inflight'["delta"] = inflight["delta"]
    <3>1. "delta" \in Channels
      BY DEF Channels
    <3>2. Told => inflight["delta"] # NoPayload
      BY ToldIsInflight, PayloadAssumption
    <3> QED
      BY <1>7, <3>1, <3>2
  <2> QED
    BY <1>2, <2>1, <2>2 DEF IInv, Accepted, netVars
<1>12. CleanIsPublished' /\ Chain' /\ PublishedInOrder' /\ NoGapMeansComplete'
  BY <1>2 DEF IInv, CleanIsPublished, Image, Chain, PublishedInOrder, NoGapMeansComplete, netVars
<1> QED
  BY <1>8, <1>9, <1>10, <1>11, <1>12 DEF IInv

(***************************************************************************)
(* The bridge.                                                             *)
(***************************************************************************)
\* What does not touch the source, the results and the network leaves the rest as it is.
LEMMA BridgeOnly ==
  ASSUME IInv, UNCHANGED stateVars, UNCHANGED netVars, UNCHANGED results, link' # "open" \/ link' = link,
         TypeOK', Pipeline'
  PROVE  IInv'
<1>1. Told' = Told /\ Image' = Image
  BY DEF Told, Image, netVars
<1>2. Accepted'
  BY <1>1 DEF IInv, Accepted, stateVars, netVars
<1>3. Numbers' /\ CleanIsPublished' /\ Chain' /\ PublishedInOrder' /\ NoGapMeansComplete'
  BY <1>1 DEF IInv, Numbers, CleanIsPublished, Chain, PublishedInOrder, NoGapMeansComplete,
     stateVars, netVars
<1> QED
  BY <1>2, <1>3 DEF IInv

\* The send loop takes a payload off the queue.
LEMMA SendNextHolds == IInv /\ SendNext => IInv'
<1> SUFFICES ASSUME IInv, SendNext PROVE IInv'
  OBVIOUS
<1>1. /\ sending = NoPayload /\ outbound # <<>>
      /\ sending' = Head(outbound) /\ outbound' = Tail(outbound)
      /\ UNCHANGED stateVars /\ UNCHANGED <<link, socket, results>> /\ UNCHANGED netVars
      /\ inflight' = inflight /\ outbound \in Seq(Payloads) /\ Len(outbound) <= QueueSize
  BY DEF SendNext, stateVars, IInv, TypeOK
<1>2. Head(outbound) \in Payloads /\ Tail(outbound) \in Seq(Payloads) /\ Len(Tail(outbound)) <= QueueSize
  BY <1>1, HeadTailProperties, LenProperties, SizeAssumption
<1>3. TypeOK'
  BY <1>1, <1>2 DEF IInv, TypeOK, stateVars, netVars
<1>4. Pipeline'
  <2>1. ASSUME link \in {"open", "broken"}, NEW ch \in Channels
        PROVE  (Alone(ch) /\ Matches(ch) /\ (link = "open" => Present(ch)))'
    <3>1. Alone(ch) /\ Matches(ch) /\ (link = "open" => Present(ch)) /\ ~InHand(ch)
      BY <1>1, <2>1 DEF IInv, Pipeline, InHand
    <3>2. Loses(outbound', outbound, ch)
      BY <1>1, TailSpots
    <3>3. InHand(ch)' <=> Head(outbound).channel = ch
      BY <1>1, <1>2, PayloadAssumption DEF InHand
    <3> QED
      <4>1. CASE Head(outbound).channel = ch
        BY <1>1, <3>1, <3>2, <3>3, <4>1 DEF Loses, Alone, Matches, Present
      <4>2. CASE Head(outbound).channel # ch
        BY <1>1, <3>1, <3>2, <3>3, <4>2 DEF Loses, Alone, Matches, Present
      <4> QED
        BY <4>1, <4>2
  <2> QED
    BY <1>1, <2>1 DEF IInv, Pipeline
<1> QED
  BY <1>1, <1>3, <1>4, BridgeOnly

\* It writes the payload to the sidecar.
LEMMA WriteHolds == IInv /\ Write => IInv'
<1> SUFFICES ASSUME IInv, Write PROVE IInv'
  OBVIOUS
<1>1. /\ sending \in Payloads /\ sending # NoPayload /\ link = "open"
      /\ socket' = Append(socket, sending) /\ sending' = NoPayload
      /\ UNCHANGED stateVars /\ UNCHANGED <<outbound, link, results>> /\ UNCHANGED netVars
      /\ inflight' = inflight /\ socket \in Seq(Payloads)
  BY DEF Write, stateVars, IInv, TypeOK
<1>2. socket' \in Seq(Payloads)
  BY <1>1, AppendProperties
<1>3. TypeOK'
  BY <1>1, <1>2 DEF IInv, TypeOK, stateVars, netVars
<1>4. Pipeline'
  <2>1. ASSUME NEW ch \in Channels
        PROVE  (Alone(ch) /\ Matches(ch) /\ Present(ch))'
    <3>1. Alone(ch) /\ Matches(ch) /\ Present(ch)
      BY <1>1 DEF IInv, Pipeline
    <3>2. Gains(socket', socket, sending, ch)
      BY <1>1, AppendSpots
    <3>3. (InHand(ch) <=> sending.channel = ch) /\ ~InHand(ch)'
      BY <1>1 DEF InHand
    <3> QED
      BY <1>1, <3>1, <3>2, <3>3 DEF Gains, Alone, Matches, Present, Unique
  <2> QED
    BY <1>1, <2>1 DEF IInv, Pipeline
<1> QED
  BY <1>1, <1>3, <1>4, BridgeOnly

\* A resolved payload is out of flight; an accepted one moves the number and cleans its cells.
LEMMA ResolveEffect ==
  ASSUME TypeOK, NEW ch \in Channels, NEW seq \in Nat, NEW accepted \in BOOLEAN,
         Resolve(ch, seq, accepted)
  PROVE  /\ own' = own /\ recorded' = recorded /\ changes' = changes
         /\ inflight' \in [Channels -> Payloads \cup {NoPayload}] /\ sequence' \in [Channels -> Nat]
         /\ dirty' \subseteq dirty /\ dirty' \subseteq {c \in Cells : own'[c] # Unknown}
         /\ \A other \in Channels \ {ch} :
              inflight'[other] = inflight[other] /\ sequence'[other] = sequence[other]
         /\ inflight'[ch] = inflight[ch] \/ inflight'[ch] = NoPayload
         /\ ~accepted => sequence' = sequence /\ dirty' = dirty
         /\ inflight[ch] # NoPayload /\ inflight[ch].sequence = seq =>
              /\ inflight'[ch] = NoPayload
              /\ accepted => sequence'[ch] = seq
         /\ \A c \in dirty \ dirty' :
              /\ inflight[ch] # NoPayload /\ inflight[ch].sequence = seq /\ accepted
              /\ c \in DOMAIN inflight[ch].cells /\ own[c] = inflight[ch].cells[c]
<1> DEFINE mine == inflight[ch] # NoPayload /\ inflight[ch].sequence = seq
<1>1. /\ inflight' = IF mine THEN [inflight EXCEPT ![ch] = NoPayload] ELSE inflight
      /\ sequence' = IF mine /\ accepted THEN [sequence EXCEPT ![ch] = seq] ELSE sequence
      /\ dirty' = IF mine /\ accepted
                    THEN {c \in dirty : c \in DOMAIN inflight[ch].cells => own[c] # inflight[ch].cells[c]}
                    ELSE dirty
      /\ own' = own /\ recorded' = recorded /\ changes' = changes
  BY DEF Resolve
<1>2. inflight \in [Channels -> Payloads \cup {NoPayload}] /\ sequence \in [Channels -> Nat]
      /\ dirty \subseteq {c \in Cells : own[c] # Unknown}
  BY DEF TypeOK
<1> QED
  BY <1>1, <1>2

\* The write raises, and the payload is given up.
LEMMA WriteLostHolds == IInv /\ WriteLost => IInv'
<1> SUFFICES ASSUME IInv, WriteLost PROVE IInv'
  OBVIOUS
<1> DEFINE ch == sending.channel
<1>1. /\ sending \in Payloads /\ sending # NoPayload /\ link \in {"broken", "closing"}
      /\ sending' = NoPayload /\ UNCHANGED <<outbound, link, socket, results>> /\ UNCHANGED netVars
      /\ TypeOK /\ ch \in Channels /\ sending.sequence \in Nat
  BY DEF WriteLost, IInv, TypeOK, Payloads
<1>2. \A c \in Channels : ~InHand(c)'
  BY <1>1 DEF InHand
<1>3. CASE UNCHANGED stateVars
  <2>1. TypeOK'
    BY <1>1, <1>3 DEF TypeOK, stateVars, netVars
  <2>2. Pipeline'
    BY <1>1, <1>2, <1>3 DEF IInv, Pipeline, Alone, Matches, stateVars
  <2> QED
    BY <1>1, <1>3, <2>1, <2>2, BridgeOnly
<1>4. CASE Resolve(ch, sending.sequence, FALSE)
  <2>1. /\ own' = own /\ recorded' = recorded /\ changes' = changes
        /\ inflight' \in [Channels -> Payloads \cup {NoPayload}]
        /\ sequence' = sequence /\ dirty' = dirty
        /\ \A c \in Channels \ {ch} : inflight'[c] = inflight[c]
        /\ inflight'[ch] = inflight[ch] \/ inflight'[ch] = NoPayload
    BY <1>1, <1>4, ResolveEffect
  <2>2. TypeOK'
    BY <1>1, <2>1 DEF TypeOK, netVars
  <2>3. ASSUME link = "broken", NEW c \in Channels
        PROVE  (Alone(c) /\ Matches(c))'
    <3>1. Alone(c) /\ Matches(c)
      BY <2>3 DEF IInv, Pipeline
    <3>2. CASE c # ch
      BY <1>1, <1>2, <2>1, <3>1, <3>2 DEF Alone, Matches
    <3>3. CASE c = ch
      <4>1. InHand(c)
        BY <1>1, <3>3 DEF InHand
      <4>2. Spots(outbound, c) = {} /\ Spots(socket, c) = {} /\ Spots(results, c) = {}
        BY <3>1, <4>1 DEF Alone
      <4> QED
        BY <1>1, <1>2, <4>2 DEF Alone, Matches, Unique
    <3> QED
      BY <3>2, <3>3
  <2>4. Pipeline'
    BY <1>1, <2>3 DEF IInv, Pipeline
  <2>5. Numbers'
    BY <1>1, <2>1 DEF IInv, Numbers
  <2>6. Told' = Told /\ Image' = Image
    BY <1>1 DEF Told, Image, netVars
  <2>7. Told => inflight'["delta"] = inflight["delta"]
    <3>1. Told => ch # "delta" /\ "delta" \in Channels
      BY <1>1, ToldIsInflight DEF InHand, Channels
    <3> QED
      BY <2>1, <3>1
  <2>8. Accepted'
    BY <1>1, <2>6, <2>7 DEF IInv, Accepted
  <2>9. CleanIsPublished' /\ Chain' /\ PublishedInOrder' /\ NoGapMeansComplete'
    BY <1>1, <2>1, <2>6 DEF IInv, CleanIsPublished, Chain, PublishedInOrder, NoGapMeansComplete, netVars
  <2> QED
    BY <2>2, <2>4, <2>5, <2>8, <2>9 DEF IInv
<1> QED
  BY <1>3, <1>4 DEF WriteLost

\* The writer is closed.
LEMMA WriterClosedHolds == IInv /\ WriterClosed => IInv'
<1> SUFFICES ASSUME IInv, WriterClosed PROVE IInv'
  OBVIOUS
<1>1. /\ link = "closing" /\ link' = "gone"
      /\ UNCHANGED stateVars /\ UNCHANGED <<outbound, sending, socket, results>> /\ UNCHANGED netVars
  BY DEF WriterClosed
<1>2. TypeOK'
  BY <1>1 DEF IInv, TypeOK, stateVars, netVars
<1>3. Pipeline'
  BY <1>1 DEF IInv, Pipeline
<1> QED
  BY <1>1, <1>2, <1>3, BridgeOnly

\* network_disconnected: nothing is in flight any more.
LEMMA DisconnectedHolds == IInv /\ Disconnected => IInv'
<1> SUFFICES ASSUME IInv, Disconnected PROVE IInv'
  OBVIOUS
<1>1. /\ link = "broken" /\ link' = "closing" /\ results' = <<>>
      /\ inflight' = [ch \in Channels |-> NoPayload]
      /\ UNCHANGED <<own, dirty, recorded, sequence, changes, outbound, sending, socket>>
      /\ UNCHANGED netVars
  BY DEF Disconnected
<1>2. TypeOK'
  BY <1>1 DEF IInv, TypeOK, netVars
<1>3. Pipeline'
  BY <1>1 DEF IInv, Pipeline
<1>4. ~Told' /\ Image' = Image
  BY <1>1 DEF Told, Spots, Image, netVars
<1>5. Numbers' /\ Accepted'
  BY <1>1, <1>4 DEF Numbers, Accepted
<1>6. CleanIsPublished' /\ Chain' /\ PublishedInOrder' /\ NoGapMeansComplete'
  BY <1>1, <1>4 DEF IInv, CleanIsPublished, Chain, PublishedInOrder, NoGapMeansComplete, netVars
<1> QED
  BY <1>2, <1>3, <1>5, <1>6 DEF IInv

\* The sidecar dies.
LEMMA SidecarDiesHolds == IInv /\ SidecarDies => IInv'
<1> SUFFICES ASSUME IInv, SidecarDies PROVE IInv'
  OBVIOUS
<1>1. /\ link = "open" /\ link' = "broken" /\ socket' = <<>>
      /\ UNCHANGED stateVars /\ UNCHANGED <<outbound, sending, results>> /\ UNCHANGED netVars
  BY DEF SidecarDies
<1>2. TypeOK'
  BY <1>1 DEF IInv, TypeOK, stateVars, netVars
<1>3. \A ch \in Channels : Spots(socket', ch) = {}
  BY <1>1 DEF Spots
<1>4. ASSUME NEW ch \in Channels PROVE (Alone(ch) /\ Matches(ch))'
  <2>1. Alone(ch) /\ Matches(ch) /\ InHand(ch)' = InHand(ch) /\ inflight' = inflight
    BY <1>1 DEF IInv, Pipeline, InHand, stateVars
  <2> QED
    BY <1>1, <1>3, <2>1 DEF Alone, Matches, Unique
<1>5. Pipeline'
  BY <1>1, <1>4 DEF Pipeline
<1> QED
  BY <1>1, <1>2, <1>5, BridgeOnly

\* The read loop credits a result.
LEMMA ReadResultHolds == IInv /\ ReadResult => IInv'
<1> SUFFICES ASSUME IInv, ReadResult PROVE IInv'
  OBVIOUS
<1> DEFINE R == [channel : Channels, sequence : Nat, accepted : BOOLEAN]
           r == Head(results)
           ch == r.channel
<1>0. results \in Seq(R) /\ results # <<>> /\ results' = Tail(results)
  BY DEF ReadResult, IInv, TypeOK
<1>1. r \in R /\ results' \in Seq(R)
  BY <1>0, TailSpots
<1>2. \A c : Loses(results', results, c)
  BY <1>0, TailSpots
<1>3. /\ link \in {"open", "broken"} /\ Resolve(ch, r.sequence, r.accepted)
      /\ UNCHANGED <<outbound, sending, link, socket>> /\ UNCHANGED netVars
      /\ TypeOK /\ ch \in Channels /\ r.sequence \in Nat /\ r.accepted \in BOOLEAN
  BY <1>1 DEF ReadResult, IInv
<1> HIDE DEF R
<1>4. \A c \in Channels : Alone(c) /\ Matches(c) /\ (link = "open" => Present(c))
  BY <1>3 DEF IInv, Pipeline
<1>5. 1 \in Spots(results, ch) /\ results[1] = r
  BY <1>2 DEF Loses
<1>6. /\ inflight[ch] # NoPayload /\ r.sequence = inflight[ch].sequence
      /\ Spots(outbound, ch) = {} /\ ~InHand(ch) /\ Spots(socket, ch) = {} /\ Spots(results', ch) = {}
  <2>1. Alone(ch) /\ Matches(ch) /\ Loses(results', results, ch)
    BY <1>2, <1>3, <1>4
  <2> HIDE DEF ch, r
  <2> QED
    BY <1>5, <2>1 DEF Alone, Matches, Loses, ch
<1> HIDE DEF r, ch
<1>7. /\ own' = own /\ recorded' = recorded /\ changes' = changes
      /\ inflight' \in [Channels -> Payloads \cup {NoPayload}] /\ sequence' \in [Channels -> Nat]
      /\ dirty' \subseteq dirty /\ dirty' \subseteq {c \in Cells : own'[c] # Unknown}
      /\ \A c \in Channels \ {ch} : inflight'[c] = inflight[c] /\ sequence'[c] = sequence[c]
      /\ ~r.accepted => sequence' = sequence /\ dirty' = dirty
      /\ inflight'[ch] = NoPayload /\ (r.accepted => sequence'[ch] = r.sequence)
      /\ \A c \in dirty \ dirty' :
           r.accepted /\ c \in DOMAIN inflight[ch].cells /\ own[c] = inflight[ch].cells[c]
  BY <1>3, <1>6, ResolveEffect
<1>8. TypeOK'
  BY <1>1, <1>3, <1>7 DEF TypeOK, netVars, R
<1>9. ASSUME NEW c \in Channels
      PROVE  (Alone(c) /\ Matches(c) /\ (link = "open" => Present(c)))'
  <2>1. InHand(c)' = InHand(c) /\ Loses(results', results, c)
    BY <1>2, <1>3 DEF InHand
  <2>2. CASE c = ch
    BY <1>3, <1>6, <1>7, <2>1, <2>2 DEF Alone, Matches, Present, Unique
  <2>3. CASE c # ch
    <3>1. Alone(c) /\ Matches(c) /\ (link = "open" => Present(c)) /\ inflight'[c] = inflight[c]
      BY <1>4, <1>7, <2>3
    <3>2. Head(results).channel # c
      BY <2>3 DEF r, ch
    <3> QED
      BY <1>3, <2>1, <3>1, <3>2 DEF Alone, Matches, Present, Loses
  <2> QED
    BY <2>2, <2>3
<1>10. Pipeline'
  BY <1>3, <1>9 DEF IInv, Pipeline
<1>11. ch # "delta" => dirty' = dirty
  <2>1. ch # "delta" => DOMAIN inflight[ch].cells = {}
    BY <1>3, <1>6 DEF IInv, Numbers
  <2> QED
    BY <1>7, <2>1
<1>12. Numbers'
  <2> SUFFICES ASSUME NEW c \in Channels, inflight'[c] # NoPayload
               PROVE  /\ inflight'[c].channel = c /\ inflight'[c].sequence = sequence'[c] + 1
                      /\ DOMAIN inflight'[c].cells \subseteq (IF c = "delta" THEN dirty' ELSE {})
    BY DEF Numbers
  <2>1. c # ch /\ inflight'[c] = inflight[c] /\ sequence'[c] = sequence[c]
    BY <1>7
  <2> QED
    BY <1>11, <2>1 DEF IInv, Numbers
<1>13. CASE ch = "delta"
  <2>1. Spots(results', "delta") = {} /\ ~Told'
    BY <1>6, <1>13 DEF Told
  <2>2. Told <=> r.accepted
    BY <1>3, <1>4, <1>5, <1>13 DEF Told, Alone, Unique
  <2>3. Accepted'
    <3>1. "delta" \in Channels /\ sequence["delta"] \in Nat
          /\ inflight["delta"].sequence = sequence["delta"] + 1
      BY <1>3, <1>6, <1>13 DEF IInv, Numbers, TypeOK
    <3>2. sequence'["delta"] = sequence["delta"] + (IF Told THEN 1 ELSE 0)
      BY <1>3, <1>6, <1>7, <1>13, <2>2, <3>1
    <3> QED
      BY <1>3, <2>1, <3>1, <3>2 DEF IInv, Accepted, netVars
  <2>4. CleanIsPublished'
    <3> SUFFICES ASSUME NEW c \in Cells, own'[c] # Unknown, c \notin dirty'
                 PROVE  Image'[c] = own'[c]
      BY DEF CleanIsPublished
    <3>1. Image' = Image /\ own' = own
      BY <1>3, <1>7 DEF Image, netVars
    <3>2. CASE c \notin dirty
      BY <3>1, <3>2 DEF IInv, CleanIsPublished
    <3>3. CASE c \in dirty
      BY <1>7, <1>13, <2>2, <3>1, <3>3 DEF IInv, Accepted
    <3> QED
      BY <3>2, <3>3
  <2> QED
    BY <1>3, <1>8, <1>10, <1>12, <2>3, <2>4
       DEF IInv, Chain, PublishedInOrder, NoGapMeansComplete, netVars
<1>14. CASE ch # "delta"
  <2>1. "delta" \in Channels /\ inflight'["delta"] = inflight["delta"]
        /\ sequence'["delta"] = sequence["delta"]
    BY <1>7, <1>14 DEF Channels
  <2>2. Image' = Image /\ own' = own /\ dirty' = dirty
    BY <1>3, <1>7, <1>11, <1>14 DEF Image, netVars
  <2>3. Told' <=> Told
    <3>1. Head(results).channel # "delta" /\ Loses(results', results, "delta")
      BY <1>2, <1>14 DEF r, ch
    <3> QED
      BY <3>1 DEF Told, Loses
  <2>4. Accepted'
    BY <1>3, <2>1, <2>2, <2>3 DEF IInv, Accepted, netVars
  <2>5. CleanIsPublished'
    BY <2>2 DEF IInv, CleanIsPublished
  <2> QED
    BY <1>3, <1>8, <1>10, <1>12, <2>4, <2>5
       DEF IInv, Chain, PublishedInOrder, NoGapMeansComplete, netVars
<1> QED
  BY <1>13, <1>14

(***************************************************************************)
(* The sidecar and the peers.                                              *)
(***************************************************************************)
\* What holds of the history of published deltas.
History == Chain /\ CleanIsPublished /\ PublishedInOrder /\ NoGapMeansComplete

\* An accepted delta is the next number, and shows the map after it.
LEMMA PublishHistory ==
  ASSUME TypeOK, History, NEW delta \in Payloads,
         delta.sequence = Len(published) + 1, DOMAIN delta.cells \subseteq dirty,
         published' = Append(published, [sequence |-> delta.sequence, cells |-> delta.cells,
                                         image |-> Overlay(Image, delta.cells)]),
         UNCHANGED <<own, dirty, received>>
  PROVE  /\ History'
         /\ published' \in Seq([sequence : Nat, cells : Patches, image : Maps])
         /\ Len(published') = Len(published) + 1 /\ Image' = Overlay(Image, delta.cells)
<1> DEFINE S == [sequence : Nat, cells : Patches, image : Maps]
           new == [sequence |-> delta.sequence, cells |-> delta.cells, image |-> Overlay(Image, delta.cells)]
           n == Len(published) + 1
<1>1. new \in S
  <2>1. delta.cells \in Patches /\ delta.sequence \in Nat
    BY DEF Payloads
  <2> QED
    BY <2>1, ImageType, OverlayType
<1>2. published \in Seq(S) /\ Len(published) \in Nat /\ DOMAIN published = 1..Len(published)
  BY LenProperties DEF TypeOK
<1>3. /\ published' \in Seq(S) /\ Len(published') = n /\ published'[n] = new
      /\ DOMAIN published' = 1..n /\ \A i \in 1..Len(published) : published'[i] = published[i]
  BY <1>1, <1>2, AppendProperties, LenProperties
<1>4. /\ n \in Nat \ {0} /\ n - 1 = Len(published)
      /\ \A i \in 1..n : i = n \/ i \in 1..Len(published)
      /\ \A i \in 1..Len(published) : i = 1 \/ i - 1 \in 1..Len(published)
  BY <1>2
<1>5. Image = IF n = 1 THEN Blank ELSE published[n - 1].image
  BY <1>2, <1>4, EmptySeq DEF Image
<1>6. Image' = Overlay(Image, delta.cells)
  <2>1. published' # <<>> /\ published'[Len(published')].image = Overlay(Image, delta.cells)
    BY <1>3, <1>4
  <2> QED
    BY <2>1 DEF Image
<1>7. Chain'
  <2> SUFFICES ASSUME NEW i \in 1..n
               PROVE  published'[i].image =
                        Overlay(IF i = 1 THEN Blank ELSE published'[i - 1].image, published'[i].cells)
    BY <1>3 DEF Chain
  <2>1. CASE i = n
    <3>1. published'[i].image = Overlay(Image, published'[i].cells)
      BY <1>3, <2>1
    <3>2. Image = IF i = 1 THEN Blank ELSE published'[i - 1].image
      <4>1. CASE n = 1
        BY <1>5, <2>1, <4>1
      <4>2. CASE n # 1
        <5>1. n - 1 \in 1..Len(published)
          BY <1>4, <4>2
        <5> QED
          BY <1>3, <1>5, <2>1, <4>2, <5>1
      <4> QED
        BY <4>1, <4>2
    <3> QED
      BY <3>1, <3>2
  <2>2. CASE i \in 1..Len(published)
    BY <1>2, <1>3, <1>4, <2>2 DEF History, Chain
  <2> QED
    BY <1>4, <2>1, <2>2
<1>8. CleanIsPublished'
  <2> SUFFICES ASSUME NEW c \in Cells, own[c] # Unknown, c \notin dirty PROVE Image'[c] = own[c]
    BY DEF CleanIsPublished
  <2>1. Image'[c] = Image[c]
    BY <1>6 DEF Overlay
  <2> QED
    BY <2>1 DEF History, CleanIsPublished
<1>9. PublishedInOrder'
  <2> SUFFICES ASSUME NEW i \in 1..n PROVE published'[i].sequence = i
    BY <1>3 DEF PublishedInOrder
  <2> QED
    BY <1>2, <1>3, <1>4 DEF History, PublishedInOrder
<1>10. NoGapMeansComplete'
  <2> SUFFICES ASSUME NEW p \in Peers
               PROVE  /\ received[p].sequence <= Len(published')
                      /\ received[p].gaps = 0 =>
                           received[p].evidence =
                             IF received[p].sequence = 0 THEN Blank
                             ELSE published'[received[p].sequence].image
    BY DEF NoGapMeansComplete
  <2>1. received[p].sequence \in Nat /\ received[p].sequence <= Len(published)
    BY DEF TypeOK, History, NoGapMeansComplete
  <2>2. received[p].sequence = 0 \/ received[p].sequence \in 1..Len(published)
    BY <1>2, <2>1
  <2> QED
    BY <1>2, <1>3, <2>1, <2>2 DEF History, NoGapMeansComplete
<1> QED
  BY <1>3, <1>6, <1>7, <1>8, <1>9, <1>10 DEF History

\* The sidecar publishes a payload, or gossip refuses it.
LEMMA SidecarPublishHolds ==
  ASSUME IInv, NEW accepted \in BOOLEAN, SidecarPublish(accepted)
  PROVE  IInv'
<1> DEFINE R == [channel : Channels, sequence : Nat, accepted : BOOLEAN]
           payload == Head(socket)
           ch == payload.channel
           result == [channel |-> ch, sequence |-> payload.sequence, accepted |-> accepted]
<1>1. /\ link = "open" /\ socket # <<>> /\ socket' = Tail(socket) /\ results' = Append(results, result)
      /\ UNCHANGED stateVars /\ UNCHANGED <<outbound, sending, link, received>>
      /\ socket \in Seq(Payloads) /\ results \in Seq(R) /\ TypeOK
      /\ published' = IF accepted /\ ch = "delta"
                        THEN Append(published, [sequence |-> payload.sequence, cells |-> payload.cells,
                                                image |-> Overlay(Image, payload.cells)])
                        ELSE published
  BY DEF SidecarPublish, IInv, TypeOK
<1>2. payload \in Payloads /\ socket' \in Seq(Payloads) /\ \A c : Loses(socket', socket, c)
  BY <1>1, TailSpots
<1>3. ch \in Channels /\ result \in R
  BY <1>2 DEF Payloads
<1>4. results' \in Seq(R) /\ \A c : Gains(results', results, result, c)
  BY <1>1, <1>3, AppendSpots
<1>5. result.channel = ch /\ result.sequence = payload.sequence /\ result.accepted = accepted
  OBVIOUS
<1>6. Head(socket).channel = ch
  OBVIOUS
<1>7. \A c \in Channels : Alone(c) /\ Matches(c) /\ Present(c)
  BY <1>1 DEF IInv, Pipeline
<1>8. 1 \in Spots(socket, ch) /\ socket[1] = payload
  BY <1>2 DEF Loses
<1> HIDE DEF R, result, ch
<1>9. /\ inflight[ch] = payload /\ payload # NoPayload
      /\ Spots(outbound, ch) = {} /\ ~InHand(ch) /\ Spots(results, ch) = {} /\ Spots(socket', ch) = {}
  <2>1. Alone(ch) /\ Matches(ch) /\ Loses(socket', socket, ch)
    BY <1>2, <1>3, <1>7
  <2> QED
    BY <1>2, <1>6, <1>8, <2>1, PayloadAssumption DEF Alone, Matches, Loses
<1>10. payload.sequence = sequence[ch] + 1 /\ DOMAIN payload.cells \subseteq (IF ch = "delta" THEN dirty ELSE {})
  BY <1>3, <1>9 DEF IInv, Numbers
<1> HIDE DEF payload
<1>11. ASSUME NEW c \in Channels PROVE (Alone(c) /\ Matches(c) /\ Present(c))'
  <2>1. /\ InHand(c)' = InHand(c) /\ inflight' = inflight /\ outbound' = outbound /\ sending' = sending
        /\ Loses(socket', socket, c) /\ Gains(results', results, result, c)
        /\ Alone(c) /\ Matches(c) /\ Present(c)
    BY <1>1, <1>2, <1>4, <1>7 DEF InHand, stateVars
  <2>2. CASE c = ch
    BY <1>5, <1>9, <2>1, <2>2 DEF Gains, Alone, Matches, Present, Unique
  <2>3. CASE c # ch
    <3>1. Spots(results', c) = Spots(results, c) /\ \A i \in Spots(results, c) : results'[i] = results[i]
      BY <1>5, <2>1, <2>3 DEF Gains
    <3>2. Spots(socket, c) # {} <=> Spots(socket', c) # {}
      BY <1>6, <2>1, <2>3 DEF Loses
    <3>3. \A i \in Spots(socket', c) : i + 1 \in Spots(socket, c) /\ socket'[i] = socket[i + 1]
      BY <2>1 DEF Loses
    <3>4. Unique(Spots(socket', c))
      BY <2>1 DEF Loses, Alone
    <3> QED
      BY <2>1, <3>1, <3>2, <3>3, <3>4 DEF Alone, Matches, Present
  <2> QED
    BY <2>2, <2>3
<1>12. Pipeline'
  BY <1>1, <1>11 DEF Pipeline
<1>13. Numbers'
  BY <1>1 DEF IInv, Numbers, stateVars
<1>14. History
  BY DEF IInv, History
<1>15. CASE accepted /\ ch = "delta"
  <2>1. ~Told
    BY <1>9, <1>15 DEF Told
  <2>2. Told'
    BY <1>4, <1>5, <1>15 DEF Told, Gains
  <2>3. Len(published) = sequence["delta"] /\ payload.sequence = Len(published) + 1
    <3>1. Len(published) = sequence["delta"] + 0 /\ sequence["delta"] \in Nat
      BY <1>1, <1>3, <1>15, <2>1 DEF IInv, Accepted, TypeOK
    <3> QED
      BY <1>10, <1>15, <3>1
  <2>4. /\ History'
        /\ published' \in Seq([sequence : Nat, cells : Patches, image : Maps])
        /\ Len(published') = Len(published) + 1 /\ Image' = Overlay(Image, payload.cells)
    BY <1>1, <1>2, <1>10, <1>14, <1>15, <2>3, PublishHistory DEF stateVars
  <2>5. TypeOK'
    BY <1>1, <1>2, <1>4, <2>4 DEF TypeOK, stateVars, R
  <2>6. Accepted'
    <3>1. \A c \in DOMAIN payload.cells : Image'[c] = payload.cells[c]
      <4>1. DOMAIN payload.cells \subseteq Cells
        BY <1>1, <1>10, <1>15 DEF TypeOK
      <4> QED
        BY <2>4, <4>1 DEF Overlay
    <3>2. inflight'["delta"] = payload /\ sequence' = sequence
      BY <1>1, <1>9, <1>15 DEF stateVars
    <3> QED
      BY <2>2, <2>3, <2>4, <3>1, <3>2 DEF Accepted
  <2> QED
    BY <1>12, <1>13, <2>4, <2>5, <2>6 DEF IInv, History
<1>16. CASE ~(accepted /\ ch = "delta")
  <2>1. published' = published /\ Image' = Image
    BY <1>1, <1>16 DEF Image
  <2>2. Told' <=> Told
    <3>1. Gains(results', results, result, "delta")
      BY <1>4
    <3>2. CASE ch # "delta"
      BY <1>5, <3>1, <3>2 DEF Told, Gains
    <3>3. CASE ch = "delta" /\ ~accepted
      BY <1>5, <1>9, <3>1, <3>3 DEF Told, Gains
    <3> QED
      BY <1>16, <3>2, <3>3
  <2>3. TypeOK'
    BY <1>1, <1>2, <1>4, <2>1 DEF TypeOK, stateVars, R
  <2>4. Accepted'
    BY <1>1, <2>1, <2>2 DEF IInv, Accepted, stateVars
  <2>5. CleanIsPublished' /\ Chain' /\ PublishedInOrder' /\ NoGapMeansComplete'
    BY <1>1, <2>1 DEF IInv, CleanIsPublished, Chain, PublishedInOrder, NoGapMeansComplete, stateVars
  <2> QED
    BY <1>12, <1>13, <2>3, <2>4, <2>5 DEF IInv
<1> QED
  BY <1>15, <1>16

\* A gap counter that stays zero skipped no number.
LEMMA NothingSkipped ==
  ASSUME NEW n \in Nat, NEW s \in Nat, NEW g \in Nat, s < n
  PROVE  n - s - 1 \in Nat /\ (g + (n - s - 1) = 0 => g = 0 /\ n - 1 = s)
OBVIOUS

\* A peer that missed nothing so far, and misses nothing now, overlays the next published map.
LEMMA DeliverHolds ==
  ASSUME IInv, NEW p \in Peers, NEW n \in DOMAIN published, Deliver(p, n)
  PROVE  IInv'
<1> DEFINE old == received[p]
           delta == published[n]
           new == [sequence |-> delta.sequence,
                   gaps     |-> old.gaps + (delta.sequence - old.sequence - 1),
                   evidence |-> Overlay(old.evidence, delta.cells)]
           T == [sequence : Nat, gaps : Nat, evidence : Maps]
<1>1. /\ delta.sequence > old.sequence
      /\ received' = [received EXCEPT ![p] = new]
      /\ UNCHANGED stateVars /\ UNCHANGED bridgeVars /\ UNCHANGED published
  BY DEF Deliver
<1>2. received \in [Peers -> T] /\ old \in T
  BY DEF IInv, TypeOK
<1>3. /\ n \in Nat /\ n > 0 /\ n <= Len(published) /\ n \in 1..Len(published)
      /\ delta.cells \in Patches /\ delta.sequence = n /\ Len(published) \in Nat
  <2> DEFINE S == [sequence : Nat, cells : Patches, image : Maps]
  <2>1. published \in Seq(S) /\ DOMAIN published = 1..Len(published) /\ Len(published) \in Nat
    BY LenProperties DEF IInv, TypeOK
  <2>2. delta \in S
    BY <2>1, ElementOfSeq
  <2>3. delta.sequence = n
    BY DEF IInv, PublishedInOrder
  <2> QED
    BY <2>1, <2>2, <2>3
<1>4. old.sequence \in Nat /\ old.gaps \in Nat /\ old.evidence \in Maps /\ old.sequence < n
  BY <1>1, <1>2, <1>3
<1>5. n - old.sequence - 1 \in Nat /\ (old.gaps + (n - old.sequence - 1) = 0 => old.gaps = 0 /\ n - 1 = old.sequence)
  BY <1>3, <1>4, NothingSkipped
<1>6. new \in T
  BY <1>3, <1>4, <1>5, OverlayType
<1> HIDE DEF T
<1>7. received' \in [Peers -> T] /\ received'[p] = new /\ \A q \in Peers \ {p} : received'[q] = received[q]
  BY <1>1, <1>2, <1>6
<1>8. TypeOK'
  BY <1>1, <1>7 DEF IInv, TypeOK, stateVars, bridgeVars, T
<1>9. Pipeline'
  BY <1>1, PipelineSame DEF IInv, stateVars, bridgeVars
<1>10. NoGapMeansComplete'
  <2> SUFFICES ASSUME NEW q \in Peers
               PROVE  /\ received'[q].sequence <= Len(published)
                      /\ received'[q].gaps = 0 =>
                           received'[q].evidence =
                             IF received'[q].sequence = 0 THEN Blank
                             ELSE published[received'[q].sequence].image
    BY <1>1 DEF NoGapMeansComplete
  <2>1. CASE q # p
    BY <1>7, <2>1 DEF IInv, NoGapMeansComplete
  <2>2. CASE q = p
    <3>1. /\ received'[q].sequence = n /\ received'[q].evidence = Overlay(old.evidence, delta.cells)
          /\ received'[q].gaps = old.gaps + (n - old.sequence - 1)
      BY <1>3, <1>7, <2>2
    <3>2. ASSUME old.gaps = 0, n - 1 = old.sequence
          PROVE  received'[q].evidence = published[n].image
      <4>1. old.evidence = IF n = 1 THEN Blank ELSE published[n - 1].image
        <5>1. old.evidence = IF old.sequence = 0 THEN Blank ELSE published[old.sequence].image
          BY <3>2 DEF IInv, NoGapMeansComplete
        <5>2. n = 1 <=> n - 1 = 0
          BY <1>3
        <5> QED
          BY <3>2, <5>1, <5>2
      <4>2. published[n].image =
              Overlay(IF n = 1 THEN Blank ELSE published[n - 1].image, published[n].cells)
        BY DEF IInv, Chain
      <4> QED
        BY <3>1, <4>1, <4>2
    <3>3. n # 0 /\ n <= Len(published)
      BY <1>3
    <3>4. received'[q].gaps = 0 => received'[q].evidence = published[n].image
      BY <1>5, <3>1, <3>2
    <3> QED
      BY <3>1, <3>3, <3>4
  <2> QED
    BY <2>1, <2>2
<1>11. Told' = Told /\ Image' = Image
  BY <1>1 DEF Told, Image, bridgeVars
<1>12. Numbers' /\ Accepted' /\ Chain' /\ CleanIsPublished' /\ PublishedInOrder'
  BY <1>1, <1>11 DEF IInv, Numbers, Accepted, Chain, CleanIsPublished, PublishedInOrder,
     stateVars, bridgeVars
<1> QED
  BY <1>8, <1>9, <1>10, <1>12 DEF IInv

\* Every step keeps the invariant.
LEMMA Inductive == IInv /\ [Next]_vars => IInv'
<1> SUFFICES ASSUME IInv, [Next]_vars PROVE IInv'
  OBVIOUS
<1>1. CASE Source
  BY <1>1, RecordLocalHolds, RecordHolds, FlushHolds DEF Source
<1>2. CASE Bridge
  BY <1>2, SendNextHolds, WriteHolds, WriteLostHolds, ReadResultHolds, DisconnectedHolds,
     WriterClosedHolds DEF Bridge
<1>3. CASE Sidecar
  BY <1>3, SidecarPublishHolds, SidecarDiesHolds DEF Sidecar
<1>4. CASE Network
  BY <1>4, DeliverHolds DEF Network
<1>5. CASE UNCHANGED vars
  <2>1. UNCHANGED stateVars /\ UNCHANGED bridgeVars /\ UNCHANGED netVars
    BY <1>5 DEF vars
  <2>2. TypeOK'
    BY <2>1 DEF IInv, TypeOK, stateVars, bridgeVars, netVars
  <2>3. Pipeline'
    BY <2>1, PipelineSame DEF IInv, stateVars, bridgeVars
  <2> QED
    BY <2>1, <2>2, <2>3, BridgeOnly DEF bridgeVars
<1> QED
  BY <1>1, <1>2, <1>3, <1>4, <1>5 DEF Next

\* The inductive invariant holds in every state the pipeline reaches.
LEMMA Invariance == Spec => []IInv
<1>1. Init => IInv
  BY InitHolds
<1>2. IInv /\ [Next]_vars => IInv'
  BY Inductive
<1> QED
  BY <1>1, <1>2, PTL DEF Spec

(***************************************************************************)
(* What the pipeline promises.                                             *)
(***************************************************************************)
\* Every state variable keeps its type; in particular the bridge's queue never exceeds its maxsize.
THEOREM TypeCorrect == Spec => []TypeOK
<1>1. IInv => TypeOK
  BY DEF IInv
<1> QED
  BY <1>1, Invariance, PTL

\* A cell the vehicle knows and no longer counts as dirty is published as the vehicle knows
\* it, wherever a rejection, a change in flight or the death of the sidecar falls.
THEOREM NothingForgotten == Spec => []CleanIsPublished
<1>1. IInv => CleanIsPublished
  BY DEF IInv
<1> QED
  BY <1>1, Invariance, PTL

\* The accepted deltas of a vehicle are numbered 1, 2, 3, ... without a gap or a repetition.
THEOREM NumberedInOrder == Spec => []PublishedInOrder
<1>1. IInv => PublishedInOrder
  BY DEF IInv
<1> QED
  BY <1>1, Invariance, PTL

\* A peer whose gap counter is zero holds exactly the map published up to its sequence
\* number, whatever gossip loses, repeats or reorders.
THEOREM PeersAreComplete == Spec => []NoGapMeansComplete
<1>1. IInv => NoGapMeansComplete
  BY DEF IInv
<1> QED
  BY <1>1, Invariance, PTL

(***************************************************************************)
(* The pipeline counted: Carried, in the order the payloads travel.        *)
(***************************************************************************)
LEMMA CountUnique ==
  ASSUME NEW S, Unique(S)
  PROVE  Cardinality(S) = IF S = {} THEN 0 ELSE 1
<1>1. CASE S = {}
  BY <1>1, FS_EmptySet
<1>2. CASE S # {}
  <2>1. PICK x \in S : S = {x}
    BY <1>2 DEF Unique
  <2> QED
    BY <1>2, <2>1, FS_Singleton
<1> QED
  BY <1>1, <1>2

\* s holds x, once or not at all, and nothing else of the channel.
OnlyOnce(s, ch, x) == Unique(Spots(s, ch)) /\ \A i \in Spots(s, ch) : s[i] = x

\* Two sequences of which one at most holds something of the channel.
LEMMA JoinOne ==
  ASSUME NEW r, NEW s, NEW t, NEW ch, NEW x, Joins(r, s, t, ch),
         OnlyOnce(s, ch, x), OnlyOnce(t, ch, x), Spots(s, ch) = {} \/ Spots(t, ch) = {}
  PROVE  /\ OnlyOnce(r, ch, x)
         /\ Spots(r, ch) = {} <=> Spots(s, ch) = {} /\ Spots(t, ch) = {}
<1> DEFINE a == Spots(s, ch)
           b == Spots(t, ch)
           n == Len(s)
<1>1. /\ Spots(r, ch) = a \cup {n + i : i \in b} /\ Unique(a) /\ Unique(b) /\ (a = {} \/ b = {})
      /\ \A i \in a : r[i] = x
      /\ \A i \in b : r[n + i] = x
  BY DEF Joins, OnlyOnce
<1> HIDE DEF a, b, n
<1>2. /\ Unique(Spots(r, ch)) /\ \A i \in Spots(r, ch) : r[i] = x
      /\ Spots(r, ch) = {} <=> a = {} /\ b = {}
  BY <1>1 DEF Unique
<1> QED
  BY <1>2 DEF a, b, OnlyOnce

\* While the sidecar lives, the queue, the send loop, the socket and the results hold of each
\* channel exactly the payload in flight: no payload is lost, doubled, or credited with the
\* result of another, and the queue never refuses one.
THEOREM NothingLostOrDoubled == Spec => []PipelineIsInflight
<1>1. IInv => PipelineIsInflight
  <2> SUFFICES ASSUME IInv, link = "open", NEW ch \in Channels
               PROVE  /\ Cardinality(Spots(Carried, ch)) + Cardinality(Spots(results, ch))
                           = IF inflight[ch] = NoPayload THEN 0 ELSE 1
                      /\ \A i \in Spots(Carried, ch) : Carried[i] = inflight[ch]
                      /\ \A i \in Spots(results, ch) : results[i].sequence = inflight[ch].sequence
    BY DEF PipelineIsInflight, Spots
  <2> DEFINE hand == IF sending = NoPayload THEN <<>> ELSE <<sending>>
             front == outbound \o hand
  <2>1. Alone(ch) /\ Matches(ch) /\ Present(ch)
    BY DEF IInv, Pipeline
  <2>2. outbound \in Seq(Payloads) /\ socket \in Seq(Payloads) /\ hand \in Seq(Payloads)
    <3>1. sending \in Payloads => <<sending>> \in Seq(Payloads)
      OBVIOUS
    <3>2. <<>> \in Seq(Payloads)
      OBVIOUS
    <3>3. sending \in Payloads \cup {NoPayload}
      BY DEF IInv, TypeOK
    <3>4. hand \in Seq(Payloads)
      BY <3>1, <3>2, <3>3
    <3> QED
      BY <3>4 DEF IInv, TypeOK
  <2>3. /\ Unique(Spots(hand, ch))
        /\ Spots(hand, ch) # {} <=> InHand(ch)
        /\ \A i \in Spots(hand, ch) : hand[i] = sending
    <3>1. CASE sending = NoPayload
      BY <3>1 DEF Spots, Unique, InHand
    <3>2. CASE sending # NoPayload
      <4>1. hand = <<sending>> /\ DOMAIN <<sending>> = {1}
        BY <3>2
      <4> HIDE DEF hand
      <4>2. DOMAIN hand = {1} /\ hand[1] = sending
        BY <4>1
      <4> QED
        BY <3>2, <4>2 DEF Spots, Unique, InHand
    <3> QED
      BY <3>1, <3>2
  <2> HIDE DEF hand
  <2>4. front \in Seq(Payloads) /\ Joins(front, outbound, hand, ch)
    BY <2>2, ConcatSpots
  <2> HIDE DEF front
  <2>5. Joins(front \o socket, front, socket, ch)
    BY <2>2, <2>4, ConcatSpots
  <2>6. Carried = front \o socket
    BY DEF Carried, front, hand
  <2>7. Joins(Carried, front, socket, ch)
    BY <2>5, <2>6
  <2> DEFINE x == inflight[ch]
  <2>8. /\ OnlyOnce(outbound, ch, x) /\ OnlyOnce(hand, ch, x) /\ OnlyOnce(socket, ch, x)
        /\ Spots(outbound, ch) = {} \/ Spots(hand, ch) = {}
    BY <2>1, <2>3 DEF Alone, Matches, OnlyOnce
  <2> HIDE DEF x
  <2>9. /\ OnlyOnce(front, ch, x)
        /\ Spots(front, ch) = {} <=> Spots(outbound, ch) = {} /\ Spots(hand, ch) = {}
    BY <2>4, <2>8, JoinOne
  <2>10. Spots(front, ch) = {} \/ Spots(socket, ch) = {}
    BY <2>1, <2>3, <2>9 DEF Alone
  <2>11. /\ OnlyOnce(Carried, ch, x)
         /\ Spots(Carried, ch) = {} <=> Spots(front, ch) = {} /\ Spots(socket, ch) = {}
    BY <2>7, <2>8, <2>9, <2>10, JoinOne
  <2> DEFINE a == Spots(Carried, ch)
             b == Spots(results, ch)
  <2>12. /\ Unique(a) /\ Unique(b) /\ (a = {} \/ b = {})
    BY <2>1, <2>3, <2>9, <2>11 DEF Alone, OnlyOnce
  <2>13. inflight[ch] = NoPayload => a = {} /\ b = {}
    BY <2>3, <2>9, <2>11, IdleChannel
  <2>14. inflight[ch] # NoPayload => a # {} \/ b # {}
    BY <2>1, <2>3, <2>9, <2>11 DEF Present
  <2>15. /\ \A i \in a : Carried[i] = inflight[ch]
         /\ \A i \in b : results[i].sequence = inflight[ch].sequence
    BY <2>1, <2>11 DEF Matches, OnlyOnce, x
  <2> HIDE DEF a, b
  <2>16. Cardinality(a) = (IF a = {} THEN 0 ELSE 1) /\ Cardinality(b) = (IF b = {} THEN 0 ELSE 1)
    BY <2>12, CountUnique
  <2>17. Cardinality(a) + Cardinality(b) = IF inflight[ch] = NoPayload THEN 0 ELSE 1
    BY <2>12, <2>13, <2>14, <2>16
  <2> QED
    BY <2>15, <2>17 DEF a, b
<1> QED
  BY <1>1, Invariance, PTL
=============================================================================
