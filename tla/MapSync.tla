-------------------------------- MODULE MapSync --------------------------------
(****************************************************************************)
(* The map-sync pipeline of one source vehicle, from its ObservedGrid to    *)
(* the evidence its peers hold: MapSyncState (own cells, dirty cells, one   *)
(* payload in flight per channel), P2PFleetSync.flush_once, _NodeBridge     *)
(* (bounded queue, send loop, read loop), the publish branch of the Rust    *)
(* sidecar, and MapSyncState.receive of the peers.                          *)
(*                                                                          *)
(* Abstractions.  A payload is its channel, its sequence number and, for a  *)
(* map delta, its cells; what vehicle states and motion intents say is not  *)
(* modelled here, only that they share the queue and the connection.  Own   *)
(* and dirty cells always agree on the state of a dirty cell (record_local  *)
(* is the only writer of both), so dirty is a set of cells.  The sidecar is *)
(* started once and connects once; its exit is final.  Gossip may lose,     *)
(* repeat and reorder what it accepted.                                     *)
(****************************************************************************)
EXTENDS Integers, Sequences, FiniteSets

CONSTANTS
  Cells,         \* grid cells, numbered in the (gy, gx) order of prepare_delta
  CellStates,    \* ALLOWED_CELL_STATES
  Unknown,       \* a cell never observed
  Peers,         \* vehicles that receive the deltas
  NoPayload,     \* None
  QueueSize,     \* maxsize of _NodeBridge._outbound
  MaxCells,      \* MAX_DELTA_CELLS
  MaxSequence,   \* bound: vehicle states and motion intents published
  MaxChanges     \* bound: calls of record_local

ASSUME CellAssumption ==
  /\ Cells \subseteq Nat /\ IsFiniteSet(Cells)
  /\ Unknown \notin CellStates
ASSUME SizeAssumption ==
  /\ QueueSize \in Nat \ {0} /\ MaxCells \in Nat \ {0}
  /\ MaxSequence \in Nat /\ MaxChanges \in Nat

Channels == {"state", "delta", "intent"}

\* Sparse maps of cells, and what a payload carries.
Patches == UNION {[D -> CellStates] : D \in SUBSET Cells}
Empty == [c \in {} |-> Unknown]
Payloads == [channel : Channels, sequence : Nat, cells : Patches]
ASSUME PayloadAssumption == NoPayload \notin Payloads

VARIABLES
  own,        \* _own_cells
  dirty,      \* keys of _dirty
  recorded,   \* channels whose _local_vehicle_state / _local_motion_intent is set
  inflight,   \* _inflight, _state_inflight, _intent_inflight
  sequence,   \* _sequence, _state_sequence, _intent_sequence
  outbound,   \* _NodeBridge._outbound
  sending,    \* the command _send_loop holds
  link,       \* "open", "broken" (sidecar gone), "closing", "gone" (_writer is None)
  socket,     \* commands written and not read by the sidecar
  results,    \* publish_result events not read by the bridge
  published,  \* history: the deltas gossip accepted, with the map they add up to
  received,   \* per peer: _peer_sequence, sequence_gaps, _peer_evidence
  changes     \* bound: record_local calls so far

stateVars  == <<own, dirty, recorded, inflight, sequence, changes>>
bridgeVars == <<outbound, sending, link, socket, results>>
netVars    == <<published, received>>
vars == <<stateVars, bridgeVars, netVars>>

Maps == [Cells -> CellStates \cup {Unknown}]

TypeOK ==
  /\ own \in Maps
  /\ dirty \subseteq {c \in Cells : own[c] # Unknown}
  /\ recorded \subseteq {"state", "intent"}
  /\ inflight \in [Channels -> Payloads \cup {NoPayload}]
  /\ sequence \in [Channels -> Nat]
  /\ outbound \in Seq(Payloads) /\ Len(outbound) <= QueueSize
  /\ sending \in Payloads \cup {NoPayload}
  /\ link \in {"open", "broken", "closing", "gone"}
  /\ socket \in Seq(Payloads)
  /\ results \in Seq([channel : Channels, sequence : Nat, accepted : BOOLEAN])
  /\ published \in Seq([sequence : Nat, cells : Patches, image : Maps])
  /\ received \in [Peers -> [sequence : Nat, gaps : Nat, evidence : Maps]]
  /\ changes \in 0..MaxChanges

\* flush_once starts only after every sidecar reported a full mesh.
Blank == [c \in Cells |-> Unknown]
Init ==
  /\ own = Blank /\ dirty = {} /\ recorded = {}
  /\ inflight = [ch \in Channels |-> NoPayload]
  /\ sequence = [ch \in Channels |-> 0]
  /\ outbound = <<>> /\ sending = NoPayload
  /\ link = "open" /\ socket = <<>> /\ results = <<>>
  /\ published = <<>>
  /\ received = [p \in Peers |->
                   [sequence |-> 0, gaps |-> 0, evidence |-> Blank]]
  /\ changes = 0

----------------------------------------------------------------------------
(* MapSyncState: what the vehicle records and what it prepares. *)

\* dict.update: the cells of patch over those of map.
Overlay(map, patch) ==
  [c \in Cells |-> IF c \in DOMAIN patch THEN patch[c] ELSE map[c]]

\* record_local: the cells whose state the last scan changed.
RecordLocal ==
  /\ changes < MaxChanges
  /\ \E D \in (SUBSET Cells) \ {{}} : \E patch \in [D -> CellStates] :
       /\ \A c \in D : patch[c] # own[c]
       /\ own' = Overlay(own, patch)
       /\ dirty' = dirty \cup D
  /\ changes' = changes + 1
  /\ UNCHANGED <<recorded, inflight, sequence, bridgeVars, netVars>>

\* record_vehicle_state, record_motion_intent: from the first call on there is
\* something to send on the channel.
Record(ch) ==
  /\ ch \in {"state", "intent"} \ recorded
  /\ recorded' = recorded \cup {ch}
  /\ UNCHANGED <<own, dirty, inflight, sequence, changes, bridgeVars, netVars>>

\* The first MAX_DELTA_CELLS dirty cells in grid order.
Batch == {c \in dirty : Cardinality({d \in dirty : d < c}) < MaxCells}

\* Mutant of Preparable: a new payload while one of the channel is in flight.
PreparableAgain(ch) ==
  /\ IF ch = "delta" THEN dirty # {} ELSE ch \in recorded
  /\ ch # "delta" => sequence[ch] < MaxSequence

\* prepare_peer_state, prepare_delta, prepare_motion_intent return a payload.
Preparable(ch) ==
  /\ inflight[ch] = NoPayload
  /\ IF ch = "delta" THEN dirty # {} ELSE ch \in recorded
  /\ ch # "delta" => sequence[ch] < MaxSequence

Prepared(ch) ==
  [channel |-> ch, sequence |-> sequence[ch] + 1,
   cells |-> IF ch = "delta" THEN [c \in Batch |-> own[c]] ELSE Empty]

\* The channels that have something to send, in the order of flush_once.
Offer(ch) == IF Preparable(ch) THEN <<ch>> ELSE <<>>
Ready == Offer("state") \o Offer("delta") \o Offer("intent")

\* Mutant of Flush: an outbound queue without a bound.
FlushUnbounded ==
  LET ready == Ready
      chosen == {ready[i] : i \in DOMAIN ready}
  IN  /\ ready # <<>>
      /\ inflight' = [ch \in Channels |->
                        IF ch \in chosen THEN Prepared(ch) ELSE inflight[ch]]
      /\ outbound' = outbound \o [i \in DOMAIN ready |-> Prepared(ready[i])]
      /\ UNCHANGED <<own, dirty, recorded, sequence, changes>>
      /\ UNCHANGED <<sending, link, socket, results, netVars>>

\* flush_once for this vehicle.  A payload the full queue refuses is resolved
\* as rejected at once, which leaves its channel as it was.
Flush ==
  LET ready == Ready
      room  == QueueSize - Len(outbound)
      taken == IF Len(ready) <= room THEN ready ELSE SubSeq(ready, 1, room)
      chosen == {taken[i] : i \in DOMAIN taken}
  IN  /\ taken # <<>>
      /\ inflight' = [ch \in Channels |->
                        IF ch \in chosen THEN Prepared(ch) ELSE inflight[ch]]
      /\ outbound' = outbound \o [i \in DOMAIN taken |-> Prepared(taken[i])]
      /\ UNCHANGED <<own, dirty, recorded, sequence, changes>>
      /\ UNCHANGED <<sending, link, socket, results, netVars>>

\* Mutant of Resolve: every cell of an accepted delta is clean.
ResolveForgets(ch, seq, accepted) ==
  LET sent == inflight[ch]
      mine == sent # NoPayload /\ sent.sequence = seq
  IN  /\ inflight' = IF mine THEN [inflight EXCEPT ![ch] = NoPayload] ELSE inflight
      /\ sequence' = IF mine /\ accepted THEN [sequence EXCEPT ![ch] = seq] ELSE sequence
      /\ dirty' = IF mine /\ accepted THEN dirty \ DOMAIN sent.cells ELSE dirty
      /\ UNCHANGED <<own, recorded, changes>>

\* Mutant of Resolve: a rejected payload uses its number up.
ResolveSkips(ch, seq, accepted) ==
  LET sent == inflight[ch]
      mine == sent # NoPayload /\ sent.sequence = seq
  IN  /\ inflight' = IF mine THEN [inflight EXCEPT ![ch] = NoPayload] ELSE inflight
      /\ sequence' = IF mine THEN [sequence EXCEPT ![ch] = seq] ELSE sequence
      /\ dirty' = IF mine /\ accepted
                    THEN {c \in dirty : c \in DOMAIN sent.cells => own[c] # sent.cells[c]}
                    ELSE dirty
      /\ UNCHANGED <<own, recorded, changes>>

\* Mutant of Resolve: a rejected payload stays in flight.
ResolveKeeps(ch, seq, accepted) ==
  LET sent == inflight[ch]
      mine == sent # NoPayload /\ sent.sequence = seq /\ accepted
  IN  /\ inflight' = IF mine THEN [inflight EXCEPT ![ch] = NoPayload] ELSE inflight
      /\ sequence' = IF mine THEN [sequence EXCEPT ![ch] = seq] ELSE sequence
      /\ dirty' = IF mine
                    THEN {c \in dirty : c \in DOMAIN sent.cells => own[c] # sent.cells[c]}
                    ELSE dirty
      /\ UNCHANGED <<own, recorded, changes>>

\* publish_result, publish_peer_state_result, publish_motion_intent_result.
\* A result that is not for the payload in flight is counted and ignored; a
\* cell that changed while its delta was in flight stays dirty.
Resolve(ch, seq, accepted) ==
  LET sent == inflight[ch]
      mine == sent # NoPayload /\ sent.sequence = seq
  IN  /\ inflight' = IF mine THEN [inflight EXCEPT ![ch] = NoPayload] ELSE inflight
      /\ sequence' = IF mine /\ accepted THEN [sequence EXCEPT ![ch] = seq] ELSE sequence
      /\ dirty' = IF mine /\ accepted
                    THEN {c \in dirty : c \in DOMAIN sent.cells => own[c] # sent.cells[c]}
                    ELSE dirty
      /\ UNCHANGED <<own, recorded, changes>>

----------------------------------------------------------------------------
(* _NodeBridge and the sidecar. *)

\* _send_loop takes the next command and holds it until there is a writer.
SendNext ==
  /\ sending = NoPayload /\ outbound # <<>>
  /\ sending' = Head(outbound) /\ outbound' = Tail(outbound)
  /\ UNCHANGED <<stateVars, link, socket, results, netVars>>

Write ==
  /\ sending # NoPayload /\ link = "open"
  /\ socket' = Append(socket, sending) /\ sending' = NoPayload
  /\ UNCHANGED <<stateVars, outbound, link, results, netVars>>

\* A write to a connection whose other end is gone: the transport drops it, or
\* write or drain raise ConnectionError and the payload counts as rejected.
WriteLost ==
  /\ sending # NoPayload /\ link \in {"broken", "closing"}
  /\ sending' = NoPayload
  /\ \/ UNCHANGED stateVars
     \/ Resolve(sending.channel, sending.sequence, FALSE)
  /\ UNCHANGED <<outbound, link, socket, results, netVars>>

Image == IF published = <<>> THEN Blank ELSE published[Len(published)].image

\* The sidecar hands one command to gossipsub and reports what it said.
SidecarPublish(accepted) ==
  /\ link = "open" /\ socket # <<>>
  /\ LET payload == Head(socket)
     IN  /\ published' = IF accepted /\ payload.channel = "delta"
                           THEN Append(published, [sequence |-> payload.sequence,
                                                   cells |-> payload.cells,
                                                   image |-> Overlay(Image, payload.cells)])
                           ELSE published
         /\ results' = Append(results, [channel |-> payload.channel,
                                        sequence |-> payload.sequence,
                                        accepted |-> accepted])
  /\ socket' = Tail(socket)
  /\ UNCHANGED <<stateVars, outbound, sending, link, received>>

\* _read_connection reads one publish_result; what a dead sidecar had written
\* can still be read.
ReadResult ==
  /\ link \in {"open", "broken"} /\ results # <<>>
  /\ LET r == Head(results) IN Resolve(r.channel, r.sequence, r.accepted)
  /\ results' = Tail(results)
  /\ UNCHANGED <<outbound, sending, link, socket, netVars>>

SidecarDies ==
  /\ link = "open"
  /\ link' = "broken" /\ socket' = <<>>
  /\ UNCHANGED <<stateVars, outbound, sending, results, netVars>>

\* The read loop ends (end of file, or a reset that discards what it had not
\* read): network_disconnected gives up every payload in flight.
Disconnected ==
  /\ link = "broken"
  /\ link' = "closing" /\ results' = <<>>
  /\ inflight' = [ch \in Channels |-> NoPayload]
  /\ UNCHANGED <<own, dirty, recorded, sequence, changes, outbound, sending, socket, netVars>>

\* wait_closed returned; _send_loop waits for a writer from here on.
WriterClosed ==
  /\ link = "closing" /\ link' = "gone"
  /\ UNCHANGED <<stateVars, outbound, sending, socket, results, netVars>>

----------------------------------------------------------------------------
(* MapSyncState.receive of peer p, for one copy of one published delta. *)

\* Mutant of Deliver: only an exact repetition is stale.
DeliverReordered(p, i) ==
  LET delta == published[i]
      previous == received[p].sequence
      skipped == delta.sequence - previous - 1
  IN  /\ delta.sequence # previous
      /\ received' = [received EXCEPT ![p] =
           [sequence |-> delta.sequence,
            gaps     |-> @.gaps + (IF skipped > 0 THEN skipped ELSE 0),
            evidence |-> Overlay(@.evidence, delta.cells)]]
      /\ UNCHANGED <<stateVars, bridgeVars, published>>

Deliver(p, i) ==
  LET delta == published[i]
      previous == received[p].sequence
  IN  /\ delta.sequence > previous
      /\ received' = [received EXCEPT ![p] =
           [sequence |-> delta.sequence,
            gaps     |-> @.gaps + (delta.sequence - previous - 1),
            evidence |-> Overlay(@.evidence, delta.cells)]]
      /\ UNCHANGED <<stateVars, bridgeVars, published>>

----------------------------------------------------------------------------
AcceptDelta == socket # <<>> /\ Head(socket).channel = "delta" /\ SidecarPublish(TRUE)

Source == RecordLocal \/ (\E ch \in {"state", "intent"} : Record(ch)) \/ Flush
Bridge == SendNext \/ Write \/ WriteLost \/ ReadResult \/ Disconnected \/ WriterClosed
Sidecar == (\E accepted \in BOOLEAN : SidecarPublish(accepted)) \/ SidecarDies
Network == \E p \in Peers : \E i \in DOMAIN published : Deliver(p, i)

Next == Source \/ Bridge \/ Sidecar \/ Network
Spec == Init /\ [][Next]_vars

\* The flush loop and the bridge's two loops run on the event loop; gossip
\* that keeps being asked to publish deltas accepts one sooner or later.
Fairness ==
  /\ WF_vars(Flush) /\ WF_vars(SendNext) /\ WF_vars(Write) /\ WF_vars(ReadResult)
  /\ WF_vars(\E accepted \in BOOLEAN : SidecarPublish(accepted))
  /\ SF_vars(AcceptDelta)
FairSpec == Spec /\ Fairness

----------------------------------------------------------------------------
(* Properties. *)

\* Everything between prepare_* and publish_*_result on a channel.
Carried == outbound \o (IF sending = NoPayload THEN <<>> ELSE <<sending>>) \o socket

\* While the sidecar lives, what the queue, the send loop, the socket and the
\* unread results hold is, channel by channel, exactly the payload in flight,
\* once: so the queue of three never refuses a payload and no result is ever
\* credited to another payload than the one it is about.
PipelineIsInflight ==
  link = "open" =>
    \A ch \in Channels :
      LET waiting == {i \in DOMAIN Carried : Carried[i].channel = ch}
          told    == {i \in DOMAIN results : results[i].channel = ch}
      IN  /\ Cardinality(waiting) + Cardinality(told)
               = IF inflight[ch] = NoPayload THEN 0 ELSE 1
          /\ \A i \in waiting : Carried[i] = inflight[ch]
          /\ \A i \in told : results[i].sequence = inflight[ch].sequence

\* A cell the vehicle knows and no longer counts as dirty is published with the
\* state the vehicle knows, also after rejections, a crash of the sidecar or
\* changes while its delta was in flight.
CleanIsPublished ==
  \A c \in Cells : own[c] # Unknown /\ c \notin dirty => Image[c] = own[c]

\* Published deltas are numbered 1, 2, 3, ...: a rejected number is used again,
\* an accepted one never is.
PublishedInOrder ==
  \A n \in DOMAIN published : published[n].sequence = n

\* A peer that counted no gap holds exactly the map the source had published up
\* to the peer's sequence number, whatever gossip repeated or reordered.
NoGapMeansComplete ==
  \A p \in Peers :
    /\ received[p].sequence <= Len(published)
    /\ received[p].gaps = 0 =>
         received[p].evidence =
           IF received[p].sequence = 0 THEN Blank ELSE published[received[p].sequence].image

\* While the sidecar lives and gossip does not refuse deltas for ever, a vehicle
\* whose map stops changing publishes all of it, batch after batch.
DirtyDrains == [](link = "open") => []<>(dirty = {})
=============================================================================
