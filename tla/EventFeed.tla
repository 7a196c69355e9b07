------------------------------- MODULE EventFeed -------------------------------
(****************************************************************************)
(* What an endpoint promises about mission events, as                       *)
(* docs/websocket_protocol.md states it: the ledger only grows; a session   *)
(* hears the events from the first one on, in order and without a gap; an   *)
(* open session hears every event of the ledger or ends; a new session      *)
(* starts over (delivery is at least once).                                 *)
(****************************************************************************)
EXTENDS Naturals

CONSTANT MaxEvents  \* bound: events in the ledger

VARIABLES
  ledger,  \* events appended so far; their sequence numbers are 1..ledger
  online,  \* a session holds the lease
  heard    \* newest event the session has heard

vars == <<ledger, online, heard>>

Init == ledger = 0 /\ online = FALSE /\ heard = 0

Open == ~online /\ online' = TRUE /\ heard' = 0 /\ UNCHANGED ledger

\* Events may be appended while nothing else happens, or as a session closes.
Grow == ledger' \in ledger..MaxEvents
AppendEvents == Grow /\ UNCHANGED <<online, heard>>

Hear ==
  /\ online /\ heard < ledger
  /\ heard' = heard + 1
  /\ UNCHANGED <<ledger, online>>

Close == online /\ online' = FALSE /\ Grow /\ UNCHANGED heard

Next == Open \/ AppendEvents \/ Hear \/ Close
Spec == Init /\ [][Next]_vars /\ WF_vars(Hear)
=============================================================================
