------------------------------ MODULE CorridorLease ------------------------------
(****************************************************************************)
(* How vehicles agree on who may use a single-lane corridor:                *)
(* RobotController._coordinate_desired (detection, election, announcement,  *)
(* admission, release), with the motion intents it reads and publishes and  *)
(* the vehicles' way through the corridor.                                  *)
(*                                                                          *)
(* Time is the fleet tick: all controllers decide on what they have heard,  *)
(* then the vehicles move, then intents travel.  One corridor: all          *)
(* descriptors conflict, in either direction.                               *)
(*                                                                          *)
(* Abstractions.  Of an intent the fields the election reads are kept.  A   *)
(* place is where the vehicle's centre is with respect to the corridor.     *)
(* Staging of waiters, return to the route and braking at the gate decide   *)
(* when an admitted vehicle drives on, which is nondeterministic.  The mesh *)
(* counts as ready (an unready mesh delays claims as silence does).  A link *)
(* carries at most one delayed intent.                                      *)
(****************************************************************************)
EXTENDS Integers, FiniteSets

CONSTANTS
  Vehicles,    \* vehicle ids, numbers so that they are ordered as the ids are
  Ttl,         \* MOTION_INTENT_TTL_S in ticks
  ClaimTicks,  \* PEER_YIELD_CLEAR_TICKS
  MaxWait,     \* MAX_INTENT_WAIT_TICKS
  MaxDelay,    \* bound: ticks an intent is under way
  MaxTrips,    \* bound: passages through the corridor per vehicle
  Faults       \* which of "loss", "pause", "yield" and "blind" happen

ASSUME VehicleAssumption == Vehicles \subseteq Nat /\ IsFiniteSet(Vehicles)
ASSUME TimeAssumption ==
  /\ Ttl \in Nat /\ ClaimTicks \in Nat \ {0} /\ MaxWait \in Nat
  /\ MaxDelay \in Nat /\ MaxTrips \in Nat

Places == {"far", "near", "gate", "mouth", "mid", "tail", "clear"}

\* Fields of a controller that concern the corridor.
Leases ==
  [held      : BOOLEAN,          \* _corridor is not None
   reserved  : BOOLEAN,          \* _corridor_reserved
   confirmed : BOOLEAN,          \* _corridor_admission_confirmed
   claim     : 0..ClaimTicks,    \* _corridor_claim_ticks, capped where it is compared
   wait      : 0..MaxWait,       \* _reservation_wait_ticks, while a corridor is held
   hold      : 0..ClaimTicks,    \* ticks to stand still after yielding (_yield_clear_ticks)
   announced : BOOLEAN,          \* _intent_reserved
   owner     : Vehicles]         \* _intent_priority_owner_id

NoLease(v) ==
  [held |-> FALSE, reserved |-> FALSE, confirmed |-> FALSE, claim |-> 0, wait |-> 0,
   hold |-> 0, announced |-> FALSE, owner |-> v]

\* A motion intent: whether it has a corridor, and what the election reads.
Intents == [corridor : BOOLEAN, reserved : BOOLEAN, wait : 0..MaxWait, owner : Vehicles]

Intent(v, l) ==
  [corridor |-> l.held, reserved |-> l.announced, wait |-> l.wait, owner |-> l.owner]

VARIABLES
  turn,    \* "tick" or "exchange"
  place,   \* where each vehicle is
  active,  \* the vehicle works on a mission
  lease,   \* the corridor fields of each controller
  heard,   \* heard[v][u]: the intents v holds of u, with their age
  wire,    \* wire[v][u]: the intents on the way from u to v, with their age
  trips,   \* bound: passages so far
  tenure,  \* history: ticks since admission, 0 if not admitted
  calm     \* history: the last exchange delivered everything

vars == <<turn, place, active, lease, heard, wire, trips, tenure, calm>>

\* An intent that was heard: `age' since receipt, `old' since it was sent.
Heard == [intent : Intents, age : 0..Ttl, old : 0..(Ttl + MaxDelay)]
Sent  == [intent : Intents, old : 0..MaxDelay]
Links == {link \in Vehicles \X Vehicles : link[1] # link[2]}

\* Tenure is counted no further than the longest memory of an older intent.
Memory == Ttl + MaxDelay + 1

\* Types; at most one intent is held and one is on the way, per link.
AtMostOne(S) == \A a, b \in S : a = b
TypeOK ==
  /\ turn \in {"tick", "exchange"}
  /\ place \in [Vehicles -> Places]
  /\ active \in [Vehicles -> BOOLEAN]
  /\ lease \in [Vehicles -> Leases]
  /\ heard \in [Links -> SUBSET Heard]
  /\ wire \in [Links -> SUBSET Sent]
  /\ \A link \in Links : AtMostOne(heard[link]) /\ AtMostOne(wire[link])
  /\ trips \in [Vehicles -> 0..MaxTrips]
  /\ tenure \in [Vehicles -> 0..Memory]
  /\ calm \in BOOLEAN

Init ==
  /\ turn = "exchange"
  /\ place = [v \in Vehicles |-> "far"]
  /\ active = [v \in Vehicles |-> TRUE]
  /\ lease = [v \in Vehicles |-> NoLease(v)]
  /\ heard = [link \in Links |-> {}]
  /\ wire = [link \in Links |-> {}]
  /\ trips = [v \in Vehicles |-> 0]
  /\ tenure = [v \in Vehicles |-> 0]
  /\ calm = FALSE

----------------------------------------------------------------------------
(* The election. *)

Inside(v) == place[v] \in {"mouth", "mid"}
Others(v) == Vehicles \ {v}

\* The intent v holds of u.
Live(v, u) == heard[<<v, u>>] # {}
View(v, u) == (CHOOSE h \in heard[<<v, u>>] : TRUE).intent

\* Mutant of Quorum: missing intents count as no interest.
NoQuorum(v) == v \in Vehicles

\* corridor_peers, and fresh_intent_quorum over the expected peers.
CorridorPeers(v) == {u \in Others(v) : Live(v, u) /\ View(v, u).corridor}
Quorum(v) == \A u \in Others(v) : Live(v, u)

Bid(source, reserved, wait, owner) ==
  [source |-> source, reserved |-> reserved, wait |-> wait, owner |-> owner]

\* Mutant of PeerBid: inherited ownership is believed for ever.
RawBid(v, u) ==
  LET i == View(v, u) IN Bid(u, i.reserved, i.wait, i.owner)

\* _effective_corridor_intent: ownership inherited from a vehicle that left the
\* corridor is void.
PeerBid(v, u) ==
  LET i == View(v, u)
  IN  IF i.owner \in CorridorPeers(v) \cup {v}
        THEN Bid(u, i.reserved, i.wait, i.owner)
        ELSE Bid(u, FALSE, i.wait, u)

\* Mutant of Precedes: a long wait also beats a reservation.
PrecedesByWait(a, b) ==
  \/ a.wait > b.wait
  \/ /\ a.wait = b.wait
     /\ \/ a.reserved /\ ~b.reserved
        \/ a.reserved = b.reserved /\ a.owner < b.owner
        \/ a.reserved = b.reserved /\ a.owner = b.owner /\ a.source < b.source

\* motion_intent_precedes: reserved first, then who waited longest (among the
\* unreserved), then the owner's id, then the sender's.
Precedes(a, b) ==
  \/ a.reserved /\ ~b.reserved
  \/ /\ a.reserved = b.reserved
     /\ \/ ~a.reserved /\ a.wait > b.wait
        \/ /\ a.reserved \/ a.wait = b.wait
           /\ \/ a.owner < b.owner
              \/ a.owner = b.owner /\ a.source < b.source

\* The winner of the election v holds with lease l.
Winner(v, l) ==
  LET own  == Bid(v, l.reserved, l.wait, v)
      bids == {own} \cup {PeerBid(v, u) : u \in CorridorPeers(v)}
  IN  IF Inside(v) THEN own ELSE CHOOSE b \in bids : \A c \in bids : ~Precedes(c, b)

\* Mutant of MoreWait: not capped.
MoreWaitUncapped(l) == l.wait + 1

MoreWait(l) == IF l.wait < MaxWait THEN l.wait + 1 ELSE MaxWait

\* Mutant of Lose: the admission is not revoked.
LoseAdmitted(v, l) ==
  [l EXCEPT !.reserved = FALSE, !.claim = 0, !.announced = FALSE,
            !.owner = Winner(v, l).owner, !.wait = MoreWait(l)]

\* v gives way to the winner.
Lose(v, l) ==
  [l EXCEPT !.reserved = FALSE, !.confirmed = FALSE, !.claim = 0, !.announced = FALSE,
            !.owner = Winner(v, l).owner, !.wait = MoreWait(l)]

\* Every competitor has given way to v.
Acknowledged(v) ==
  /\ CorridorPeers(v) # {}
  /\ \A u \in CorridorPeers(v) : ~View(v, u).reserved /\ View(v, u).owner = v

\* Mutant of Admitted: the claim need not be announced for some ticks.
AdmittedAtOnce(v, claim) ==
  Quorum(v) /\ (Acknowledged(v) \/ (CorridorPeers(v) = {} /\ claim >= 1))

\* Admission from outside: acknowledged, or nobody has competed for long enough.
Admitted(v, claim) ==
  /\ Quorum(v)
  /\ Acknowledged(v) \/ (CorridorPeers(v) = {} /\ claim >= ClaimTicks)

\* v announces its claim, and yields to a peer outside the corridor if it must.
Win(v, l, yields) ==
  LET claim == IF Inside(v) \/ l.confirmed THEN l.claim
               ELSE IF l.claim < ClaimTicks THEN l.claim + 1 ELSE ClaimTicks
      ready == Inside(v) \/ l.confirmed \/ Admitted(v, claim)
  IN  [l EXCEPT !.reserved = TRUE, !.confirmed = ready, !.claim = claim, !.owner = v,
                !.announced = ~yields, !.wait = IF yields THEN MoreWait(l) ELSE l.wait,
                !.hold = IF yields THEN ClaimTicks ELSE IF l.hold > 0 THEN l.hold - 1 ELSE 0]

\* The lease v enters a tick with: given up once the whole body has passed, taken
\* up when the corridor ahead is detected (`found' maps the vehicles that detect it
\* to the ticks they waited before).
Approach(v, found) ==
  IF place[v] = "clear" THEN NoLease(v)
  ELSE IF v \in DOMAIN found THEN [NoLease(v) EXCEPT !.held = TRUE, !.wait = found[v]]
  ELSE lease[v]

\* _coordinate_desired for v, or _clear_yield of a controller that is not Active.
Control(v, found, yields) ==
  LET l == Approach(v, found)
  IN  IF ~active[v] \/ ~l.held THEN NoLease(v)
      ELSE IF Winner(v, l).source = v THEN Win(v, l, yields)
      ELSE Lose(v, l)

----------------------------------------------------------------------------
(* The fleet tick. *)

\* The corridor is detected from outside or from its first cell.
MayDetect(v) == active[v] /\ ~lease[v].held /\ place[v] \in {"near", "gate", "mouth"}

\* An owner yields to a peer that is not interested in the corridor, or is still
\* yielding; before admission it may also yield to a competitor.
MayYield(v) ==
  /\ "yield" \in Faults
  /\ lease[v].confirmed => CorridorPeers(v) # Others(v) \/ lease[v].hold > 0

\* With lease l, v may drive to the next place.  The gate is where braking begins
\* if v is not admitted; past it v may roll on whatever it is told.
MayMove(v, l) ==
  /\ active[v]
  /\ place[v] = "near"  => IF l.held THEN l.confirmed /\ l.hold = 0 ELSE "blind" \in Faults
  /\ place[v] = "clear" => trips[v] < MaxTrips

NextPlace(p) ==
  CASE p = "far" -> "near" [] p = "near" -> "gate" [] p = "gate" -> "mouth"
    [] p = "mouth" -> "mid" [] p = "mid" -> "tail" [] p = "tail" -> "clear" [] p = "clear" -> "far"

\* Intents expire Ttl ticks after receipt.
Age(hs) ==
  {[intent |-> h.intent, age |-> h.age + 1, old |-> h.old + 1] : h \in {k \in hs : k.age < Ttl}}

\* FleetRuntime.tick: control every vehicle, then advance the world.
Tick(found, yielding, moving) ==
  LET next(v) == Control(v, found, v \in yielding)
  IN  /\ turn = "tick" /\ turn' = "exchange"
      /\ \A v \in moving : MayMove(v, next(v))
      /\ lease' = [v \in Vehicles |-> next(v)]
      /\ place' = [v \in Vehicles |-> IF v \in moving THEN NextPlace(place[v]) ELSE place[v]]
      /\ trips' = [v \in Vehicles |-> IF v \in moving /\ place[v] = "clear"
                                        THEN trips[v] + 1 ELSE trips[v]]
      /\ heard' = [link \in Links |-> Age(heard[link])]
      /\ wire' = [link \in Links |-> {[s EXCEPT !.old = @ + 1] :
                                         s \in {k \in wire[link] : k.old < MaxDelay}}]
      /\ tenure' = [v \in Vehicles |->
                      IF ~next(v).confirmed THEN 0
                      ELSE IF tenure[v] < Memory THEN tenure[v] + 1 ELSE Memory]
      /\ UNCHANGED <<active, calm>>

----------------------------------------------------------------------------
(* Between two ticks. *)

Current(u, h) == [intent |-> Intent(u, lease[u]), age |-> 0, old |-> h]

\* Every link does one of: deliver the current intent, deliver a delayed one,
\* send the current one for later, or nothing.
Exchange(direct, arriving, delayed) ==
  /\ turn = "exchange" /\ turn' = "tick"
  /\ "loss" \notin Faults => direct = Links
  /\ \A link \in arriving : wire[link] # {}
  /\ heard' = [link \in Links |->
                 IF link \in direct THEN {Current(link[2], 0)}
                 ELSE IF link \in arriving
                   THEN {[intent |-> s.intent, age |-> 0, old |-> s.old] : s \in wire[link]}
                 ELSE heard[link]]
  /\ wire' = [link \in Links |->
                IF link \in delayed
                  THEN {[intent |-> Intent(link[2], lease[link[2]]), old |-> 0]}
                ELSE IF link \in direct \cup arriving THEN {}
                ELSE wire[link]]
  /\ calm' = (direct = Links)
  /\ UNCHANGED <<place, active, lease, trips, tenure>>

\* pause, stop_motion, disconnect: the controller stops and gives up the lease.
Pause(v) ==
  /\ "pause" \in Faults
  /\ turn = "exchange" /\ active[v]
  /\ active' = [active EXCEPT ![v] = FALSE]
  /\ lease' = [lease EXCEPT ![v] = NoLease(v)]
  /\ tenure' = [tenure EXCEPT ![v] = 0]
  /\ UNCHANGED <<turn, place, heard, wire, trips, calm>>

Resume(v) ==
  /\ turn = "exchange" /\ ~active[v]
  /\ active' = [active EXCEPT ![v] = TRUE]
  /\ UNCHANGED <<turn, place, lease, heard, wire, trips, tenure, calm>>

----------------------------------------------------------------------------
\* Detections, vehicles that yield, and vehicles that may drive on at all.
Findings == UNION {[D -> 0..MaxWait] : D \in SUBSET {v \in Vehicles : MayDetect(v)}}
Yielding == SUBSET {v \in Vehicles : MayYield(v)}
Moving == SUBSET {v \in Vehicles : active[v] /\ (place[v] = "clear" => trips[v] < MaxTrips)}

FleetTick ==
  \E found \in Findings, yielding \in Yielding, moving \in Moving :
    Tick(found, yielding, moving)

Travel ==
  \E direct \in IF "loss" \in Faults THEN SUBSET Links ELSE {Links} :
    \E arriving \in SUBSET (Links \ direct) :
      \E delayed \in IF MaxDelay = 0 THEN {{}} ELSE SUBSET (Links \ (direct \cup arriving)) :
        Exchange(direct, arriving, delayed)

Next == FleetTick \/ Travel \/ (\E v \in Vehicles : Pause(v) \/ Resume(v))
Spec == Init /\ [][Next]_vars

\* The fleet loop and the flush loop run; a vehicle that may drive again and
\* again drives, and the corridor ahead of it is detected sooner or later.
TickOf(v) ==
  \E found \in Findings, yielding \in Yielding, moving \in Moving :
    v \in moving /\ Tick(found, yielding, moving)
DetectionBy(v) ==
  \E found \in Findings, yielding \in Yielding, moving \in Moving :
    v \in DOMAIN found /\ Tick(found, yielding, moving)
Fairness ==
  /\ WF_vars(FleetTick) /\ WF_vars(Travel)
  /\ \A v \in Vehicles : SF_vars(TickOf(v)) /\ SF_vars(DetectionBy(v))
FairSpec == Spec /\ Fairness

----------------------------------------------------------------------------
(* Properties. *)

Confirmed == {v \in Vehicles : lease[v].confirmed}

\* At most one vehicle is the confirmed owner of the corridor.
AtMostOneOwner == AtMostOne(Confirmed)

\* Once an owner has been confirmed for as long as an older intent of it can
\* still be believed (its time under way plus its time to live), nobody else is
\* admitted from outside, whatever is lost, delayed or partitioned.
LateComersWait ==
  [][\A u, v \in Vehicles :
       (u # v /\ tenure[u] = Memory /\ ~lease[v].confirmed /\ lease'[v].confirmed)
         => Inside(v)]_vars

\* One complete exchange heals whatever loss and delay did: of two vehicles that
\* announced their leases and are still confirmed after the next tick one was
\* already in the corridor.
OneExchangeAgrees ==
  [][(turn = "tick" /\ calm)
       => \A u, v \in Vehicles :
            (u # v /\ lease'[u].confirmed /\ lease'[v].confirmed
               /\ \A w \in {u, v} : lease[w].reserved => lease[w].announced)
              => (Inside(u) \/ Inside(v))]_vars

\* A confirmed owner that is not stopped keeps its lease until its whole body
\* has left the corridor.
LeaseIsKept ==
  [][\A v \in Vehicles :
       (lease[v].confirmed /\ active'[v] /\ place[v] # "clear") => lease'[v].confirmed]_vars

\* Everybody who comes to the corridor passes it.
EveryonePasses == \A v \in Vehicles : place[v] = "near" ~> place[v] = "clear"
=============================================================================
