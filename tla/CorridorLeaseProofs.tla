-------------------------- MODULE CorridorLeaseProofs --------------------------
(****************************************************************************)
(* What an admitted vehicle may rely on, for any number of vehicles, any    *)
(* times and any delay bound: types, LateComersWait and what one exchange   *)
(* settles with any faults; without faults one owner, which keeps its lease.*)
(****************************************************************************)
EXTENDS CorridorLease, WellFoundedInduction, TLAPS

\* A set of natural numbers has a least element.
LEMMA Least ==
  ASSUME NEW S, S \subseteq Nat, S # {}
  PROVE  \E x \in S : \A y \in S : x <= y
<1>1. PICK x \in S : \A y \in S : ~ (<<y, x>> \in OpToRel(<, Nat))
  BY NatLessThanWellFounded, WFMin
<1>2. \A y \in S : ~ (y < x)
  BY <1>1 DEF OpToRel
<1>3. QED
  BY <1>2

Bids == [source : Vehicles, reserved : BOOLEAN, wait : 0..MaxWait, owner : Vehicles]

\* The rank of a bid before ids are compared: reserved first, then the longest wait.
Rank(b) == IF b.reserved THEN 0 ELSE 1 + MaxWait - b.wait

\* Precedes is lexicographic in rank, owner and sender.
LEMMA PrecedesByRank ==
  ASSUME NEW a \in Bids, NEW b \in Bids, Precedes(a, b)
  PROVE  \/ Rank(a) < Rank(b)
         \/ Rank(a) = Rank(b) /\ a.owner < b.owner
         \/ Rank(a) = Rank(b) /\ a.owner = b.owner /\ a.source < b.source
BY VehicleAssumption, TimeAssumption DEF Bids, Rank, Precedes

\* Every election over at least one bid has a winner.
LEMMA ElectionDecides ==
  ASSUME NEW B, B \subseteq Bids, B # {}
  PROVE  \E b \in B : \A c \in B : ~Precedes(c, b)
<1>1. PICK r \in {Rank(b) : b \in B} : \A q \in {Rank(b) : b \in B} : r <= q
  <2>1. {Rank(b) : b \in B} \subseteq Nat
    BY TimeAssumption DEF Bids, Rank
  <2>2. QED
    BY <2>1, Least
<1> DEFINE B1 == {b \in B : Rank(b) = r}
<1>2. PICK o \in {b.owner : b \in B1} : \A q \in {b.owner : b \in B1} : o <= q
  <2>1. {b.owner : b \in B1} \subseteq Nat /\ {b.owner : b \in B1} # {}
    BY <1>1, VehicleAssumption DEF Bids
  <2>2. QED
    BY <2>1, Least
<1> DEFINE B2 == {b \in B1 : b.owner = o}
<1>3. PICK s \in {b.source : b \in B2} : \A q \in {b.source : b \in B2} : s <= q
  <2>1. {b.source : b \in B2} \subseteq Nat /\ {b.source : b \in B2} # {}
    BY <1>2, VehicleAssumption DEF Bids
  <2>2. QED
    BY <2>1, Least
<1>4. PICK b \in B : Rank(b) = r /\ b.owner = o /\ b.source = s
  BY <1>3
<1>5. ASSUME NEW c \in B, Precedes(c, b) PROVE FALSE
  <2>1. \A x \in Bids : Rank(x) \in Nat
    BY TimeAssumption DEF Bids, Rank
  <2>2. \A x \in Bids : x.owner \in Nat /\ x.source \in Nat
    BY VehicleAssumption DEF Bids
  <2>3. b \in Bids /\ c \in Bids
    OBVIOUS
  <2>4. r <= Rank(c)
    BY <1>1
  <2>5. Rank(c) = r => o <= c.owner
    BY <1>2
  <2>6. (Rank(c) = r /\ c.owner = o) => s <= c.source
    BY <1>3
  <2>7. QED
    BY <1>4, <1>5, <2>1, <2>2, <2>3, <2>4, <2>5, <2>6, PrecedesByRank
<1>6. QED
  BY <1>4, <1>5

\* The intent a vehicle holds of another is one it has heard.
LEMMA ViewIsHeard ==
  ASSUME TypeOK, NEW v \in Vehicles, NEW u \in Others(v), Live(v, u)
  PROVE  /\ \E h \in heard[<<v, u>>] : View(v, u) = h.intent
         /\ View(v, u) \in Intents
<1>1. <<v, u>> \in Links
  BY DEF Others, Links
<1>2. PICK h \in heard[<<v, u>>] : View(v, u) = h.intent
  BY DEF Live, View
<1>3. QED
  BY <1>1, <1>2 DEF TypeOK, Heard

\* The winner of an election is one of the bids.
LEMMA WinnerIsBid ==
  ASSUME TypeOK, NEW v \in Vehicles, NEW l \in Leases
  PROVE  Winner(v, l) \in Bids
<1> DEFINE own  == Bid(v, l.reserved, l.wait, v)
           bids == {own} \cup {PeerBid(v, u) : u \in CorridorPeers(v)}
<1>1. own \in Bids
  BY DEF Leases, Bids, Bid
<1>2. ASSUME NEW u \in CorridorPeers(v) PROVE PeerBid(v, u) \in Bids
  <2>1. u \in Others(v) /\ Live(v, u)
    BY DEF CorridorPeers
  <2>2. View(v, u) \in Intents /\ u \in Vehicles
    BY <2>1, ViewIsHeard DEF Others
  <2>3. QED
    BY <2>2 DEF PeerBid, Bid, Bids, Intents
<1>3. bids \subseteq Bids /\ bids # {}
  BY <1>1, <1>2
<1>4. \E b \in bids : \A c \in bids : ~Precedes(c, b)
  BY <1>3, ElectionDecides
<1>5. (CHOOSE b \in bids : \A c \in bids : ~Precedes(c, b)) \in bids
  BY <1>4
<1>6. QED
  BY <1>1, <1>3, <1>5 DEF Winner

----------------------------------------------------------------------------
(* The inductive invariant. *)

\* A confirmed owner holds the corridor in its own name; tenure counts from admission.
Tenure ==
  \A v \in Vehicles :
    /\ lease[v].confirmed => tenure[v] > 0 /\ lease[v].held /\ lease[v].owner = v
    /\ ~lease[v].confirmed => tenure[v] = 0

\* An intent of u that was sent `old' ticks ago says that u holds the corridor in
\* its own name, unless u was admitted later.
Truthful(intent, old, u) == old < tenure[u] => intent.corridor /\ intent.owner = u

\* All that is heard or on the way is truthful, and not older than it can be.
Remembered ==
  \A link \in Links :
    /\ \A h \in heard[link] : h.old <= h.age + MaxDelay /\ Truthful(h.intent, h.old, link[2])
    /\ \A s \in wire[link] : Truthful(s.intent, s.old, link[2])

IInv == TypeOK /\ Tenure /\ Remembered

\* The fleet starts in the invariant.
LEMMA InitHolds == Init => IInv
<1> SUFFICES ASSUME Init PROVE IInv
  OBVIOUS
<1>1. \A v \in Vehicles : NoLease(v) \in Leases
  BY TimeAssumption DEF NoLease, Leases
<1>2. TypeOK
  <2>1. 0 \in 0..MaxTrips /\ 0 \in 0..Memory
    BY TimeAssumption DEF Memory
  <2>2. AtMostOne({})
    BY DEF AtMostOne
  <2>3. /\ turn \in {"tick", "exchange"} /\ place \in [Vehicles -> Places]
        /\ active \in [Vehicles -> BOOLEAN] /\ lease \in [Vehicles -> Leases] /\ calm \in BOOLEAN
    BY <1>1 DEF Init, Places
  <2>4. heard \in [Links -> SUBSET Heard] /\ wire \in [Links -> SUBSET Sent]
    BY DEF Init
  <2>5. \A link \in Links : AtMostOne(heard[link]) /\ AtMostOne(wire[link])
    BY <2>2 DEF Init
  <2>6. trips \in [Vehicles -> 0..MaxTrips] /\ tenure \in [Vehicles -> 0..Memory]
    BY <2>1 DEF Init
  <2>7. QED
    BY <2>3, <2>4, <2>5, <2>6 DEF TypeOK
<1>3. Tenure
  BY DEF Init, Tenure, NoLease
<1>4. Remembered
  BY DEF Init, Remembered
<1>5. QED
  BY <1>2, <1>3, <1>4 DEF IInv

\* What a tick makes of a lease: one of three.
LEMMA ControlCases ==
  ASSUME TypeOK, NEW v \in Vehicles, NEW found \in Findings, NEW yields \in BOOLEAN
  PROVE  LET l == Approach(v, found)
         IN  /\ l \in Leases
             /\ l.confirmed => lease[v].confirmed
             /\ \/ Control(v, found, yields) = NoLease(v)
                \/ l.held /\ Control(v, found, yields) = Win(v, l, yields)
                \/ l.held /\ Control(v, found, yields) = Lose(v, l)
<1> DEFINE l == Approach(v, found)
<1>1. NoLease(v) \in Leases
  BY TimeAssumption DEF NoLease, Leases
<1>2. ASSUME v \in DOMAIN found
      PROVE  [NoLease(v) EXCEPT !.held = TRUE, !.wait = found[v]] \in Leases
  <2>1. found[v] \in 0..MaxWait
    BY <1>2 DEF Findings
  <2>2. QED
    BY <1>1, <2>1 DEF Leases
<1>3. l \in Leases
  BY <1>1, <1>2 DEF Approach, TypeOK
<1>4. l.confirmed => lease[v].confirmed
  BY DEF Approach, NoLease
<1>5. QED
  BY <1>3, <1>4 DEF Control

\* A tick yields a lease, and one that is confirmed is held in the vehicle's name.
LEMMA ControlTyped ==
  ASSUME TypeOK, NEW v \in Vehicles, NEW found \in Findings, NEW yields \in BOOLEAN
  PROVE  /\ Control(v, found, yields) \in Leases
         /\ Control(v, found, yields).confirmed =>
              Control(v, found, yields).held /\ Control(v, found, yields).owner = v
<1> DEFINE l == Approach(v, found)
<1>1. l \in Leases
  BY ControlCases
<1>2. MoreWait(l) \in 0..MaxWait
  BY <1>1, TimeAssumption DEF MoreWait, Leases
<1>3. NoLease(v) \in Leases /\ ~NoLease(v).confirmed
  BY TimeAssumption DEF NoLease, Leases
<1>4. Lose(v, l) \in Leases /\ ~Lose(v, l).confirmed
  <2>1. Winner(v, l).owner \in Vehicles
    BY <1>1, WinnerIsBid DEF Bids
  <2> DEFINE owner == Winner(v, l).owner
             wait  == MoreWait(l)
  <2>2. Lose(v, l) = [l EXCEPT !.reserved = FALSE, !.confirmed = FALSE, !.claim = 0,
                               !.announced = FALSE, !.owner = owner, !.wait = wait]
    BY DEF Lose
  <2> HIDE DEF owner, wait, l
  <2>3. owner \in Vehicles
    BY <2>1 DEF owner, l
  <2>4. wait \in 0..MaxWait
    BY <1>2 DEF wait, l
  <2>5. 0 \in 0..ClaimTicks
    BY TimeAssumption
  <2>6. QED
    BY <1>1, <2>2, <2>3, <2>4, <2>5 DEF Leases
<1>5. Win(v, l, yields) \in Leases /\ Win(v, l, yields).owner = v
      /\ Win(v, l, yields).held = l.held
  <2> DEFINE claim == IF Inside(v) \/ l.confirmed THEN l.claim
                      ELSE IF l.claim < ClaimTicks THEN l.claim + 1 ELSE ClaimTicks
             ready == Inside(v) \/ l.confirmed \/ Admitted(v, claim)
             hold  == IF yields THEN ClaimTicks ELSE IF l.hold > 0 THEN l.hold - 1 ELSE 0
             wait  == IF yields THEN MoreWait(l) ELSE l.wait
  <2>1. claim \in 0..ClaimTicks /\ hold \in 0..ClaimTicks /\ wait \in 0..MaxWait
    BY <1>1, <1>2, TimeAssumption DEF Leases
  <2>2. ready \in BOOLEAN
    BY <1>1 DEF Leases, Inside, Admitted, Quorum, Acknowledged, Live
  <2>3. Win(v, l, yields) =
          [l EXCEPT !.reserved = TRUE, !.confirmed = ready, !.claim = claim, !.owner = v,
                    !.announced = ~yields, !.wait = wait, !.hold = hold]
    BY DEF Win
  <2> HIDE DEF claim, ready, hold, wait, l
  <2>4. QED
    BY <1>1, <2>1, <2>2, <2>3 DEF Leases
<1>6. QED
  BY <1>3, <1>4, <1>5, ControlCases

----------------------------------------------------------------------------
(* The invariant is preserved. *)

\* An exchange delivers what was sent truthfully.
LEMMA ExchangeHolds ==
  ASSUME IInv, NEW direct, NEW arriving, NEW delayed, Exchange(direct, arriving, delayed)
  PROVE  IInv'
<1>1. \A u \in Vehicles : Intent(u, lease[u]) \in Intents /\ Truthful(Intent(u, lease[u]), 0, u)
  BY DEF IInv, TypeOK, Tenure, Intent, Intents, Leases, Truthful
<1>2. \A link \in Links : link[2] \in Vehicles
  BY DEF Links
<1>3. ASSUME NEW link \in Links
      PROVE  /\ heard'[link] \in SUBSET Heard /\ AtMostOne(heard'[link])
             /\ \A h \in heard'[link] :
                  h.old <= h.age + MaxDelay /\ Truthful(h.intent, h.old, link[2])
  <2>1. CASE link \in direct
    <3>1. heard'[link] = {Current(link[2], 0)}
      BY <2>1 DEF Exchange
    <3>2. QED
      BY <1>1, <1>2, <3>1, TimeAssumption DEF Current, Heard, AtMostOne
  <2>2. CASE link \notin direct /\ link \in arriving
    <3>1. heard'[link] = {[intent |-> s.intent, age |-> 0, old |-> s.old] : s \in wire[link]}
      BY <2>2 DEF Exchange
    <3>2. \A s \in wire[link] : /\ s.intent \in Intents /\ s.old \in 0..MaxDelay
                                /\ Truthful(s.intent, s.old, link[2])
      BY DEF IInv, TypeOK, Sent, Remembered
    <3>3. AtMostOne(wire[link])
      BY DEF IInv, TypeOK
    <3>4. QED
      BY <3>1, <3>2, <3>3, TimeAssumption DEF Heard, AtMostOne
  <2>3. CASE link \notin direct /\ link \notin arriving
    BY <2>3 DEF Exchange, IInv, TypeOK, Remembered
  <2>4. QED
    BY <2>1, <2>2, <2>3
<1>4. ASSUME NEW link \in Links
      PROVE  /\ wire'[link] \in SUBSET Sent /\ AtMostOne(wire'[link])
             /\ \A s \in wire'[link] : Truthful(s.intent, s.old, link[2])
  <2>1. CASE link \in delayed
    <3>1. wire'[link] = {[intent |-> Intent(link[2], lease[link[2]]), old |-> 0]}
      BY <2>1 DEF Exchange
    <3>2. QED
      BY <1>1, <1>2, <3>1, TimeAssumption DEF Sent, AtMostOne
  <2>2. CASE link \notin delayed /\ link \in direct \cup arriving
    BY <2>2 DEF Exchange, AtMostOne
  <2>3. CASE link \notin delayed /\ link \notin direct \cup arriving
    BY <2>3 DEF Exchange, IInv, TypeOK, Remembered
  <2>4. QED
    BY <2>1, <2>2, <2>3
<1>5. tenure' = tenure /\ lease' = lease
  BY DEF Exchange
<1>6. heard' \in [Links -> SUBSET Heard] /\ wire' \in [Links -> SUBSET Sent]
  BY <1>3, <1>4 DEF Exchange
<1>7. TypeOK'
  BY <1>3, <1>4, <1>6 DEF Exchange, IInv, TypeOK
<1>8. Tenure'
  BY <1>5 DEF IInv, Tenure
<1>9. Remembered'
  BY <1>3, <1>4, <1>5 DEF Remembered, Truthful
<1>10. QED
  BY <1>7, <1>8, <1>9 DEF IInv

\* A tick ages what was heard by as much as it lengthens tenures.
LEMMA TickHolds ==
  ASSUME IInv, NEW found \in Findings, NEW yielding \in Yielding, NEW moving \in Moving,
         Tick(found, yielding, moving)
  PROVE  IInv'
<1>1. ASSUME NEW v \in Vehicles
      PROVE  /\ lease'[v] \in Leases
             /\ lease'[v].confirmed => lease'[v].held /\ lease'[v].owner = v
  <2> DEFINE yields == v \in yielding
  <2>1. lease'[v] = Control(v, found, yields)
    BY DEF Tick
  <2>2. yields \in BOOLEAN
    OBVIOUS
  <2> HIDE DEF yields
  <2>3. /\ Control(v, found, yields) \in Leases
        /\ Control(v, found, yields).confirmed =>
             Control(v, found, yields).held /\ Control(v, found, yields).owner = v
    BY <2>2, ControlTyped DEF IInv
  <2>4. QED
    BY <2>1, <2>3
<1>2. ASSUME NEW v \in Vehicles
      PROVE  /\ tenure'[v] \in 0..Memory /\ tenure'[v] <= tenure[v] + 1
             /\ lease'[v].confirmed => tenure'[v] > 0
             /\ ~lease'[v].confirmed => tenure'[v] = 0
  <2>1. tenure'[v] = IF ~lease'[v].confirmed THEN 0
                     ELSE IF tenure[v] < Memory THEN tenure[v] + 1 ELSE Memory
    BY DEF Tick
  <2>2. tenure[v] \in 0..Memory /\ Memory \in Nat \ {0}
    BY TimeAssumption DEF IInv, TypeOK, Memory
  <2>3. QED
    BY <2>1, <2>2
<1>3. ASSUME NEW link \in Links
      PROVE  /\ heard'[link] \in SUBSET Heard /\ AtMostOne(heard'[link])
             /\ \A h \in heard'[link] :
                  h.old <= h.age + MaxDelay /\ Truthful(h.intent, h.old, link[2])'
  <2>1. heard'[link] = Age(heard[link])
    BY DEF Tick
  <2>2. link[2] \in Vehicles
    BY DEF Links
  <2>3. ASSUME NEW h \in heard[link], h.age < Ttl
        PROVE  LET g == [intent |-> h.intent, age |-> h.age + 1, old |-> h.old + 1]
               IN  /\ g \in Heard /\ g.old <= g.age + MaxDelay
                   /\ Truthful(g.intent, g.old, link[2])'
    <3>1. /\ h \in Heard /\ h.old <= h.age + MaxDelay
          /\ h.old < tenure[link[2]] => h.intent.corridor /\ h.intent.owner = link[2]
      BY DEF IInv, TypeOK, Remembered, Truthful
    <3>2. tenure'[link[2]] <= tenure[link[2]] + 1
          /\ tenure'[link[2]] \in Nat /\ tenure[link[2]] \in Nat
      BY <1>2, <2>2, TimeAssumption DEF IInv, TypeOK, Memory
    <3> DEFINE g == [intent |-> h.intent, age |-> h.age + 1, old |-> h.old + 1]
    <3>3. h.intent \in Intents /\ h.age \in Nat /\ h.old \in Nat
      BY <3>1, TimeAssumption DEF Heard
    <3>4. h.age + 1 \in 0..Ttl /\ h.old + 1 \in 0..(Ttl + MaxDelay)
          /\ h.old + 1 <= h.age + 1 + MaxDelay
      BY <2>3, <3>1, <3>3, TimeAssumption
    <3>5. g \in Heard /\ g.old <= g.age + MaxDelay
      BY <3>3, <3>4 DEF Heard
    <3>6. h.old + 1 < tenure'[link[2]] => h.intent.corridor /\ h.intent.owner = link[2]
      BY <3>1, <3>2, <3>3
    <3>7. QED
      BY <3>3, <3>5, <3>6 DEF Truthful
  <2>4. AtMostOne(heard[link])
    BY DEF IInv, TypeOK
  <2>5. QED
    BY <2>1, <2>3, <2>4 DEF Age, AtMostOne
<1>4. ASSUME NEW link \in Links
      PROVE  /\ wire'[link] \in SUBSET Sent /\ AtMostOne(wire'[link])
             /\ \A s \in wire'[link] : Truthful(s.intent, s.old, link[2])'
  <2>1. wire'[link] = {[s EXCEPT !.old = @ + 1] : s \in {k \in wire[link] : k.old < MaxDelay}}
    BY DEF Tick
  <2>2. link[2] \in Vehicles
    BY DEF Links
  <2>3. ASSUME NEW s \in wire[link], s.old < MaxDelay
        PROVE  LET t == [s EXCEPT !.old = @ + 1]
               IN  t \in Sent /\ Truthful(t.intent, t.old, link[2])'
    <3>1. /\ s \in Sent
          /\ s.old < tenure[link[2]] => s.intent.corridor /\ s.intent.owner = link[2]
      BY DEF IInv, TypeOK, Remembered, Truthful
    <3>2. tenure'[link[2]] <= tenure[link[2]] + 1
          /\ tenure'[link[2]] \in Nat /\ tenure[link[2]] \in Nat
      BY <1>2, <2>2, TimeAssumption DEF IInv, TypeOK, Memory
    <3>3. QED
      BY <2>3, <3>1, <3>2, TimeAssumption DEF Sent, Truthful
  <2>4. AtMostOne(wire[link])
    BY DEF IInv, TypeOK
  <2>5. QED
    BY <2>1, <2>3, <2>4 DEF AtMostOne
<1>5. place' \in [Vehicles -> Places] /\ trips' \in [Vehicles -> 0..MaxTrips]
  <2>1. ASSUME NEW v \in Vehicles PROVE place'[v] \in Places
    BY DEF Tick, IInv, TypeOK, Places, NextPlace
  <2>2. ASSUME NEW v \in Vehicles PROVE trips'[v] \in 0..MaxTrips
    <3>1. trips[v] \in 0..MaxTrips
      BY DEF IInv, TypeOK
    <3>2. CASE v \in moving /\ place[v] = "clear"
      <4>1. trips[v] < MaxTrips /\ trips'[v] = trips[v] + 1
        BY <3>2 DEF Tick, MayMove
      <4>2. QED
        BY <3>1, <4>1, TimeAssumption
    <3>3. CASE ~(v \in moving /\ place[v] = "clear")
      BY <3>1, <3>3 DEF Tick
    <3>4. QED
      BY <3>2, <3>3
  <2>3. QED
    BY <2>1, <2>2 DEF Tick
<1>6. /\ lease' \in [Vehicles -> Leases] /\ tenure' \in [Vehicles -> 0..Memory]
      /\ heard' \in [Links -> SUBSET Heard] /\ wire' \in [Links -> SUBSET Sent]
  BY <1>1, <1>2, <1>3, <1>4 DEF Tick
<1>7. TypeOK'
  BY <1>3, <1>4, <1>5, <1>6 DEF Tick, IInv, TypeOK
<1>8. Tenure'
  BY <1>1, <1>2 DEF Tenure
<1>9. Remembered'
  BY <1>3, <1>4 DEF Remembered
<1>10. QED
  BY <1>7, <1>8, <1>9 DEF IInv

\* Stopping or resuming a controller keeps it.
LEMMA StopHolds ==
  ASSUME IInv, NEW v \in Vehicles, Pause(v) \/ Resume(v)
  PROVE  IInv'
<1>1. NoLease(v) \in Leases /\ ~NoLease(v).confirmed
  BY TimeAssumption DEF NoLease, Leases
<1>2. /\ turn' = turn /\ place' = place /\ heard' = heard /\ wire' = wire
      /\ trips' = trips /\ calm' = calm /\ active' \in [Vehicles -> BOOLEAN]
  BY DEF Pause, Resume, IInv, TypeOK
<1>3. ASSUME NEW u \in Vehicles
      PROVE  \/ lease'[u] = lease[u] /\ tenure'[u] = tenure[u]
             \/ lease'[u] = NoLease(v) /\ tenure'[u] = 0
  BY DEF Pause, Resume, IInv, TypeOK
<1>4. lease' \in [Vehicles -> Leases] /\ tenure' \in [Vehicles -> 0..Memory]
  <2>1. 0 \in 0..Memory
    BY TimeAssumption DEF Memory
  <2>2. QED
    BY <1>1, <2>1 DEF Pause, Resume, IInv, TypeOK
<1>5. TypeOK'
  BY <1>2, <1>4 DEF IInv, TypeOK
<1>6. Tenure'
  BY <1>1, <1>3 DEF IInv, Tenure
<1>7. Remembered'
  <2>1. ASSUME NEW link \in Links, NEW intent, NEW old \in Nat, Truthful(intent, old, link[2])
        PROVE  Truthful(intent, old, link[2])'
    <3>1. link[2] \in Vehicles
      BY DEF Links
    <3>2. tenure'[link[2]] = tenure[link[2]] \/ ~(old < tenure'[link[2]])
      BY <1>3, <3>1
    <3>3. QED
      BY <2>1, <3>2 DEF Truthful
  <2>2. ASSUME NEW link \in Links, NEW h \in heard[link]
        PROVE  h.old <= h.age + MaxDelay /\ Truthful(h.intent, h.old, link[2])'
    <3>1. h.old \in Nat
      BY TimeAssumption DEF IInv, TypeOK, Heard
    <3>2. QED
      BY <2>1, <3>1 DEF IInv, Remembered
  <2>3. ASSUME NEW link \in Links, NEW s \in wire[link]
        PROVE  Truthful(s.intent, s.old, link[2])'
    <3>1. s.old \in Nat
      BY TimeAssumption DEF IInv, TypeOK, Sent
    <3>2. QED
      BY <2>1, <3>1 DEF IInv, Remembered
  <2>4. QED
    BY <1>2, <2>2, <2>3 DEF Remembered
<1>8. QED
  BY <1>5, <1>6, <1>7 DEF IInv

\* Every step keeps the invariant.
LEMMA NextHolds == IInv /\ [Next]_vars => IInv'
<1> SUFFICES ASSUME IInv, [Next]_vars PROVE IInv'
  OBVIOUS
<1>1. CASE FleetTick
  BY <1>1, TickHolds DEF FleetTick
<1>2. CASE Travel
  BY <1>2, ExchangeHolds DEF Travel
<1>3. ASSUME NEW v \in Vehicles, Pause(v) \/ Resume(v) PROVE IInv'
  BY <1>3, StopHolds
<1>4. CASE UNCHANGED vars
  BY <1>4 DEF vars, IInv, TypeOK, Tenure, Remembered, Truthful
<1>5. QED
  BY <1>1, <1>2, <1>3, <1>4 DEF Next

\* The inductive invariant holds in every state the fleet reaches.
THEOREM Invariance == Spec => []IInv
BY InitHolds, NextHolds, PTL DEF Spec

----------------------------------------------------------------------------
(* What follows. *)

\* Every field of every controller, intent and history variable has its type.
THEOREM TypeCorrect == Spec => []TypeOK
<1>1. IInv => TypeOK
  BY DEF IInv
<1>2. QED
  BY <1>1, Invariance, PTL

\* While u has been confirmed for the longest memory, nobody is admitted from outside.
LEMMA NobodyAdmitted ==
  ASSUME IInv, NEW u \in Vehicles, NEW v \in Vehicles, u # v, tenure[u] = Memory, NEW claim
  PROVE  ~Admitted(v, claim)
<1> SUFFICES ASSUME Admitted(v, claim) PROVE FALSE
  OBVIOUS
<1>1. u \in Others(v) /\ <<v, u>> \in Links
  BY DEF Others, Links
<1>2. Live(v, u)
  BY <1>1 DEF Admitted, Quorum
<1>3. PICK h \in heard[<<v, u>>] : View(v, u) = h.intent
  BY <1>1, <1>2, ViewIsHeard DEF IInv
<1>4. h.old < tenure[u]
  <2>1. h \in Heard /\ h.old <= h.age + MaxDelay
    BY <1>1, <1>3 DEF IInv, TypeOK, Remembered
  <2>2. QED
    BY <2>1, TimeAssumption DEF Heard, Memory
<1>5. h.intent.corridor /\ h.intent.owner = u
  BY <1>1, <1>3, <1>4 DEF IInv, Remembered, Truthful
<1>6. u \in CorridorPeers(v) /\ View(v, u).owner = u
  BY <1>1, <1>2, <1>3, <1>5 DEF CorridorPeers
<1>7. QED
  BY <1>6 DEF Admitted, Acknowledged

\* Whatever is lost, delayed, paused or not detected, an owner that was confirmed
\* longer than an older intent of it can be believed is not overtaken from outside.
THEOREM OwnersAreRespected == Spec => LateComersWait
<1>1. ASSUME IInv, [Next]_vars, NEW u \in Vehicles, NEW v \in Vehicles, u # v,
             tenure[u] = Memory, ~lease[v].confirmed, lease'[v].confirmed
      PROVE  Inside(v)
  <2>1. ~NoLease(v).confirmed
    BY DEF NoLease
  <2>2. PICK found \in Findings, yielding \in Yielding, moving \in Moving :
          Tick(found, yielding, moving)
    BY <1>1, <2>1 DEF Next, FleetTick, Travel, Exchange, Pause, Resume, vars, IInv, TypeOK
  <2> DEFINE yields == v \in yielding
             l == Approach(v, found)
             claim == IF Inside(v) \/ l.confirmed THEN l.claim
                      ELSE IF l.claim < ClaimTicks THEN l.claim + 1 ELSE ClaimTicks
  <2>3. lease'[v] = Control(v, found, yields)
    BY <2>2 DEF Tick
  <2>4. yields \in BOOLEAN
    OBVIOUS
  <2> HIDE DEF yields
  <2>5. /\ l \in Leases /\ ~l.confirmed
        /\ \/ lease'[v] = NoLease(v)
           \/ lease'[v] = Win(v, l, yields)
           \/ lease'[v] = Lose(v, l)
    BY <1>1, <2>3, <2>4, ControlCases DEF IInv
  <2>6. ~Lose(v, l).confirmed
    BY <2>5 DEF Lose, Leases
  <2>7. Win(v, l, yields).confirmed => Inside(v) \/ l.confirmed \/ Admitted(v, claim)
    BY <2>5 DEF Win, Leases
  <2>8. ~Admitted(v, claim)
    BY <1>1, NobodyAdmitted
  <2>9. QED
    BY <1>1, <2>1, <2>5, <2>6, <2>7, <2>8
<1>2. IInv /\ [Next]_vars =>
        [\A u, v \in Vehicles :
           (u # v /\ tenure[u] = Memory /\ ~lease[v].confirmed /\ lease'[v].confirmed)
             => Inside(v)]_vars
  BY <1>1
<1>3. QED
  BY <1>2, Invariance, PTL DEF Spec, LateComersWait

----------------------------------------------------------------------------
(* An election seen by one of its voters. *)

BidsOf(v, l) == {Bid(v, l.reserved, l.wait, v)} \cup {PeerBid(v, u) : u \in CorridorPeers(v)}

\* A corridor peer is another vehicle, and bids in its own name.
LEMMA PeersBid ==
  ASSUME TypeOK, NEW v \in Vehicles, NEW u \in CorridorPeers(v)
  PROVE  u \in Others(v) /\ u # v /\ PeerBid(v, u) \in Bids /\ PeerBid(v, u).source = u
<1>1. u \in Others(v) /\ Live(v, u)
  BY DEF CorridorPeers
<1>2. View(v, u) \in Intents /\ u \in Vehicles /\ u # v
  BY <1>1, ViewIsHeard DEF Others
<1>3. QED
  BY <1>1, <1>2 DEF PeerBid, Bid, Bids, Intents

\* The winner is a bid that no other precedes.
LEMMA WinnerBeats ==
  ASSUME TypeOK, NEW v \in Vehicles, NEW l \in Leases, ~Inside(v)
  PROVE  /\ Winner(v, l) \in BidsOf(v, l)
         /\ \A c \in BidsOf(v, l) : ~Precedes(c, Winner(v, l))
<1>1. BidsOf(v, l) \subseteq Bids /\ BidsOf(v, l) # {}
  <2>1. Bid(v, l.reserved, l.wait, v) \in Bids
    BY DEF Leases, Bids, Bid
  <2>2. \A u \in CorridorPeers(v) : PeerBid(v, u) \in Bids
    BY PeersBid
  <2>3. QED
    BY <2>1, <2>2 DEF BidsOf
<1>2. \E b \in BidsOf(v, l) : \A c \in BidsOf(v, l) : ~Precedes(c, b)
  BY <1>1, ElectionDecides
<1>3. Winner(v, l) = CHOOSE b \in BidsOf(v, l) : \A c \in BidsOf(v, l) : ~Precedes(c, b)
  BY DEF Winner, BidsOf
<1>4. QED
  BY <1>2, <1>3, Zenon

\* Who wins is preceded by no peer.
LEMMA Chosen ==
  ASSUME TypeOK, NEW v \in Vehicles, NEW l \in Leases, ~Inside(v), Winner(v, l).source = v,
         NEW u \in CorridorPeers(v)
  PROVE  ~Precedes(PeerBid(v, u), Bid(v, l.reserved, l.wait, v))
<1>1. Winner(v, l) = Bid(v, l.reserved, l.wait, v)
  BY WinnerBeats, PeersBid DEF BidsOf
<1>2. QED
  BY <1>1, WinnerBeats DEF BidsOf

\* Who does not win is outside, and loses to a peer that no bid precedes.
LEMMA Defeated ==
  ASSUME TypeOK, NEW v \in Vehicles, NEW l \in Leases, Winner(v, l).source # v
  PROVE  /\ ~Inside(v)
         /\ \E u \in CorridorPeers(v) :
              /\ Winner(v, l) = PeerBid(v, u)
              /\ ~Precedes(Bid(v, l.reserved, l.wait, v), PeerBid(v, u))
              /\ \A w \in CorridorPeers(v) : ~Precedes(PeerBid(v, w), PeerBid(v, u))
<1>1. ~Inside(v)
  BY DEF Winner, Bid
<1>2. Winner(v, l) # Bid(v, l.reserved, l.wait, v)
  BY DEF Bid
<1>3. PICK u \in CorridorPeers(v) : Winner(v, l) = PeerBid(v, u)
  BY <1>1, <1>2, WinnerBeats DEF BidsOf
<1>4. \A c \in BidsOf(v, l) : ~Precedes(c, PeerBid(v, u))
  BY <1>1, <1>3, WinnerBeats
<1>5. /\ Bid(v, l.reserved, l.wait, v) \in BidsOf(v, l)
      /\ \A w \in CorridorPeers(v) : PeerBid(v, w) \in BidsOf(v, l)
  BY DEF BidsOf
<1>6. QED
  BY <1>1, <1>3, <1>4, <1>5

\* When everybody has just been heard, everybody's corridor and bid are as they are.
Calm == \A link \in Links : heard[link] = {Current(link[2], 0)}

\* After a complete exchange a vehicle sees of a peer what the peer has.
LEMMA CalmView ==
  ASSUME TypeOK, Calm, NEW v \in Vehicles, NEW u \in Others(v)
  PROVE  /\ View(v, u) = Intent(u, lease[u])
         /\ u \in CorridorPeers(v) <=> lease[u].held
<1>1. <<v, u>> \in Links /\ <<v, u>>[2] = u
  BY DEF Others, Links
<1>2. heard[<<v, u>>] = {Current(u, 0)}
  BY <1>1 DEF Calm
<1>3. Live(v, u)
  BY <1>2 DEF Live
<1>4. View(v, u) = Intent(u, lease[u])
  BY <1>2, <1>3, ViewIsHeard DEF Current
<1>5. QED
  BY <1>3, <1>4 DEF CorridorPeers, Intent

----------------------------------------------------------------------------
(* A tick, for one vehicle. *)

\* The claim v would be admitted with.
NextClaim(v, l) ==
  IF Inside(v) \/ l.confirmed THEN l.claim
  ELSE IF l.claim < ClaimTicks THEN l.claim + 1 ELSE ClaimTicks

Won(v, l, n) ==
  /\ n.held /\ n.reserved /\ n.owner = v
  /\ n.confirmed <=> Inside(v) \/ l.confirmed \/ Admitted(v, NextClaim(v, l))

Lost(v, l, n) ==
  /\ n.held /\ n.owner = Winner(v, l).owner /\ n.claim = 0
  /\ ~n.reserved /\ ~n.confirmed /\ ~n.announced

Fresh(l) == l.held /\ ~l.reserved /\ ~l.confirmed /\ l.claim = 0

\* The lease of a vehicle that has left the corridor claims nothing.
LEMMA Empty ==
  ASSUME NEW v \in Vehicles
  PROVE  /\ NoLease(v) \in Leases /\ NoLease(v).claim = 0
         /\ ~NoLease(v).held /\ ~NoLease(v).reserved /\ ~NoLease(v).confirmed /\ ~NoLease(v).announced
BY TimeAssumption DEF NoLease, Leases

\* What the winner of an election has afterwards.
LEMMA WinFields ==
  ASSUME NEW v \in Vehicles, NEW l \in Leases, l.held, NEW yields \in BOOLEAN
  PROVE  Won(v, l, Win(v, l, yields)) /\ (Win(v, l, yields).announced <=> ~yields)
<1> DEFINE ready == Inside(v) \/ l.confirmed \/ Admitted(v, NextClaim(v, l))
           claim == NextClaim(v, l)
           wait  == IF yields THEN MoreWait(l) ELSE l.wait
           hold  == IF yields THEN ClaimTicks ELSE IF l.hold > 0 THEN l.hold - 1 ELSE 0
<1>1. Win(v, l, yields) =
        [l EXCEPT !.reserved = TRUE, !.confirmed = ready, !.claim = claim, !.owner = v,
                  !.announced = ~yields, !.wait = wait, !.hold = hold]
  BY DEF Win, NextClaim
<1>2. ready <=> Inside(v) \/ l.confirmed \/ Admitted(v, NextClaim(v, l))
  OBVIOUS
<1> HIDE DEF ready, claim, wait, hold
<1>3. Win(v, l, yields).held = l.held /\ Win(v, l, yields).owner = v
  BY <1>1 DEF Leases
<1>4. Win(v, l, yields).reserved = TRUE
  BY <1>1 DEF Leases
<1>5. Win(v, l, yields).confirmed = ready
  BY <1>1 DEF Leases
<1>6. Win(v, l, yields).announced = ~yields
  BY <1>1 DEF Leases
<1>7. QED
  BY <1>2, <1>3, <1>4, <1>5, <1>6 DEF Won

\* What a loser has afterwards.
LEMMA LoseFields ==
  ASSUME NEW v \in Vehicles, NEW l \in Leases, l.held
  PROVE  Lost(v, l, Lose(v, l))
<1> DEFINE owner == Winner(v, l).owner
           wait  == MoreWait(l)
<1>1. Lose(v, l) = [l EXCEPT !.reserved = FALSE, !.confirmed = FALSE, !.claim = 0,
                             !.announced = FALSE, !.owner = owner, !.wait = wait]
  BY DEF Lose
<1> HIDE DEF owner, wait
<1>2. Lose(v, l).held = l.held /\ Lose(v, l).owner = owner /\ Lose(v, l).claim = 0
  BY <1>1 DEF Leases
<1>3. ~Lose(v, l).reserved /\ ~Lose(v, l).confirmed /\ ~Lose(v, l).announced
  BY <1>1 DEF Leases
<1>4. QED
  BY <1>2, <1>3 DEF Lost, owner

\* The lease a vehicle enters a tick with is none, a fresh one or the one it has.
LEMMA Approaching ==
  ASSUME TypeOK, NEW found \in Findings, NEW v \in Vehicles
  PROVE  /\ Approach(v, found) \in Leases
         /\ \/ place[v] = "clear" /\ Approach(v, found) = NoLease(v)
            \/ /\ place[v] \in {"near", "gate", "mouth"} /\ ~lease[v].held
               /\ Fresh(Approach(v, found))
            \/ place[v] # "clear" /\ Approach(v, found) = lease[v]
<1>1. Approach(v, found) \in Leases
  BY ControlCases
<1>2. ASSUME place[v] # "clear", v \in DOMAIN found
      PROVE  MayDetect(v) /\ Fresh(Approach(v, found))
  <2>1. MayDetect(v)
    BY <1>2 DEF Findings
  <2> DEFINE wait == found[v]
  <2>2. Approach(v, found) = [NoLease(v) EXCEPT !.held = TRUE, !.wait = wait]
    BY <1>2 DEF Approach
  <2> HIDE DEF wait
  <2>3. Fresh(Approach(v, found))
    BY <2>2 DEF Fresh, NoLease
  <2>4. QED
    BY <2>1, <2>3
<1>3. QED
  BY <1>1, <1>2 DEF Approach, MayDetect

\* Three things may become of it.
LEMMA Decision ==
  ASSUME TypeOK, NEW found \in Findings, NEW yielding \in Yielding, NEW moving \in Moving,
         Tick(found, yielding, moving), NEW v \in Vehicles, NEW l, l = Approach(v, found)
  PROVE  \/ lease'[v] = NoLease(v) /\ (active[v] => ~l.held)
         \/ /\ l.held /\ Winner(v, l).source = v /\ Won(v, l, lease'[v])
            /\ (lease'[v].announced <=> v \notin yielding)
         \/ l.held /\ Winner(v, l).source # v /\ Lost(v, l, lease'[v])
<1> DEFINE yields == v \in yielding
<1>1. lease'[v] = Control(v, found, yields)
  BY DEF Tick
<1>2. yields \in BOOLEAN /\ (~yields <=> v \notin yielding) /\ l \in Leases
  BY Approaching
<1> HIDE DEF yields
<1>3. CASE ~active[v] \/ ~l.held
  BY <1>1, <1>3 DEF Control
<1>4. CASE active[v] /\ l.held /\ Winner(v, l).source = v
  <2>1. lease'[v] = Win(v, l, yields)
    BY <1>1, <1>4 DEF Control
  <2>2. QED
    BY <1>2, <1>4, <2>1, WinFields
<1>5. CASE active[v] /\ l.held /\ Winner(v, l).source # v
  <2>1. lease'[v] = Lose(v, l)
    BY <1>1, <1>5 DEF Control
  <2>2. QED
    BY <1>2, <1>5, <2>1, LoseFields
<1>6. QED
  BY <1>3, <1>4, <1>5

----------------------------------------------------------------------------
(* What a complete exchange settles. *)

\* A claim is of one's own, and only a claim is announced, counted or confirmed.
Stated ==
  \A v \in Vehicles :
    /\ lease[v].announced => lease[v].reserved
    /\ lease[v].reserved => lease[v].held /\ lease[v].owner = v
    /\ lease[v].confirmed => lease[v].reserved
    /\ lease[v].claim > 0 => lease[v].reserved

Settled == IInv /\ Stated /\ (turn = "tick" /\ calm => Calm)

\* The fleet starts settled.
LEMMA SettledInit == Init => Settled
<1> SUFFICES ASSUME Init PROVE Settled
  OBVIOUS
<1>1. Stated
  BY Empty DEF Init, Stated
<1>2. QED
  BY <1>1, InitHolds DEF Init, Settled

\* A tick lets nobody announce what it does not hold in its own name.
LEMMA StatedTick ==
  ASSUME TypeOK, Stated, NEW found \in Findings, NEW yielding \in Yielding, NEW moving \in Moving,
         Tick(found, yielding, moving)
  PROVE  Stated'
<1> SUFFICES ASSUME NEW v \in Vehicles
             PROVE  /\ lease'[v].announced => lease'[v].reserved
                    /\ lease'[v].reserved => lease'[v].held /\ lease'[v].owner = v
                    /\ lease'[v].confirmed => lease'[v].reserved
                    /\ lease'[v].claim > 0 => lease'[v].reserved
  BY DEF Stated
<1> DEFINE l == Approach(v, found)
<1>1. \/ lease'[v] = NoLease(v)
      \/ Won(v, l, lease'[v])
      \/ Lost(v, l, lease'[v])
  BY Decision
<1> HIDE DEF l
<1>2. QED
  BY <1>1, Empty DEF Won, Lost

\* Every step keeps Settled.
LEMMA SettledNext == Settled /\ [Next]_vars => Settled'
<1> SUFFICES ASSUME Settled, [Next]_vars PROVE Settled'
  OBVIOUS
<1>1. IInv' /\ TypeOK
  BY NextHolds DEF Settled, IInv
<1>2. CASE FleetTick
  <2>1. PICK found \in Findings, yielding \in Yielding, moving \in Moving :
          Tick(found, yielding, moving)
    BY <1>2 DEF FleetTick
  <2>2. Stated' /\ turn' = "exchange"
    BY <1>1, <2>1, StatedTick DEF Settled, Tick
  <2>3. QED
    BY <1>1, <2>2 DEF Settled
<1>3. CASE Travel
  <2>1. PICK direct, arriving, delayed : Exchange(direct, arriving, delayed)
    BY <1>3 DEF Travel
  <2>2. Stated'
    BY <2>1 DEF Exchange, Settled, Stated
  <2>3. calm' => Calm'
    BY <2>1 DEF Exchange, Calm, Current
  <2>4. QED
    BY <1>1, <2>2, <2>3 DEF Settled
<1>4. ASSUME NEW v \in Vehicles, Pause(v) \/ Resume(v) PROVE Settled'
  <2>1. turn' = "exchange"
    BY <1>4 DEF Pause, Resume
  <2>2. \A u \in Vehicles : lease'[u] = lease[u] \/ (u = v /\ lease'[u] = NoLease(v))
    BY <1>1, <1>4 DEF Pause, Resume, TypeOK
  <2>3. Stated'
    BY <2>2, Empty DEF Settled, Stated
  <2>4. QED
    BY <1>1, <2>1, <2>3 DEF Settled
<1>5. CASE UNCHANGED vars
  BY <1>1, <1>5 DEF vars, Settled, Stated, Calm, Current
<1>6. QED
  BY <1>2, <1>3, <1>4, <1>5 DEF Next

\* The fleet is always settled, with all faults.
LEMMA SettledAlways == Spec => []Settled
BY SettledInit, SettledNext, PTL DEF Spec

\* The bid of a peer whose owner is itself or the voter counts as it is.
LEMMA CalmBid ==
  ASSUME TypeOK, Calm, NEW v \in Vehicles, NEW u \in Others(v), lease[u].held, lease[u].owner \in {u, v}
  PROVE  /\ u \in CorridorPeers(v)
         /\ PeerBid(v, u) = Bid(u, lease[u].announced, lease[u].wait, lease[u].owner)
<1>1. u \in CorridorPeers(v) /\ View(v, u) = Intent(u, lease[u])
  BY CalmView
<1>2. /\ View(v, u).reserved = lease[u].announced /\ View(v, u).wait = lease[u].wait
      /\ View(v, u).owner = lease[u].owner
  BY <1>1 DEF Intent
<1>3. View(v, u).owner \in CorridorPeers(v) \cup {v}
  BY <1>1, <1>2
<1>4. QED
  BY <1>1, <1>2, <1>3 DEF PeerBid

\* Who is confirmed in a tick has won; unless it was in the corridor or confirmed already,
\* every peer has given way to it, or there is none and it has claimed before.
LEMMA ConfirmedBy ==
  ASSUME Settled, Calm, ClaimTicks > 1,
         NEW found \in Findings, NEW yielding \in Yielding, NEW moving \in Moving,
         Tick(found, yielding, moving), NEW v \in Vehicles, lease'[v].confirmed, ~Inside(v)
  PROVE  \E l \in Leases :
           /\ Winner(v, l).source = v
           /\ l = lease[v] \/ (~lease[v].held /\ Fresh(l))
           /\ \/ lease[v].confirmed
              \/ /\ CorridorPeers(v) # {}
                 /\ \A u \in CorridorPeers(v) : ~lease[u].announced /\ lease[u].owner = v
              \/ CorridorPeers(v) = {} /\ lease[v].reserved
<1> DEFINE l == Approach(v, found)
<1>1. TypeOK /\ Stated
  BY DEF Settled, IInv
<1>2. l \in Leases /\ ~NoLease(v).confirmed /\ ~NoLease(v).held
  BY <1>1, Approaching, Empty
<1>3. /\ Winner(v, l).source = v /\ l.held
      /\ (l.confirmed \/ Admitted(v, NextClaim(v, l)))
  <2>1. \/ lease'[v] = NoLease(v)
        \/ l.held /\ Winner(v, l).source = v /\ Won(v, l, lease'[v])
        \/ Lost(v, l, lease'[v])
    BY <1>1, Decision
  <2>2. QED
    BY <1>2, <2>1 DEF Won, Lost
<1>4. l = lease[v] \/ (~lease[v].held /\ Fresh(l))
  BY <1>1, <1>2, <1>3, Approaching
<1> HIDE DEF l
<1>5. CASE l.confirmed
  BY <1>2, <1>3, <1>4, <1>5 DEF Fresh
<1>6. CASE ~l.confirmed /\ Acknowledged(v)
  <2>1. ASSUME NEW u \in CorridorPeers(v) PROVE ~lease[u].announced /\ lease[u].owner = v
    <3>1. u \in Others(v) /\ View(v, u) = Intent(u, lease[u])
      BY <1>1, PeersBid, CalmView
    <3>2. ~View(v, u).reserved /\ View(v, u).owner = v
      BY <1>6 DEF Acknowledged
    <3>3. QED
      BY <3>1, <3>2 DEF Intent
  <2>2. CorridorPeers(v) # {}
    BY <1>6 DEF Acknowledged
  <2>3. QED
    BY <1>2, <1>3, <1>4, <2>1, <2>2
<1>7. CASE ~l.confirmed /\ CorridorPeers(v) = {} /\ NextClaim(v, l) >= ClaimTicks
  <2>1. l.claim \in 0..ClaimTicks /\ l.claim > 0
    BY <1>2, <1>7, TimeAssumption DEF NextClaim, Leases
  <2>2. l = lease[v] /\ lease[v].reserved
    BY <1>1, <1>4, <2>1 DEF Fresh, Stated
  <2>3. QED
    BY <1>2, <1>3, <1>7, <2>2
<1>8. QED
  BY <1>3, <1>5, <1>6, <1>7 DEF Admitted

\* When everybody has just heard everybody, two vehicles outside that announce what they
\* claim are not both confirmed: the code's three ticks of claiming are more than one.
THEOREM ExchangeSettles ==
  ASSUME ClaimTicks > 1
  PROVE  Spec => OneExchangeAgrees
<1>1. ASSUME Settled, Next, turn = "tick", calm, NEW u \in Vehicles, NEW v \in Vehicles,
             u # v, lease'[u].confirmed, lease'[v].confirmed,
             \A w \in {u, v} : lease[w].reserved => lease[w].announced,
             ~Inside(u), ~Inside(v)
      PROVE  FALSE
  <2>1. /\ TypeOK /\ Stated /\ Calm /\ u \in Others(v) /\ v \in Others(u)
        /\ u \in Nat /\ v \in Nat /\ lease[u] \in Leases /\ lease[v] \in Leases
    BY <1>1, VehicleAssumption DEF Settled, IInv, Others, TypeOK
  <2>2. PICK found \in Findings, yielding \in Yielding, moving \in Moving :
          Tick(found, yielding, moving)
    BY <1>1 DEF Next, FleetTick, Travel, Exchange, Pause, Resume
  <2> DEFINE By(a) ==
        \/ lease[a].confirmed
        \/ /\ CorridorPeers(a) # {}
           /\ \A x \in CorridorPeers(a) : ~lease[x].announced /\ lease[x].owner = a
        \/ CorridorPeers(a) = {} /\ lease[a].reserved
  <2>3. PICK lu \in Leases : Winner(u, lu).source = u /\ (lu = lease[u] \/ ~lease[u].held) /\ By(u)
    BY <1>1, <2>1, <2>2, ConfirmedBy
  <2>4. PICK lv \in Leases : Winner(v, lv).source = v /\ (lv = lease[v] \/ ~lease[v].held) /\ By(v)
    BY <1>1, <2>1, <2>2, ConfirmedBy
  <2>5. u \in CorridorPeers(v) <=> lease[u].held
    BY <2>1, CalmView
  <2>6. v \in CorridorPeers(u) <=> lease[v].held
    BY <2>1, CalmView
  <2>7. /\ lease[u].confirmed \/ lease[u].reserved =>
             lease[u].held /\ lease[u].owner = u /\ lease[u].announced /\ lease[u].reserved
        /\ lease[v].confirmed \/ lease[v].reserved =>
             lease[v].held /\ lease[v].owner = v /\ lease[v].announced /\ lease[v].reserved
    BY <1>1, <2>1 DEF Stated
  <2>8. CASE lease[u].confirmed /\ lease[v].confirmed
    <3>1. ~Precedes(Bid(u, TRUE, lease[u].wait, u), Bid(v, TRUE, lease[v].wait, v))
      <4>1. u \in CorridorPeers(v) /\ PeerBid(v, u) = Bid(u, TRUE, lease[u].wait, u)
        BY <2>1, <2>7, <2>8, CalmBid
      <4>2. lv = lease[v] /\ lv.reserved = TRUE
        BY <2>1, <2>4, <2>7, <2>8 DEF Leases
      <4>3. QED
        BY <1>1, <2>1, <2>4, <4>1, <4>2, Chosen
    <3>2. ~Precedes(Bid(v, TRUE, lease[v].wait, v), Bid(u, TRUE, lease[u].wait, u))
      <4>1. v \in CorridorPeers(u) /\ PeerBid(u, v) = Bid(v, TRUE, lease[v].wait, v)
        BY <2>1, <2>7, <2>8, CalmBid
      <4>2. lu = lease[u] /\ lu.reserved = TRUE
        BY <2>1, <2>3, <2>7, <2>8 DEF Leases
      <4>3. QED
        BY <1>1, <2>1, <2>3, <4>1, <4>2, Chosen
    <3>3. QED
      BY <1>1, <2>1, <3>1, <3>2 DEF Precedes, Bid
  <2>9. CASE /\ ~lease[u].confirmed /\ ~lease[v].confirmed
             /\ u \in CorridorPeers(v) /\ v \in CorridorPeers(u)
    <3>1. /\ ~lease[v].announced /\ lease[v].owner = u
          /\ ~lease[u].announced /\ lease[u].owner = v
      BY <2>3, <2>4, <2>9
    <3>2. /\ lease[u].announced = FALSE /\ lease[u].reserved = FALSE
          /\ lease[v].announced = FALSE /\ lease[v].reserved = FALSE
      BY <2>1, <2>7, <3>1 DEF Leases
    <3>3. ~Precedes(Bid(u, FALSE, lease[u].wait, v), Bid(v, FALSE, lease[v].wait, v))
      <4>1. PeerBid(v, u) = Bid(u, FALSE, lease[u].wait, v)
        BY <2>1, <2>5, <2>9, <3>1, <3>2, CalmBid
      <4>2. lv = lease[v]
        BY <2>4, <2>6, <2>9
      <4>3. QED
        BY <1>1, <2>1, <2>4, <2>9, <3>2, <4>1, <4>2, Chosen
    <3>4. ~Precedes(Bid(v, FALSE, lease[v].wait, u), Bid(u, FALSE, lease[u].wait, u))
      <4>1. PeerBid(u, v) = Bid(v, FALSE, lease[v].wait, u)
        BY <2>1, <2>6, <2>9, <3>1, <3>2, CalmBid
      <4>2. lu = lease[u]
        BY <2>3, <2>5, <2>9
      <4>3. QED
        BY <1>1, <2>1, <2>3, <2>9, <3>2, <4>1, <4>2, Chosen
    <3>5. lease[u].wait \in Nat /\ lease[v].wait \in Nat
      BY <2>1, TimeAssumption DEF Leases
    <3>6. QED
      BY <1>1, <2>1, <3>3, <3>4, <3>5 DEF Precedes, Bid
  <2>10. CASE /\ ~lease[u].confirmed /\ ~lease[v].confirmed
              /\ u \notin CorridorPeers(v) \/ v \notin CorridorPeers(u)
    <3>1. /\ CorridorPeers(u) # {} /\ \A x \in CorridorPeers(u) : lease[x].owner = u
          /\ CorridorPeers(v) # {} /\ \A x \in CorridorPeers(v) : lease[x].owner = v
      BY <2>3, <2>4, <2>5, <2>6, <2>7, <2>10
    <3>2. \A x \in CorridorPeers(v) : x = u \/ x \in CorridorPeers(u)
      BY <2>1, CalmView DEF CorridorPeers, Others
    <3>3. \A x \in CorridorPeers(u) : x = v \/ x \in CorridorPeers(v)
      BY <2>1, CalmView DEF CorridorPeers, Others
    <3>4. QED
      BY <1>1, <2>10, <3>1, <3>2, <3>3
  <2>11. CASE lease[u].confirmed /\ ~lease[v].confirmed
    BY <2>4, <2>5, <2>7, <2>11
  <2>12. CASE ~lease[u].confirmed /\ lease[v].confirmed
    BY <2>3, <2>6, <2>7, <2>12
  <2>13. QED
    BY <2>8, <2>9, <2>10, <2>11, <2>12
<1>2. Settled /\ [Next]_vars =>
        [(turn = "tick" /\ calm)
           => \A u, v \in Vehicles :
                (u # v /\ lease'[u].confirmed /\ lease'[v].confirmed
                   /\ \A w \in {u, v} : lease[w].reserved => lease[w].announced)
                  => (Inside(u) \/ Inside(v))]_vars
  BY <1>1
<1>3. QED
  BY <1>2, SettledAlways, PTL DEF Spec, OneExchangeAgrees

----------------------------------------------------------------------------
(* One owner, and it stays, while every intent is heard in time and nobody stops, yields or *)
(* misses the corridor.                                                                     *)

\* Nothing is lost, nobody is paused, and claims are announced.
Undisturbed ==
  /\ \A v \in Vehicles : active[v] /\ (lease[v].reserved => lease[v].announced)
  /\ turn = "tick" => calm

\* Past the place where it would brake a vehicle is confirmed, until its body has left.
OnTheWay ==
  \A v \in Vehicles :
    /\ place[v] \in {"gate", "mouth", "mid", "tail"} => lease[v].confirmed
    /\ place[v] = "clear" /\ lease[v].held => lease[v].confirmed
    /\ place[v] = "far" => ~lease[v].held

\* Next to a confirmed owner nobody claims.
SoleClaim == \A u, v \in Vehicles : lease[u].confirmed /\ lease[v].reserved => u = v

\* If nobody claims, those that wait have all given way to somebody who has passed.
Vacant ==
  (\A v \in Vehicles : ~lease[v].reserved) =>
     \A v \in Vehicles : lease[v].held => place[lease[v].owner] \in {"clear", "far"}

Orderly == Settled /\ Undisturbed /\ OnTheWay /\ SoleClaim /\ Vacant

\* The fleet starts orderly.
LEMMA OrderlyInit == Init => Orderly
<1> SUFFICES ASSUME Init PROVE Orderly
  OBVIOUS
<1>1. \A v \in Vehicles : /\ ~lease[v].held /\ ~lease[v].reserved /\ ~lease[v].confirmed
                          /\ active[v] /\ place[v] = "far"
  BY Empty DEF Init
<1>2. QED
  BY <1>1, SettledInit DEF Init, Orderly, Undisturbed, OnTheWay, SoleClaim, Vacant

\* An owner stays; nobody begins to claim beside a claim.
LEMMA OwnersStay ==
  ASSUME Orderly, Calm, NEW found \in Findings, NEW yielding \in Yielding, NEW moving \in Moving,
         Tick(found, yielding, moving), NEW v \in Vehicles, lease[v].confirmed, place[v] # "clear"
  PROVE  lease'[v].confirmed
<1> DEFINE l == Approach(v, found)
<1>1. TypeOK /\ Stated /\ lease[v].held /\ lease[v].reserved /\ active[v] /\ lease[v] \in Leases
  BY DEF Orderly, Settled, IInv, Stated, Undisturbed, TypeOK
<1>2. l = lease[v]
  BY <1>1, Approaching
<1>3. \/ Winner(v, l).source = v /\ Won(v, l, lease'[v])
      \/ Winner(v, l).source # v
  BY <1>1, <1>2, Decision
<1> HIDE DEF l
<1>4. ASSUME Winner(v, l).source # v PROVE FALSE
  <2>1. PICK u \in CorridorPeers(v) : ~Precedes(Bid(v, l.reserved, l.wait, v), PeerBid(v, u))
    BY <1>1, <1>2, <1>4, Defeated
  <2>2. u \in Others(v) /\ View(v, u) = Intent(u, lease[u]) /\ u # v /\ u \in Vehicles
    BY <1>1, PeersBid, CalmView DEF Others
  <2>3. ~lease[u].reserved
    BY <2>2 DEF Orderly, SoleClaim
  <2>4. ~View(v, u).reserved
    BY <1>1, <2>2, <2>3 DEF Stated, Intent
  <2>5. ~PeerBid(v, u).reserved
    BY <2>4 DEF PeerBid, Bid
  <2>6. QED
    BY <1>1, <1>2, <2>1, <2>5 DEF Precedes, Bid
<1>5. QED
  BY <1>2, <1>3, <1>4 DEF Won

\* Nobody claims the corridor beside a vehicle that claims it already.
LEMMA ClaimsAreRespected ==
  ASSUME Orderly, Calm, NEW found \in Findings, NEW yielding \in Yielding, NEW moving \in Moving,
         Tick(found, yielding, moving), NEW u \in Vehicles, NEW v \in Vehicles,
         lease[u].reserved, ~lease[v].reserved
  PROVE  ~lease'[v].reserved
<1> DEFINE l == Approach(v, found)
<1>1. TypeOK /\ Stated
  BY DEF Orderly, Settled, IInv
<1>2. l \in Leases /\ ~l.reserved
  BY <1>1, Approaching, Empty DEF Fresh
<1>3. \/ ~lease'[v].reserved
      \/ Winner(v, l).source = v
  BY <1>1, Empty, Decision DEF Lost
<1> HIDE DEF l
<1>4. ASSUME Winner(v, l).source = v PROVE FALSE
  <2>1. ~Inside(v)
    BY <1>1 DEF Inside, Orderly, OnTheWay, Stated
  <2>2. u \in Others(v) /\ lease[u].held /\ lease[u].owner = u /\ lease[u].announced
    BY <1>1 DEF Others, Stated, Orderly, Undisturbed
  <2>3. u \in CorridorPeers(v) /\ PeerBid(v, u) = Bid(u, lease[u].announced, lease[u].wait, u)
    BY <1>1, <2>2, CalmBid
  <2>4. ~Precedes(PeerBid(v, u), Bid(v, l.reserved, l.wait, v))
    BY <1>1, <1>2, <1>4, <2>1, <2>3, Chosen
  <2>5. PeerBid(v, u).reserved /\ ~Bid(v, l.reserved, l.wait, v).reserved
    BY <1>2, <2>2, <2>3 DEF Bid
  <2>6. QED
    BY <2>4, <2>5 DEF Precedes
<1>5. QED
  BY <1>3, <1>4

\* Whoever becomes the owner had nobody beside it who claims after the tick.
LEMMA SoleClaimTick ==
  ASSUME Orderly, Calm, ClaimTicks > 1,
         NEW found \in Findings, NEW yielding \in Yielding, NEW moving \in Moving,
         Tick(found, yielding, moving)
  PROVE  SoleClaim'
<1> SUFFICES ASSUME NEW u \in Vehicles, NEW v \in Vehicles, lease'[u].confirmed, lease'[v].reserved,
                    u # v
             PROVE  FALSE
  BY DEF SoleClaim
<1>1. Settled /\ TypeOK /\ Stated /\ OnTheWay
  BY DEF Orderly, Settled, IInv
<1>2. CASE lease[u].confirmed
  <2>1. lease[u].reserved /\ ~lease[v].reserved
    BY <1>1, <1>2 DEF Stated, Orderly, SoleClaim
  <2>2. QED
    BY <2>1, ClaimsAreRespected
<1>3. CASE ~lease[u].confirmed
  <2>1. ~Inside(u)
    BY <1>1, <1>3 DEF Inside, OnTheWay
  <2>2. PICK l \in Leases :
          /\ l = lease[u] \/ (~lease[u].held /\ Fresh(l))
          /\ \/ /\ CorridorPeers(u) # {}
                /\ \A x \in CorridorPeers(u) : ~lease[x].announced /\ lease[x].owner = u
             \/ CorridorPeers(u) = {} /\ lease[u].reserved
    BY <1>1, <1>3, <2>1, ConfirmedBy
  <2>3. \A x \in Vehicles \ {u} : x \in CorridorPeers(u) <=> lease[x].held
    BY <1>1, CalmView DEF Others
  <2>4. \A x \in Vehicles \ {u} : ~lease[x].reserved
    BY <1>1, <2>2, <2>3 DEF Stated, Orderly, Undisturbed
  <2>5. CASE lease[u].reserved
    BY <1>1, <2>4, <2>5, ClaimsAreRespected
  <2>6. CASE ~lease[u].reserved
    <3>1. PICK x \in CorridorPeers(u) : lease[x].owner = u
      BY <2>2, <2>6
    <3>2. x \in Vehicles /\ x # u /\ lease[x].held
      BY <1>1, <2>3, <3>1, PeersBid DEF Others
    <3>3. place[u] \in {"clear", "far"}
      BY <2>4, <2>6, <3>1, <3>2 DEF Orderly, Vacant
    <3>4. ~lease[u].held
      BY <1>1, <2>6, <3>3 DEF OnTheWay, Stated
    <3>5. ~Approach(u, found).held
      BY <1>1, <3>3, <3>4, Approaching, Empty
    <3>6. ~lease'[u].confirmed
      BY <1>1, <3>5, Decision, Empty
    <3>7. QED
      BY <3>6
  <2>7. QED
    BY <2>5, <2>6
<1>4. QED
  BY <1>2, <1>3

\* Among vehicles that wait for nobody present, one wins, unless it is the only one.
LEMMA SomebodyWins ==
  ASSUME Orderly, Calm, NEW found \in Findings, NEW yielding \in Yielding, NEW moving \in Moving,
         Tick(found, yielding, moving), \A v \in Vehicles : ~lease[v].reserved,
         NEW h \in Vehicles, lease[h].held
  PROVE  \E v \in Vehicles : lease'[v].reserved
<1>1. TypeOK /\ Stated /\ OnTheWay
  BY DEF Orderly, Settled, IInv
<1> DEFINE Waiting == {v \in Vehicles : lease[v].held}
           own(v) == Bid(v, FALSE, lease[v].wait, v)
           B == {own(v) : v \in Waiting}
<1>2. B \subseteq Bids /\ B # {}
  <2>1. ASSUME NEW v \in Waiting PROVE own(v) \in Bids
    <3>1. lease[v].wait \in 0..MaxWait /\ v \in Vehicles
      BY <1>1 DEF TypeOK, Leases
    <3>2. QED
      BY <3>1 DEF Bids, Bid
  <2>2. QED
    BY <2>1
<1>3. PICK b \in B : \A c \in B : ~Precedes(c, b)
  BY <1>2, ElectionDecides
<1>4. PICK v \in Waiting : b = own(v)
  BY <1>3
<1>5. \A u \in Waiting : ~Precedes(own(u), own(v))
  BY <1>3, <1>4
<1>6. \A u \in Waiting : place[u] \notin {"clear", "far"}
  BY <1>1 DEF OnTheWay, Stated
<1>7. \A u \in Waiting : lease[u].owner \notin Waiting
  BY <1>6 DEF Orderly, Vacant
<1>8. Approach(v, found) = lease[v] /\ lease[v] \in Leases /\ active[v]
  BY <1>1, <1>6, Approaching DEF TypeOK, Orderly, Undisturbed
<1>9. lease[v].reserved = FALSE
  BY <1>8 DEF Leases
<1>10. Winner(v, lease[v]).source = v
  <2> SUFFICES ASSUME Winner(v, lease[v]).source # v PROVE FALSE
    OBVIOUS
  <2>1. PICK u \in CorridorPeers(v) : ~Precedes(own(v), PeerBid(v, u))
    BY <1>1, <1>8, <1>9, Defeated
  <2>2. u \in Others(v) /\ u # v /\ u \in Vehicles /\ View(v, u) = Intent(u, lease[u])
    BY <1>1, <2>1, PeersBid, CalmView DEF Others
  <2>3. u \in Waiting
    BY <1>1, <2>1, <2>2, CalmView
  <2>4. lease[u].owner \notin CorridorPeers(v) \cup {v}
    BY <1>1, <1>7, <2>3, PeersBid, CalmView DEF Others
  <2>5. View(v, u).owner = lease[u].owner /\ View(v, u).wait = lease[u].wait
    BY <2>2 DEF Intent
  <2>6. PeerBid(v, u) = own(u)
    BY <2>4, <2>5 DEF PeerBid
  <2>7. ~Precedes(own(v), own(u)) /\ ~Precedes(own(u), own(v))
    BY <1>5, <2>1, <2>3, <2>6
  <2>8. u \in Nat /\ v \in Nat /\ lease[u].wait \in Nat /\ lease[v].wait \in Nat
    BY <1>1, <2>2, VehicleAssumption, TimeAssumption DEF TypeOK, Leases
  <2>9. QED
    BY <2>2, <2>7, <2>8 DEF Precedes, Bid
<1>11. Won(v, lease[v], lease'[v])
  BY <1>1, <1>4, <1>8, <1>10, Decision
<1>12. QED
  BY <1>4, <1>11 DEF Won

\* The first of those that claim wins again.
LEMMA ClaimLasts ==
  ASSUME Orderly, Calm, NEW found \in Findings, NEW yielding \in Yielding, NEW moving \in Moving,
         Tick(found, yielding, moving), NEW m \in Vehicles, lease[m].reserved, place[m] # "clear",
         \A u \in Vehicles : lease[u].reserved => m <= u
  PROVE  lease'[m].reserved
<1>1. TypeOK /\ Stated
  BY DEF Orderly, Settled, IInv
<1>2. /\ lease[m].held /\ lease[m] \in Leases /\ active[m] /\ lease[m].reserved = TRUE
      /\ lease[m].owner = m
  BY <1>1 DEF TypeOK, Leases, Stated, Orderly, Undisturbed
<1>3. Approach(m, found) = lease[m]
  BY <1>1, <1>2, Approaching
<1>4. Winner(m, lease[m]).source = m
  <2> SUFFICES ASSUME Winner(m, lease[m]).source # m PROVE FALSE
    OBVIOUS
  <2>1. PICK u \in CorridorPeers(m) : ~Precedes(Bid(m, TRUE, lease[m].wait, m), PeerBid(m, u))
    BY <1>1, <1>2, Defeated
  <2>2. u \in Others(m) /\ u # m /\ u \in Vehicles /\ View(m, u) = Intent(u, lease[u])
    BY <1>1, <2>1, PeersBid, CalmView DEF Others
  <2>3. PeerBid(m, u).reserved
    BY <2>1 DEF Precedes, Bid
  <2>4. View(m, u).reserved
    BY <2>3 DEF PeerBid, Bid
  <2>5. lease[u].announced /\ lease[u].reserved /\ lease[u].held /\ lease[u].owner = u
    BY <1>1, <2>2, <2>4 DEF Intent, Stated
  <2>6. PeerBid(m, u) = Bid(u, lease[u].announced, lease[u].wait, u)
    BY <1>1, <2>2, <2>5, CalmBid
  <2>7. m <= u /\ m \in Nat /\ u \in Nat
    BY <2>2, <2>5, VehicleAssumption
  <2>8. QED
    BY <2>1, <2>2, <2>5, <2>6, <2>7 DEF Precedes, Bid
<1>5. Won(m, lease[m], lease'[m])
  BY <1>1, <1>2, <1>3, <1>4, Decision
<1>6. QED
  BY <1>5 DEF Won

\* Who waits when nobody claims any more gave way to the owner that has just left.
LEMMA VacantTick ==
  ASSUME Orderly, Calm, NEW found \in Findings, NEW yielding \in Yielding, NEW moving \in Moving,
         Tick(found, yielding, moving)
  PROVE  Vacant'
<1> SUFFICES ASSUME \A v \in Vehicles : ~lease'[v].reserved, NEW v \in Vehicles, lease'[v].held
             PROVE  place'[lease'[v].owner] \in {"clear", "far"}
  BY DEF Vacant
<1>1. TypeOK /\ Stated /\ OnTheWay
  BY DEF Orderly, Settled, IInv
<1> DEFINE l == Approach(v, found)
<1>2. /\ l.held /\ Winner(v, l).source # v /\ lease'[v].owner = Winner(v, l).owner
      /\ l \in Leases
  BY <1>1, Decision, Empty, Approaching DEF Won, Lost
<1> HIDE DEF l
<1>3. PICK u \in CorridorPeers(v) : /\ Winner(v, l) = PeerBid(v, u)
                                    /\ \A w \in CorridorPeers(v) : ~Precedes(PeerBid(v, w), PeerBid(v, u))
  BY <1>1, <1>2, Defeated
<1>4. u \in Others(v) /\ u # v /\ u \in Vehicles /\ View(v, u) = Intent(u, lease[u]) /\ lease[u].held
  BY <1>1, <1>3, PeersBid, CalmView DEF Others
<1>5. PICK c \in Vehicles : lease[c].reserved
  BY <1>4, SomebodyWins
<1>6. PICK m \in Vehicles : lease[m].reserved /\ \A w \in Vehicles : lease[w].reserved => m <= w
  <2> DEFINE S == {w \in Vehicles : lease[w].reserved}
  <2>1. S \subseteq Nat /\ S # {}
    BY <1>5, VehicleAssumption
  <2>2. QED
    BY <2>1, Least
<1>7. place[m] = "clear"
  BY <1>6, ClaimLasts
<1>8. lease[m].held /\ lease[m].owner = m /\ lease[m].announced /\ lease[m].confirmed
  BY <1>1, <1>6, <1>7 DEF Stated, OnTheWay, Orderly, Undisturbed
<1>9. m # v
  <2>1. ~Approach(m, found).held
    BY <1>1, <1>7, <1>8, Empty DEF Approach
  <2>2. QED
    BY <1>2, <2>1 DEF l
<1>10. u = m
  <2> SUFFICES ASSUME u # m PROVE FALSE
    OBVIOUS
  <2>1. ~lease[u].reserved
    BY <1>4, <1>8 DEF Orderly, SoleClaim
  <2>2. ~PeerBid(v, u).reserved
    <3>1. ~lease[u].announced
      BY <1>1, <1>4, <2>1 DEF Stated
    <3>2. ~View(v, u).reserved
      BY <1>4, <3>1 DEF Intent
    <3>3. QED
      BY <3>2 DEF PeerBid, Bid
  <2>3. m \in CorridorPeers(v) /\ PeerBid(v, m) = Bid(m, lease[m].announced, lease[m].wait, m)
    <3>1. m \in Others(v)
      BY <1>9 DEF Others
    <3>2. QED
      BY <1>1, <1>8, <3>1, CalmBid
  <2>4. PeerBid(v, m).reserved
    BY <1>8, <2>3 DEF Bid
  <2>5. QED
    BY <1>3, <2>2, <2>3, <2>4 DEF Precedes
<1>11. Winner(v, l).owner = m
  BY <1>1, <1>3, <1>4, <1>8, <1>10, CalmBid DEF Bid
<1>12. place'[m] \in {"clear", "far"}
  BY <1>7 DEF Tick, NextPlace
<1>13. QED
  BY <1>2, <1>11, <1>12

\* Only an owner drives to the gate and on, and its lease ends when it has left.
LEMMA OnTheWayTick ==
  ASSUME Orderly, Calm, Faults = {},
         NEW found \in Findings, NEW yielding \in Yielding, NEW moving \in Moving,
         Tick(found, yielding, moving)
  PROVE  OnTheWay'
<1> SUFFICES ASSUME NEW v \in Vehicles
             PROVE  /\ place'[v] \in {"gate", "mouth", "mid", "tail"} => lease'[v].confirmed
                    /\ place'[v] = "clear" /\ lease'[v].held => lease'[v].confirmed
                    /\ place'[v] = "far" => ~lease'[v].held
  BY DEF OnTheWay
<1>1. TypeOK /\ OnTheWay /\ place[v] \in Places
  BY DEF Orderly, Settled, IInv, TypeOK
<1>2. place'[v] = IF v \in moving THEN NextPlace(place[v]) ELSE place[v]
  BY DEF Tick
<1>3. place[v] \in {"gate", "mouth", "mid", "tail"} => lease'[v].confirmed
  BY <1>1, OwnersStay DEF OnTheWay
<1>4. v \in moving /\ place[v] = "near" /\ lease'[v].held => lease'[v].confirmed
  BY DEF Tick, MayMove
<1>5. v \in moving /\ place[v] = "near" => lease'[v].held
  BY DEF Tick, MayMove
<1>6. place[v] \in {"clear", "far"} => ~lease'[v].held
  <2> SUFFICES ASSUME place[v] \in {"clear", "far"} PROVE ~lease'[v].held
    OBVIOUS
  <2>1. ~Approach(v, found).held
    BY <1>1, Approaching, Empty DEF OnTheWay, Approach
  <2>2. QED
    BY <1>1, <2>1, Decision, Empty
<1>7. QED
  BY <1>1, <1>2, <1>3, <1>4, <1>5, <1>6 DEF Places, NextPlace

\* Without faults every step keeps the order, and no owner loses its lease on the way.
LEMMA OrderlyNext ==
  ASSUME Faults = {}, ClaimTicks > 1, Orderly, [Next]_vars
  PROVE  /\ Orderly'
         /\ \A v \in Vehicles : lease[v].confirmed /\ place[v] # "clear" => lease'[v].confirmed
<1>1. Settled' /\ TypeOK /\ \A v \in Vehicles : active[v]
  BY SettledNext DEF Orderly, Settled, IInv, Undisturbed
<1>2. CASE FleetTick
  <2>1. PICK found \in Findings, yielding \in Yielding, moving \in Moving :
          Tick(found, yielding, moving)
    BY <1>2 DEF FleetTick
  <2>2. Calm
    BY <2>1 DEF Tick, Orderly, Settled, Undisturbed
  <2>3. Undisturbed'
    <3>1. ASSUME NEW v \in Vehicles PROVE lease'[v].reserved => lease'[v].announced
      <4>1. v \notin yielding
        BY DEF Yielding, MayYield
      <4>2. QED
        BY <1>1, <2>1, <4>1, Decision, Empty DEF Lost
    <3>2. active' = active /\ turn' = "exchange"
      BY <2>1 DEF Tick
    <3>3. QED
      BY <1>1, <3>1, <3>2 DEF Undisturbed
  <2>4. OnTheWay' /\ SoleClaim' /\ Vacant'
    BY <2>1, <2>2, OnTheWayTick, SoleClaimTick, VacantTick
  <2>5. \A v \in Vehicles : lease[v].confirmed /\ place[v] # "clear" => lease'[v].confirmed
    BY <2>1, <2>2, OwnersStay
  <2>6. QED
    BY <1>1, <2>3, <2>4, <2>5 DEF Orderly
<1>3. CASE Travel
  <2>1. PICK direct, arriving, delayed : Exchange(direct, arriving, delayed)
    BY <1>3 DEF Travel
  <2>2. calm' /\ UNCHANGED <<place, active, lease>>
    BY <2>1 DEF Exchange
  <2>3. QED
    BY <1>1, <2>2 DEF Orderly, Undisturbed, OnTheWay, SoleClaim, Vacant
<1>4. ASSUME NEW v \in Vehicles, Pause(v) \/ Resume(v) PROVE FALSE
  BY <1>1, <1>4 DEF Pause, Resume
<1>5. CASE UNCHANGED vars
  BY <1>1, <1>5 DEF vars, Orderly, Undisturbed, OnTheWay, SoleClaim, Vacant
<1>6. QED
  BY <1>2, <1>3, <1>4, <1>5 DEF Next

\* While every intent is heard in time and nobody stops, yields or misses the corridor, no two
\* vehicles are confirmed owners, however many there are and however long they waited; claims
\* are counted for more than one tick (the code counts three).
THEOREM OneOwner ==
  ASSUME Faults = {}, ClaimTicks > 1
  PROVE  Spec => []AtMostOneOwner
<1>1. Orderly /\ [Next]_vars => Orderly'
  BY OrderlyNext
<1>2. Orderly => AtMostOneOwner
  BY DEF Orderly, Settled, Stated, SoleClaim, AtMostOneOwner, AtMostOne, Confirmed
<1>3. QED
  BY <1>1, <1>2, OrderlyInit, PTL DEF Spec

\* Nor does a confirmed owner lose its lease before its whole body has left the corridor.
THEOREM OwnersKeepTheirLease ==
  ASSUME Faults = {}, ClaimTicks > 1
  PROVE  Spec => LeaseIsKept
<1>1. Orderly /\ [Next]_vars => Orderly'
  BY OrderlyNext
<1>2. Orderly /\ [Next]_vars =>
        [\A v \in Vehicles :
           (lease[v].confirmed /\ active'[v] /\ place[v] # "clear") => lease'[v].confirmed]_vars
  BY OrderlyNext
<1>3. QED
  BY <1>1, <1>2, OrderlyInit, PTL DEF Spec, LeaseIsKept
=============================================================================
