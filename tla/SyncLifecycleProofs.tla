-------------------------- MODULE SyncLifecycleProofs --------------------------
(***************************************************************************)
(* Whatever a runtime of the fleet still keeps, it holds the lease of the  *)
(* directory; and a vehicle keeps one identity.  For any number of         *)
(* runtimes and vehicles, any order of failures, deadlines and crashes.    *)
(***************************************************************************)
EXTENDS SyncLifecycle, Integers, TLAPS

Owners == Runtimes \cup {None}
Phases == {"new", "starting", "running", "closing", "open", "closed", "dead"}

RuntimeType ==
  [phase : Phases, at : Nat \ {0}, fd : {"none", "held", "unknown"}, bridges : SUBSET Vehicles,
   paths : SUBSET Vehicles, flush : BOOLEAN, pending : BOOLEAN,
   stage : {"none", "flush", "bridges", "configs", "release"}]
BridgeType == [alive : SUBSET Kinds, owned : BOOLEAN, stage : 0..Done, pending : BOOLEAN]
ChildType ==
  [pc : {"none", "read", "write", "link", "unlink", "again", "done", "failed", "killed"},
   temp : BOOLEAN, key : Owners]

(***************************************************************************)
(* The inductive invariant.                                                *)
(***************************************************************************)
Typed ==
  /\ lock \in Owners /\ faults \in 0..MaxFaults
  /\ rt \in [Runtimes -> RuntimeType]
  /\ br \in [Runtimes -> [Vehicles -> BridgeType]]
  /\ socket \in [Vehicles -> Owners] /\ config \in [Vehicles -> Owners]
  /\ identity \in [Vehicles -> Owners]
  /\ child \in [Runtimes -> [Vehicles -> ChildType]]

\* An open descriptor holds the flock; without one a runtime is before its start, after its
\* close, dead, or does not know, and keeps nothing.
Holding(r, n, holder) ==
  /\ n.fd = "held" => holder = r
  /\ n.phase \in {"starting", "running"} => n.fd = "held"
  /\ n.phase \in {"new", "closed", "dead"} => n.fd = "none"
  /\ n.fd # "held" => ~n.flush /\ n.bridges = {} /\ n.paths = {}

\* A bridge that is not the runtime's keeps nothing; nor does one closed without an error.
Kept(n, v, b) ==
  /\ v \notin n.bridges => b.alive = {} /\ ~b.owned
  /\ b.stage = Done /\ ~b.pending => b.alive = {} /\ ~b.owned
  /\ n.phase \in {"new", "starting", "running"} => b.stage = 0

\* The servers start in the order of the fleet.
Started(n) ==
  /\ n.phase = "new" => n.at = 1
  /\ n.phase = "starting" => \A i \in 1..N : N + i < n.at => Fleet[i] \in n.bridges

\* Only a dead runtime leaves files behind: s owns the socket, f the configuration.
Files(r, n, v, b, s, f) ==
  n.phase # "dead" => (s = r => b.owned) /\ (f = r => v \in n.paths)

\* What an identity child knows of the key in the file, and when its temporary is there.
Child(c, key) ==
  /\ c.pc \in {"none", "read", "write", "again", "done"} => ~c.temp
  /\ c.pc = "done" => c.key # None
  /\ c.pc \in {"unlink", "done"} /\ c.key # None => key = c.key

Own(r) ==
  /\ Holding(r, rt[r], lock)
  /\ Started(rt[r])
  /\ \A v \in Vehicles : Kept(rt[r], v, br[r][v])
  /\ \A v \in Vehicles : Files(r, rt[r], v, br[r][v], socket[v], config[v])

IInv ==
  /\ Typed
  /\ \A r \in Runtimes : Own(r)
  /\ \A r \in Runtimes, v \in Vehicles : Child(child[r][v], identity[v])

(***************************************************************************)
(* The stages, and the order of the fleet.                                 *)
(***************************************************************************)
LEMMA StageNumbers ==
  /\ DOMAIN Stages = 1..4 /\ Last = 5 /\ Done = 6
  /\ \A i \in 1..4 : Stages[i] \in Kinds
  /\ {"process", "server", "writer", "task"} = Kinds
BY DEF Stages, Last, Done, Kinds

\* Division with remainder, for the step a start has come to.
LEMMA Division ==
  ASSUME NEW a \in Nat, NEW n \in Nat, n > 0
  PROVE  /\ a \div n = 0 => a < n
         /\ a \div n = 1 => a = n + (a % n)
         /\ a \div n = 2 => a >= n + n
         /\ (a % n) + 1 \in 1..n
<1> DEFINE q == a \div n
           m == a % n
<1>1. m \in 0..(n - 1) /\ a = (n * q) + m /\ q \in Int
  OBVIOUS
<1> HIDE DEF q, m
<1>2. q = 0 => a < n
  BY <1>1
<1>3. q = 1 => a = n + m
  BY <1>1
<1>4. q = 2 => a >= n + n
  BY <1>1
<1>5. m + 1 \in 1..n
  BY <1>1
<1> QED
  BY <1>2, <1>3, <1>4, <1>5 DEF q, m

\* Every vehicle has a place in the fleet.
LEMMA FleetMembers ==
  /\ N \in Nat /\ N > 0 /\ Vehicles = {Fleet[i] : i \in 1..N}
  /\ \A i \in 1..N : Fleet[i] \in Vehicles
<1>1. N \in Nat
  BY LifecycleAssumption DEF N
<1> QED
  BY <1>1, LifecycleAssumption DEF Vehicles

\* Where a start is in the list of its steps.
LEMMA Position ==
  ASSUME Typed, NEW r \in Runtimes, rt[r].phase = "starting"
  PROVE  /\ Next1(r) \in Vehicles
         /\ Starting(r, 0) => rt[r].at <= N
         /\ Starting(r, 1) =>
              \E i \in 1..N : rt[r].at = N + i /\ Next1(r) = Fleet[i]
         /\ Starting(r, 2) => rt[r].at > N + N
<1> DEFINE a == rt[r].at - 1
           j == (a % N) + 1
<1>1. a \in Nat /\ rt[r].at = a + 1
  <2>1. rt[r].at \in Nat \ {0}
    BY DEF Typed, RuntimeType
  <2> QED
    BY <2>1
<1>2. Next1(r) = Fleet[j]
  BY DEF Next1
<1>3. \A part : Starting(r, part) => a \div N = part
  BY DEF Starting
<1> HIDE DEF a
<1>4. /\ a \div N = 0 => a < N
      /\ a \div N = 1 => a = N + (a % N)
      /\ a \div N = 2 => a >= N + N
      /\ j \in 1..N
  BY <1>1, FleetMembers, Division
<1>5. a \div N = 1 => rt[r].at = N + j
  <2> DEFINE m == a % N
  <2>1. m + 1 \in 1..N /\ j = m + 1 /\ (a \div N = 1 => a = N + m)
    BY <1>4
  <2>2. m \in Int
    BY <1>1, FleetMembers
  <2> HIDE DEF m, j
  <2> QED
    BY <1>1, <2>1, <2>2, FleetMembers
<1> HIDE DEF j
<1>6. Next1(r) \in Vehicles
  BY <1>2, <1>4, FleetMembers
<1>7. Starting(r, 0) => rt[r].at <= N
  BY <1>1, <1>3, <1>4, FleetMembers
<1>8. Starting(r, 2) => rt[r].at > N + N
  BY <1>1, <1>3, <1>4, FleetMembers
<1> QED
  BY <1>2, <1>3, <1>4, <1>5, <1>6, <1>7, <1>8

(***************************************************************************)
(* What one runtime does leaves the others their leases and files.         *)
(***************************************************************************)
LEMMA RestFields ==
  ASSUME NEW n \in RuntimeType, NEW phase \in Phases
  PROVE  /\ Rest(n, phase) \in RuntimeType /\ Rest(n, phase).phase = phase
         /\ Rest(n, phase).fd = n.fd /\ Rest(n, phase).bridges = n.bridges
         /\ Rest(n, phase).paths = n.paths /\ Rest(n, phase).flush = n.flush
<1>1. 1 \in Nat \ {0} /\ "none" \in {"none", "flush", "bridges", "configs", "release"} /\ FALSE \in BOOLEAN
  OBVIOUS
<1>2. Rest(n, phase) \in RuntimeType
  BY <1>1 DEF Rest, RuntimeType
<1>3. /\ Rest(n, phase).phase = phase /\ Rest(n, phase).fd = n.fd
      /\ Rest(n, phase).bridges = n.bridges /\ Rest(n, phase).paths = n.paths
  BY DEF Rest, RuntimeType
<1>4. Rest(n, phase).flush = n.flush
  BY DEF Rest, RuntimeType
<1> QED
  BY <1>2, <1>3, <1>4

\* A step of one runtime that leaves the others what they have keeps the invariant.
LEMMA OneRuntime ==
  ASSUME IInv, Typed', NEW r \in Runtimes, Own(r)',
         \A q \in Runtimes \ {r} : rt'[q] = rt[q] /\ br'[q] = br[q] /\ (lock = q => lock' = q),
         \A q \in Runtimes \ {r}, v \in Vehicles :
           (socket'[v] = q => socket[v] = q) /\ (config'[v] = q => config[v] = q),
         \A q \in Runtimes, v \in Vehicles : Child(child[q][v], identity[v])'
  PROVE  IInv'
<1>1. ASSUME NEW q \in Runtimes, q # r PROVE Own(q)'
  <2>1. Own(q) /\ rt'[q] = rt[q] /\ br'[q] = br[q] /\ (lock = q => lock' = q)
    BY <1>1 DEF IInv
  <2>2. Holding(q, rt'[q], lock')
    BY <2>1 DEF Own, Holding
  <2>3. \A v \in Vehicles : Files(q, rt'[q], v, br'[q][v], socket'[v], config'[v])
    BY <1>1, <2>1 DEF Own, Files
  <2> QED
    BY <2>1, <2>2, <2>3 DEF Own
<1> QED
  BY <1>1 DEF IInv

\* Every identity child is as it should be.
Children == \A r \in Runtimes, v \in Vehicles : Child(child[r][v], identity[v])

\* An action that leaves the lock and the files alone.
LEMMA Within ==
  ASSUME IInv, NEW r \in Runtimes, NEW n \in RuntimeType, NEW B \in [Vehicles -> BridgeType],
         rt' = [rt EXCEPT ![r] = n], br' = [br EXCEPT ![r] = B], faults' \in 0..MaxFaults,
         UNCHANGED <<lock, socket, config, identity>>,
         child' \in [Runtimes -> [Vehicles -> ChildType]], Children',
         Holding(r, n, lock), Started(n),
         \A v \in Vehicles : Kept(n, v, B[v]),
         \A v \in Vehicles : Files(r, n, v, B[v], socket[v], config[v])
  PROVE  IInv'
<1>1. Typed' /\ rt'[r] = n /\ br'[r] = B
  BY DEF IInv, Typed
<1>2. \A q \in Runtimes \ {r} : rt'[q] = rt[q] /\ br'[q] = br[q]
  BY DEF IInv, Typed
<1>3. Own(r)'
  BY <1>1 DEF Own
<1> QED
  BY <1>1, <1>2, <1>3, OneRuntime DEF Children

\* A runtime that is not or no longer starting, and has no more than before.
LEMMA Continues ==
  ASSUME IInv, NEW r \in Runtimes, NEW n \in RuntimeType, Set(r, n), br' = br, faults' \in 0..MaxFaults,
         UNCHANGED <<lock, socket, config, identity>>,
         child' \in [Runtimes -> [Vehicles -> ChildType]], Children',
         n.phase \in {"open", "closing"}, rt[r].phase \notin {"new", "closed", "dead"},
         n.fd = rt[r].fd, n.bridges = rt[r].bridges, n.paths = rt[r].paths, n.flush => rt[r].flush
  PROVE  IInv'
<1>1. br[r] \in [Vehicles -> BridgeType] /\ br' = [br EXCEPT ![r] = br[r]] /\ rt' = [rt EXCEPT ![r] = n]
  BY DEF IInv, Typed, Set
<1>2. Own(r)
  BY DEF IInv
<1>3. Holding(r, n, lock) /\ Started(n)
  BY <1>2 DEF Own, Holding, Started
<1>4. \A v \in Vehicles : Kept(n, v, br[r][v])
  BY <1>2 DEF Own, Kept
<1>5. \A v \in Vehicles : Files(r, n, v, br[r][v], socket[v], config[v])
  BY <1>2 DEF Own, Files
<1> QED
  BY <1>1, <1>3, <1>4, <1>5, Within

\* One bridge changes.
LEMMA OneBridge ==
  ASSUME IInv, NEW r \in Runtimes, NEW v \in Vehicles, NEW b \in BridgeType, SetBridge(r, v, b)
  PROVE  \E B \in [Vehicles -> BridgeType] :
           br' = [br EXCEPT ![r] = B] /\ B[v] = b /\ \A w \in Vehicles \ {v} : B[w] = br[r][w]
<1> DEFINE B == [br[r] EXCEPT ![v] = b]
<1>1. br[r] \in [Vehicles -> BridgeType]
  BY DEF IInv, Typed
<1>2. B \in [Vehicles -> BridgeType] /\ B[v] = b /\ \A w \in Vehicles \ {v} : B[w] = br[r][w]
  BY <1>1
<1>3. br' = [br EXCEPT ![r] = B]
  BY DEF SetBridge
<1> QED
  BY <1>2, <1>3

\* One bridge of a runtime that itself does not change, or gains the bridge's vehicle, changes.
LEMMA BridgeOnly ==
  ASSUME IInv, NEW r \in Runtimes, NEW v \in Vehicles, NEW b \in BridgeType, SetBridge(r, v, b),
         rt' = rt, faults' \in 0..MaxFaults, UNCHANGED <<lock, config, identity, child>>,
         socket' \in [Vehicles -> Owners],
         \A w \in Vehicles : socket'[w] = socket[w] \/ (w = v /\ socket'[w] = None),
         Kept(rt[r], v, b), Files(r, rt[r], v, b, socket'[v], config[v])
  PROVE  IInv'
<1>1. PICK B \in [Vehicles -> BridgeType] :
        br' = [br EXCEPT ![r] = B] /\ B[v] = b /\ \A w \in Vehicles \ {v} : B[w] = br[r][w]
  BY OneBridge
<1>2. Typed' /\ br'[r] = B
  BY <1>1 DEF IInv, Typed
<1>3. \A q \in Runtimes \ {r} : rt'[q] = rt[q] /\ br'[q] = br[q]
  BY <1>1 DEF IInv, Typed
<1>4. Own(r)
  BY DEF IInv
<1>5. \A w \in Vehicles : Kept(rt'[r], w, br'[r][w])
  BY <1>1, <1>2, <1>4 DEF Own
<1>6. \A w \in Vehicles : Files(r, rt'[r], w, br'[r][w], socket'[w], config'[w])
  <2>1. ASSUME NEW w \in Vehicles, w # v PROVE Files(r, rt'[r], w, br'[r][w], socket'[w], config'[w])
    <3>1. socket'[w] = socket[w] /\ br'[r][w] = br[r][w] /\ rt'[r] = rt[r] /\ config' = config
      BY <1>1, <1>2, <2>1
    <3> QED
      BY <1>4, <3>1 DEF Own
  <2>2. Files(r, rt'[r], v, br'[r][v], socket'[v], config'[v])
    BY <1>1, <1>2
  <2> QED
    BY <2>1, <2>2
<1>7. Own(r)'
  BY <1>4, <1>5, <1>6 DEF Own
<1>8. None \notin Runtimes
  BY LifecycleAssumption
<1>9. \A q \in Runtimes, w \in Vehicles : Child(child'[q][w], identity'[w])
  BY DEF IInv
<1>10. \A q \in Runtimes \ {r}, w \in Vehicles :
         (socket'[w] = q => socket[w] = q) /\ (config'[w] = q => config[w] = q)
  BY <1>8
<1> QED
  BY <1>2, <1>3, <1>7, <1>9, <1>10, OneRuntime

(***************************************************************************)
(* The identity children.                                                  *)
(***************************************************************************)
LEMMA ChildrenHold ==
  ASSUME IInv, NEW r \in Runtimes, NEW v \in Vehicles, IdentityChild(r, v)
  PROVE  IInv'
<1>1. UNCHANGED <<lock, rt, br, socket, config, faults>>
  BY DEF IdentityChild
<1>2. /\ child \in [Runtimes -> [Vehicles -> ChildType]] /\ identity \in [Vehicles -> Owners]
      /\ child[r][v] \in ChildType /\ Child(child[r][v], identity[v])
      /\ None \notin Runtimes
  BY LifecycleAssumption DEF IInv, Typed
<1>3. \E c \in ChildType, key \in Owners :
         /\ ChildStep(r, v, c) /\ identity' = [identity EXCEPT ![v] = key]
         /\ Child(c, key) /\ (identity[v] # None => key = identity[v])
  <2>1. CASE ReadIdentity(r, v)
    <3>1. identity' = [identity EXCEPT ![v] = identity[v]] /\ identity[v] \in Owners
      BY <1>2, <2>1 DEF ReadIdentity
    <3>2. CASE identity[v] # None
      <4> DEFINE c == [child[r][v] EXCEPT !.pc = "done", !.key = identity[v]]
      <4>1. ChildStep(r, v, c) /\ ~child[r][v].temp
        BY <1>2, <2>1, <3>2 DEF ReadIdentity, Child
      <4>2. c \in ChildType /\ c.pc = "done" /\ c.key = identity[v] /\ c.temp = child[r][v].temp
        BY <1>2, <3>1 DEF ChildType
      <4> HIDE DEF c
      <4>3. Child(c, identity[v])
        BY <3>2, <4>1, <4>2 DEF Child
      <4> QED
        BY <3>1, <4>1, <4>2, <4>3
    <3>3. CASE identity[v] = None
      <4> DEFINE pc == IF child[r][v].pc = "read" THEN "write" ELSE "failed"
                 c == [child[r][v] EXCEPT !.pc = pc]
      <4>1. ChildStep(r, v, c) /\ ~child[r][v].temp
        BY <1>2, <2>1, <3>3 DEF ReadIdentity, Child
      <4>2. c \in ChildType /\ c.pc \in {"write", "failed"} /\ c.temp = child[r][v].temp
        BY <1>2 DEF ChildType
      <4> HIDE DEF c
      <4>3. Child(c, identity[v])
        BY <4>1, <4>2 DEF Child
      <4> QED
        BY <3>1, <4>1, <4>2, <4>3
    <3> QED
      BY <3>2, <3>3
  <2>2. CASE WriteTemporary(r, v)
    <3> DEFINE c == [child[r][v] EXCEPT !.pc = "link", !.temp = TRUE]
    <3>1. ChildStep(r, v, c) /\ identity' = [identity EXCEPT ![v] = identity[v]] /\ identity[v] \in Owners
      BY <1>2, <2>2 DEF WriteTemporary
    <3>2. c \in ChildType /\ c.pc = "link"
      BY <1>2 DEF ChildType
    <3> HIDE DEF c
    <3>3. Child(c, identity[v])
      BY <3>2 DEF Child
    <3> QED
      BY <3>1, <3>2, <3>3
  <2>3. CASE LinkIdentity(r, v)
    <3> DEFINE key == IF identity[v] = None THEN r ELSE identity[v]
               c == [child[r][v] EXCEPT !.pc = "unlink", !.key = IF identity[v] = None THEN r ELSE None]
    <3>1. ChildStep(r, v, c) /\ identity' = [identity EXCEPT ![v] = key] /\ key \in Owners
      BY <1>2, <2>3 DEF LinkIdentity, Owners
    <3>2. c \in ChildType /\ c.pc = "unlink" /\ (c.key # None => c.key = key)
      BY <1>2 DEF ChildType, Owners
    <3>3. identity[v] # None => key = identity[v]
      OBVIOUS
    <3> HIDE DEF c, key
    <3>4. Child(c, key)
      BY <3>2 DEF Child
    <3> QED
      BY <3>1, <3>2, <3>3, <3>4
  <2>4. CASE UnlinkTemporary(r, v)
    <3> DEFINE pc == IF child[r][v].key = None THEN "again" ELSE "done"
               c == [child[r][v] EXCEPT !.temp = FALSE, !.pc = pc]
    <3>1. ChildStep(r, v, c) /\ identity' = [identity EXCEPT ![v] = identity[v]] /\ identity[v] \in Owners
      BY <1>2, <2>4 DEF UnlinkTemporary
    <3>2. c \in ChildType /\ c.pc = pc /\ c.key = child[r][v].key /\ c.temp = FALSE
      BY <1>2 DEF ChildType
    <3>3. child[r][v].key # None => identity[v] = child[r][v].key
      BY <1>2, <2>4 DEF UnlinkTemporary, Child
    <3> HIDE DEF c
    <3>4. Child(c, identity[v])
      BY <3>2, <3>3 DEF Child
    <3> QED
      BY <3>1, <3>2, <3>4
  <2> QED
    BY <2>1, <2>2, <2>3, <2>4 DEF IdentityChild
<1>4. PICK c \in ChildType, key \in Owners :
         /\ ChildStep(r, v, c) /\ identity' = [identity EXCEPT ![v] = key]
         /\ Child(c, key) /\ (identity[v] # None => key = identity[v])
  BY <1>3
<1>5. child' = [child EXCEPT ![r][v] = c]
  BY <1>4 DEF ChildStep
<1>6. /\ child' \in [Runtimes -> [Vehicles -> ChildType]] /\ identity' \in [Vehicles -> Owners]
      /\ child'[r][v] = c /\ identity'[v] = key
      /\ \A q \in Runtimes, w \in Vehicles : q # r \/ w # v => child'[q][w] = child[q][w]
      /\ \A w \in Vehicles : w # v => identity'[w] = identity[w]
  BY <1>2, <1>4, <1>5
<1>7. Typed'
  BY <1>1, <1>6 DEF IInv, Typed
<1>8. ASSUME NEW q \in Runtimes, NEW w \in Vehicles PROVE Child(child'[q][w], identity'[w])
  <2>1. CASE q = r /\ w = v
    BY <1>4, <1>6, <2>1
  <2>2. CASE q # r \/ w # v
    <3>1. child'[q][w] = child[q][w] /\ Child(child[q][w], identity[w])
      BY <1>6, <2>2 DEF IInv
    <3>2. identity[w] # None => identity'[w] = identity[w]
      BY <1>4, <1>6
    <3> QED
      BY <3>1, <3>2 DEF Child
  <2> QED
    BY <2>1, <2>2
<1>9. \A q \in Runtimes : Own(q)'
  BY <1>1 DEF IInv, Own
<1> QED
  BY <1>7, <1>8, <1>9 DEF IInv

(***************************************************************************)
(* start.                                                                  *)
(***************************************************************************)
\* What every action starts from.
LEMMA Facts ==
  ASSUME IInv, NEW r \in Runtimes
  PROVE  /\ rt[r] \in RuntimeType /\ br[r] \in [Vehicles -> BridgeType] /\ faults \in 0..MaxFaults
         /\ Own(r) /\ Children /\ child \in [Runtimes -> [Vehicles -> ChildType]]
         /\ Fault => faults' \in 0..MaxFaults
         /\ None \notin Runtimes /\ MaxFaults \in Nat
<1>1. faults \in 0..MaxFaults /\ MaxFaults \in Nat
  BY LifecycleAssumption DEF IInv, Typed
<1>2. Fault => faults' \in 0..MaxFaults
  BY <1>1 DEF Fault
<1> QED
  BY <1>1, <1>2, LifecycleAssumption DEF IInv, Typed, Children

\* A runtime takes the lock, or fails to.
LEMMA AcquireHolds ==
  ASSUME IInv, NEW r \in Runtimes, AcquireRuntimeLease(r)
  PROVE  IInv'
<1> DEFINE n == [rt[r] EXCEPT !.phase = "starting", !.fd = "held"]
<1>1. /\ rt[r].phase = "new" /\ lock = None /\ lock' = r /\ rt' = [rt EXCEPT ![r] = n]
      /\ UNCHANGED <<br, socket, config, identity, child, faults>>
  BY DEF AcquireRuntimeLease, Set
<1>2. rt[r] \in RuntimeType /\ Own(r) /\ Children /\ None \notin Runtimes
  BY Facts
<1>3. /\ n \in RuntimeType /\ n.phase = "starting" /\ n.fd = "held" /\ n.bridges = rt[r].bridges
      /\ n.paths = rt[r].paths /\ n.at = rt[r].at
  BY <1>2 DEF RuntimeType, Phases
<1>4. n.flush = rt[r].flush
  BY <1>2 DEF RuntimeType
<1> HIDE DEF n
<1>5. Typed' /\ rt'[r] = n /\ \A q \in Runtimes \ {r} : rt'[q] = rt[q]
  BY <1>1, <1>3 DEF IInv, Typed, Owners
<1>6. Own(r)'
  <2>1. Holding(r, n, lock')
    BY <1>1, <1>3, <1>4 DEF Holding
  <2>2. rt[r].at = 1
    BY <1>1, <1>2 DEF Own, Started
  <2>3. Started(n)
    BY <1>3, <2>2, FleetMembers DEF Started
  <2>4. \A v \in Vehicles : Kept(n, v, br[r][v]) /\ Files(r, n, v, br[r][v], socket[v], config[v])
    BY <1>1, <1>2, <1>3 DEF Own, Kept, Files
  <2> QED
    BY <1>1, <1>5, <2>1, <2>3, <2>4 DEF Own
<1> QED
  BY <1>1, <1>2, <1>5, <1>6, OneRuntime DEF Children

\* A start fails.
LEMMA StartFailsHolds ==
  ASSUME IInv, NEW r \in Runtimes, rt[r].phase = "starting", StartFails(r), br' = br, faults' \in 0..MaxFaults,
         UNCHANGED <<lock, socket, config, identity>>,
         child' \in [Runtimes -> [Vehicles -> ChildType]], Children'
  PROVE  IInv'
<1> DEFINE n == Rest(rt[r], "open")
<1>1. rt[r] \in RuntimeType /\ "open" \in Phases
  BY Facts DEF Phases
<1>2. /\ n \in RuntimeType /\ n.phase = "open" /\ n.fd = rt[r].fd /\ n.bridges = rt[r].bridges
      /\ n.paths = rt[r].paths /\ n.flush = rt[r].flush
  BY <1>1, RestFields
<1>3. Set(r, n)
  BY DEF StartFails
<1> HIDE DEF n
<1> QED
  BY <1>2, <1>3, Continues

\* A child creates or reads the identity.
LEMMA EnsureIdentityHolds ==
  ASSUME IInv, NEW r \in Runtimes, EnsureIdentity(r)
  PROVE  IInv'
<1> DEFINE v == Next1(r)
<1>1. /\ rt[r].phase = "starting" /\ Starting(r, 0)
      /\ UNCHANGED <<lock, br, socket, config, identity>>
  BY DEF EnsureIdentity, Starting
<1>2. /\ rt[r] \in RuntimeType /\ Own(r) /\ Children /\ faults \in 0..MaxFaults
      /\ child \in [Runtimes -> [Vehicles -> ChildType]] /\ (Fault => faults' \in 0..MaxFaults)
  BY Facts
<1>3. v \in Vehicles /\ rt[r].at <= N
  BY <1>1, Position DEF IInv
<1>4. ASSUME NEW pc \in {"read", "killed"}, child[r][v].pc = "none" \/ pc = "killed",
             ChildStep(r, v, [child[r][v] EXCEPT !.pc = pc])
      PROVE  child' \in [Runtimes -> [Vehicles -> ChildType]] /\ Children'
  <2> DEFINE c == [child[r][v] EXCEPT !.pc = pc]
  <2>1. child[r][v] \in ChildType /\ Child(child[r][v], identity[v])
    BY <1>2, <1>3 DEF Children
  <2>2. c \in ChildType /\ c.pc = pc /\ c.temp = child[r][v].temp
    BY <2>1 DEF ChildType
  <2>3. child' = [child EXCEPT ![r][v] = c]
    BY <1>4 DEF ChildStep
  <2> HIDE DEF c, v
  <2>4. Child(c, identity[v])
    BY <1>4, <2>1, <2>2 DEF Child
  <2>5. /\ child' \in [Runtimes -> [Vehicles -> ChildType]] /\ child'[r][v] = c
        /\ \A q \in Runtimes, w \in Vehicles : q # r \/ w # v => child'[q][w] = child[q][w]
    BY <1>2, <1>3, <2>2, <2>3
  <2>6. ASSUME NEW q \in Runtimes, NEW w \in Vehicles PROVE Child(child'[q][w], identity'[w])
    <3>1. CASE q = r /\ w = v
      BY <1>1, <2>4, <2>5, <3>1
    <3>2. CASE q # r \/ w # v
      BY <1>1, <1>2, <2>5, <3>2 DEF Children
    <3> QED
      BY <3>1, <3>2
  <2> QED
    BY <2>5, <2>6 DEF Children
<1> HIDE DEF v
<1>5. CASE /\ child[r][v].pc = "none"
           /\ ChildStep(r, v, [child[r][v] EXCEPT !.pc = "read"])
           /\ UNCHANGED <<rt, faults>>
  <2>1. child' \in [Runtimes -> [Vehicles -> ChildType]] /\ Children'
    BY <1>4, <1>5
  <2> QED
    BY <1>1, <1>5, <2>1 DEF IInv, Typed, Own, Children
<1>6. CASE /\ child[r][v].pc = "done"
           /\ Set(r, [rt[r] EXCEPT !.at = @ + 1])
           /\ UNCHANGED <<child, faults>>
  <2> DEFINE n == [rt[r] EXCEPT !.at = @ + 1]
  <2>1. /\ n \in RuntimeType /\ n.phase = rt[r].phase /\ n.fd = rt[r].fd /\ n.bridges = rt[r].bridges
        /\ n.paths = rt[r].paths /\ n.at = rt[r].at + 1
    BY <1>2 DEF RuntimeType
  <2>2. n.flush = rt[r].flush
    BY <1>2 DEF RuntimeType
  <2>3. br[r] \in [Vehicles -> BridgeType] /\ br' = [br EXCEPT ![r] = br[r]] /\ rt' = [rt EXCEPT ![r] = n]
    BY <1>1, <1>6 DEF IInv, Typed, Set
  <2>4. rt[r].at \in Nat
    BY <1>2 DEF RuntimeType
  <2> HIDE DEF n
  <2>5. Holding(r, n, lock)
    BY <1>2, <2>1, <2>2 DEF Own, Holding
  <2>6. Started(n)
    BY <1>1, <1>3, <2>1, <2>4, FleetMembers DEF Started
  <2>7. \A w \in Vehicles : Kept(n, w, br[r][w])
    BY <1>2, <2>1 DEF Own, Kept
  <2>8. \A w \in Vehicles : Files(r, n, w, br[r][w], socket[w], config[w])
    BY <1>2, <2>1 DEF Own, Files
  <2>9. Children'
    BY <1>1, <1>2, <1>6 DEF Children
  <2> QED
    BY <1>1, <1>2, <1>6, <2>1, <2>3, <2>5, <2>6, <2>7, <2>8, <2>9, Within
<1>7. CASE /\ child[r][v].pc # "none" /\ Fault
           /\ StartFails(r)
           /\ \/ UNCHANGED child
              \/ ChildStep(r, v, [child[r][v] EXCEPT !.pc = "killed"])
  <2>1. child' \in [Runtimes -> [Vehicles -> ChildType]] /\ Children'
    <3>1. CASE UNCHANGED child
      BY <1>1, <1>2, <3>1 DEF Children
    <3>2. CASE ChildStep(r, v, [child[r][v] EXCEPT !.pc = "killed"])
      BY <1>4, <3>2
    <3> QED
      BY <1>7, <3>1, <3>2
  <2> QED
    BY <1>1, <1>2, <1>7, <2>1, StartFailsHolds
<1>8. CASE /\ child[r][v].pc = "failed"
           /\ StartFails(r)
           /\ UNCHANGED <<child, faults>>
  <2>1. Children'
    BY <1>1, <1>2, <1>8 DEF Children
  <2> QED
    BY <1>1, <1>2, <1>8, <2>1, StartFailsHolds
<1> QED
  BY <1>5, <1>6, <1>7, <1>8 DEF EnsureIdentity, v

\* A step of the start that gives the runtime one more bridge, or one more in a bridge.
Grows(r, v, n, b) ==
  /\ n \in RuntimeType /\ b \in BridgeType /\ Set(r, n) /\ SetBridge(r, v, b)
  /\ faults' \in 0..MaxFaults /\ UNCHANGED <<lock, identity, child>>
  /\ socket' = socket \/ (socket' = [socket EXCEPT ![v] = r] /\ b.owned)
  /\ config' = config \/ (config' = [config EXCEPT ![v] = r] /\ v \in n.paths)
  /\ n.fd = rt[r].fd /\ n.phase \in {"starting", "open"} /\ Started(n)
  /\ n.bridges = rt[r].bridges \cup {v} /\ rt[r].paths \subseteq n.paths
  /\ b.stage = 0 /\ (br[r][v].owned => b.owned)

\* A start goes on.
LEMMA StartStepHolds ==
  ASSUME IInv, NEW r \in Runtimes, rt[r].phase = "starting", NEW v \in Vehicles,
         NEW n, NEW b, Grows(r, v, n, b)
  PROVE  IInv'
<1>0. /\ n \in RuntimeType /\ b \in BridgeType /\ Set(r, n) /\ SetBridge(r, v, b)
      /\ faults' \in 0..MaxFaults /\ UNCHANGED <<lock, identity, child>>
      /\ socket' = socket \/ (socket' = [socket EXCEPT ![v] = r] /\ b.owned)
      /\ config' = config \/ (config' = [config EXCEPT ![v] = r] /\ v \in n.paths)
      /\ n.fd = rt[r].fd /\ n.phase \in {"starting", "open"} /\ Started(n)
      /\ n.bridges = rt[r].bridges \cup {v} /\ rt[r].paths \subseteq n.paths
      /\ b.stage = 0 /\ (br[r][v].owned => b.owned)
  BY DEF Grows
<1>1. PICK B \in [Vehicles -> BridgeType] :
        br' = [br EXCEPT ![r] = B] /\ B[v] = b /\ \A w \in Vehicles \ {v} : B[w] = br[r][w]
  BY <1>0, OneBridge
<1>2. Own(r) /\ Children /\ socket \in [Vehicles -> Owners] /\ config \in [Vehicles -> Owners]
  BY Facts DEF IInv, Typed
<1>3. /\ rt' = [rt EXCEPT ![r] = n]
      /\ \A w \in Vehicles \ {v} : socket'[w] = socket[w] /\ config'[w] = config[w]
      /\ socket'[v] = socket[v] \/ (socket'[v] = r /\ b.owned)
      /\ config'[v] = config[v] \/ (config'[v] = r /\ v \in n.paths)
  BY <1>0, <1>2 DEF Set
<1>4. socket' \in [Vehicles -> Owners] /\ config' \in [Vehicles -> Owners]
  BY <1>0, <1>2 DEF Owners
<1>5. Typed' /\ rt'[r] = n /\ br'[r] = B
  BY <1>0, <1>1, <1>3, <1>4 DEF IInv, Typed
<1>6. \A q \in Runtimes \ {r} : rt'[q] = rt[q] /\ br'[q] = br[q]
  BY <1>1, <1>3 DEF IInv, Typed
<1>7. Holding(r, n, lock')
  BY <1>0, <1>2 DEF Own, Holding
<1>8. \A w \in Vehicles : Kept(n, w, B[w])
  <2>1. ASSUME NEW w \in Vehicles, w # v PROVE Kept(n, w, B[w])
    <3>1. Kept(rt[r], w, br[r][w]) /\ B[w] = br[r][w]
      BY <1>1, <1>2, <2>1 DEF Own
    <3>2. w \in n.bridges <=> w \in rt[r].bridges
      BY <1>0, <2>1
    <3> QED
      BY <3>1, <3>2 DEF Kept
  <2>2. Kept(n, v, b)
    BY <1>0, StageNumbers DEF Kept
  <2> QED
    BY <1>1, <2>1, <2>2
<1>9. \A w \in Vehicles : Files(r, n, w, B[w], socket'[w], config'[w])
  <2>1. ASSUME NEW w \in Vehicles, w # v PROVE Files(r, n, w, B[w], socket'[w], config'[w])
    <3>1. Files(r, rt[r], w, br[r][w], socket[w], config[w]) /\ B[w] = br[r][w]
      BY <1>1, <1>2, <2>1 DEF Own
    <3> QED
      BY <1>0, <1>3, <2>1, <3>1 DEF Files
  <2>2. Files(r, n, v, b, socket'[v], config'[v])
    <3>1. Files(r, rt[r], v, br[r][v], socket[v], config[v])
      BY <1>2 DEF Own
    <3> QED
      BY <1>0, <1>3, <3>1 DEF Files
  <2> QED
    BY <1>1, <2>1, <2>2
<1>10. Own(r)'
  BY <1>0, <1>5, <1>7, <1>8, <1>9 DEF Own
<1>11. \A q \in Runtimes \ {r}, w \in Vehicles :
         (socket'[w] = q => socket[w] = q) /\ (config'[w] = q => config[w] = q)
  BY <1>3
<1>12. \A q \in Runtimes, w \in Vehicles : Child(child'[q][w], identity'[w])
  BY <1>0, <1>2 DEF Children
<1> QED
  BY <1>0, <1>5, <1>6, <1>10, <1>11, <1>12, OneRuntime

\* The server of a bridge starts.
LEMMA StartServerHolds ==
  ASSUME IInv, NEW r \in Runtimes, StartServer(r)
  PROVE  IInv'
<1> DEFINE v == Next1(r)
           m == [rt[r] EXCEPT !.bridges = @ \cup {v}]
           n == [m EXCEPT !.at = @ + 1]
           b == [NoBridge EXCEPT !.alive = {"server", "task"}, !.owned = TRUE]
<1>1. /\ rt[r].phase = "starting" /\ Starting(r, 1)
      /\ UNCHANGED <<lock, config, identity, child>>
  BY DEF StartServer, Starting
<1>2. /\ rt[r] \in RuntimeType /\ br[r] \in [Vehicles -> BridgeType] /\ Own(r)
      /\ faults \in 0..MaxFaults /\ MaxFaults \in Nat
  BY Facts
<1>3. v \in Vehicles /\ \E i \in 1..N : rt[r].at = N + i /\ v = Fleet[i]
  BY <1>1, Position DEF IInv
<1>4. rt[r].at \in Nat \ {0} /\ rt[r].at + 1 \in Nat \ {0}
  BY <1>2 DEF RuntimeType
<1> HIDE DEF v
<1>5. /\ m \in RuntimeType /\ m.phase = "starting" /\ m.fd = rt[r].fd /\ m.at = rt[r].at
      /\ m.bridges = rt[r].bridges \cup {v} /\ m.paths = rt[r].paths
  BY <1>1, <1>2, <1>3 DEF RuntimeType
<1>6. \A i \in 1..N : N + i < rt[r].at => Fleet[i] \in rt[r].bridges
  BY <1>1, <1>2 DEF Own, Started
<1> HIDE DEF m
<1>7. CASE /\ socket' = [socket EXCEPT ![v] = r]
           /\ SetBridge(r, v, b)
           /\ Set(r, n)
           /\ UNCHANGED faults
  <2>1. /\ n \in RuntimeType /\ n.phase = "starting" /\ n.fd = rt[r].fd /\ n.at = rt[r].at + 1
        /\ n.bridges = rt[r].bridges \cup {v} /\ n.paths = rt[r].paths
    BY <1>4, <1>5 DEF RuntimeType
  <2>2. b \in BridgeType /\ b.stage = 0 /\ b.owned
    <3>1. NoBridge \in BridgeType /\ NoBridge.stage = 0
      BY StageNumbers DEF NoBridge, BridgeType
    <3>2. {"server", "task"} \in SUBSET Kinds
      BY StageNumbers
    <3> QED
      BY <3>1, <3>2 DEF BridgeType
  <2>3. Started(n)
    <3>1. ASSUME NEW i \in 1..N, N + i < rt[r].at + 1 PROVE Fleet[i] \in rt[r].bridges \cup {v}
      <4>1. PICK k \in 1..N : rt[r].at = N + k /\ v = Fleet[k]
        BY <1>3
      <4>2. i = k \/ N + i < rt[r].at
        BY <3>1, <4>1, FleetMembers
      <4> QED
        BY <1>6, <4>1, <4>2
    <3> QED
      BY <2>1, <3>1 DEF Started
  <2>4. Set(r, n) /\ SetBridge(r, v, b)
    BY <1>7
  <2> HIDE DEF n, b
  <2> QED
    <3>1. Grows(r, v, n, b)
      BY <1>1, <1>2, <1>3, <1>7, <2>1, <2>2, <2>3, <2>4 DEF Grows
    <3> QED
      BY <1>1, <1>3, <3>1, StartStepHolds
<1>8. CASE /\ Listening(v) \/ faults < MaxFaults
           /\ faults' = IF Listening(v) THEN faults ELSE faults + 1
           /\ Set(r, Rest(m, "open"))
           /\ UNCHANGED <<socket, br>>
  <2> DEFINE o == Rest(m, "open")
             c == br[r][v]
  <2>1. faults' \in 0..MaxFaults
    BY <1>2, <1>8
  <2>2. /\ o \in RuntimeType /\ o.phase = "open" /\ o.fd = rt[r].fd
        /\ o.bridges = rt[r].bridges \cup {v} /\ o.paths = rt[r].paths
    <3>1. "open" \in Phases
      BY DEF Phases
    <3> QED
      BY <1>5, <3>1, RestFields
  <2>3. c \in BridgeType /\ c.stage = 0 /\ SetBridge(r, v, c)
    <3>1. c \in BridgeType /\ Kept(rt[r], v, c)
      BY <1>2, <1>3 DEF Own
    <3>2. br' = [br EXCEPT ![r][v] = c]
      BY <1>3, <1>8 DEF IInv, Typed
    <3> QED
      BY <1>1, <3>1, <3>2 DEF Kept, SetBridge
  <2>4. Started(o)
    BY <2>2 DEF Started
  <2>5. (br[r][v].owned => c.owned) /\ Set(r, o)
    BY <1>8
  <2> HIDE DEF o, c
  <2> QED
    <3>1. Grows(r, v, o, c)
      BY <1>1, <1>3, <1>8, <2>1, <2>2, <2>3, <2>4, <2>5 DEF Grows
    <3> QED
      BY <1>1, <1>3, <3>1, StartStepHolds
<1> QED
  BY <1>7, <1>8 DEF StartServer, v, m

\* The sidecar of a bridge starts.
LEMMA StartSidecarHolds ==
  ASSUME IInv, NEW r \in Runtimes, StartSidecar(r)
  PROVE  IInv'
<1> DEFINE v == Next1(r)
           m == [rt[r] EXCEPT !.paths = @ \cup {v}]
           n == [m EXCEPT !.at = @ + 1]
           b == [br[r][v] EXCEPT !.alive = @ \cup {"process"}]
<1>1. /\ rt[r].phase = "starting" /\ Starting(r, 2)
      /\ UNCHANGED <<lock, socket, identity, child>>
  BY DEF StartSidecar, Starting
<1>2. /\ rt[r] \in RuntimeType /\ br[r] \in [Vehicles -> BridgeType] /\ Own(r)
      /\ faults \in 0..MaxFaults /\ MaxFaults \in Nat /\ (Fault => faults' \in 0..MaxFaults)
  BY Facts
<1>3. v \in Vehicles /\ rt[r].at > N + N
  BY <1>1, Position DEF IInv
<1>4. rt[r].at \in Nat \ {0} /\ rt[r].at + 1 \in Nat \ {0}
  BY <1>2 DEF RuntimeType
<1> HIDE DEF v
<1>5. /\ m \in RuntimeType /\ m.phase = "starting" /\ m.fd = rt[r].fd /\ m.at = rt[r].at
      /\ m.bridges = rt[r].bridges /\ m.paths = rt[r].paths \cup {v}
  BY <1>1, <1>2, <1>3 DEF RuntimeType
<1>6. \A i \in 1..N : Fleet[i] \in rt[r].bridges
  <2>1. \A i \in 1..N : N + i < rt[r].at
    BY <1>3, <1>4, FleetMembers
  <2> QED
    BY <1>1, <1>2, <2>1 DEF Own, Started
<1>7. rt[r].bridges \cup {v} = rt[r].bridges
  BY <1>3, <1>6, FleetMembers
<1>8. br[r][v] \in BridgeType /\ br[r][v].stage = 0
  BY <1>1, <1>2, <1>3 DEF Own, Kept
<1> HIDE DEF m
<1>9. CASE /\ config' = [config EXCEPT ![v] = r]
           /\ SetBridge(r, v, b)
           /\ Set(r, n)
           /\ UNCHANGED faults
  <2>1. /\ n \in RuntimeType /\ n.phase = "starting" /\ n.fd = rt[r].fd
        /\ n.bridges = rt[r].bridges \cup {v} /\ n.paths = rt[r].paths \cup {v}
    BY <1>4, <1>5, <1>7 DEF RuntimeType
  <2>2. b \in BridgeType /\ b.stage = 0
    BY <1>8, StageNumbers DEF BridgeType
  <2>3. (br[r][v].owned => b.owned) /\ Set(r, n) /\ SetBridge(r, v, b)
    BY <1>8, <1>9 DEF BridgeType
  <2>4. Started(n)
    BY <1>6, <2>1 DEF Started
  <2> HIDE DEF n, b
  <2> QED
    <3>1. Grows(r, v, n, b)
      BY <1>1, <1>2, <1>3, <1>9, <2>1, <2>2, <2>3, <2>4 DEF Grows
    <3> QED
      BY <1>1, <1>3, <3>1, StartStepHolds
<1>10. CASE /\ Fault
            /\ config' \in {config, [config EXCEPT ![v] = r]}
            /\ Set(r, Rest(m, "open"))
            /\ UNCHANGED br
  <2> DEFINE o == Rest(m, "open")
             c == br[r][v]
  <2>1. /\ o \in RuntimeType /\ o.phase = "open" /\ o.fd = rt[r].fd
        /\ o.bridges = rt[r].bridges \cup {v} /\ o.paths = rt[r].paths \cup {v}
    <3>1. "open" \in Phases
      BY DEF Phases
    <3> QED
      BY <1>5, <1>7, <3>1, RestFields
  <2>2. c \in BridgeType /\ c.stage = 0 /\ SetBridge(r, v, c)
    <3>1. br' = [br EXCEPT ![r][v] = c]
      BY <1>3, <1>10 DEF IInv, Typed
    <3> QED
      BY <1>8, <3>1 DEF SetBridge
  <2>3. Started(o)
    BY <2>1 DEF Started
  <2>4. (br[r][v].owned => c.owned) /\ Set(r, o)
    BY <1>10
  <2> HIDE DEF o, c
  <2> QED
    <3>1. Grows(r, v, o, c)
      BY <1>1, <1>2, <1>3, <1>10, <2>1, <2>2, <2>3, <2>4 DEF Grows
    <3> QED
      BY <1>1, <1>3, <3>1, StartStepHolds
<1> QED
  BY <1>9, <1>10 DEF StartSidecar, v, m

\* A runtime is ready.
LEMMA ReadyHolds ==
  ASSUME IInv, NEW r \in Runtimes, Ready(r)
  PROVE  IInv'
<1>1. /\ rt[r].phase = "starting"
      /\ UNCHANGED <<lock, br, socket, config, identity, child>>
  BY DEF Ready, Starting
<1>2. /\ rt[r] \in RuntimeType /\ br[r] \in [Vehicles -> BridgeType] /\ Own(r) /\ Children
      /\ faults \in 0..MaxFaults /\ (Fault => faults' \in 0..MaxFaults)
      /\ child \in [Runtimes -> [Vehicles -> ChildType]]
  BY Facts
<1>3. Children'
  BY <1>1, <1>2 DEF Children
<1>4. CASE Fault /\ StartFails(r)
  BY <1>1, <1>2, <1>3, <1>4, StartFailsHolds
<1>5. CASE /\ Set(r, Rest([rt[r] EXCEPT !.flush = TRUE], "running"))
           /\ UNCHANGED faults
  <2> DEFINE m == [rt[r] EXCEPT !.flush = TRUE]
             n == Rest(m, "running")
  <2>1. m \in RuntimeType /\ m.fd = rt[r].fd /\ m.bridges = rt[r].bridges /\ m.paths = rt[r].paths
    BY <1>2 DEF RuntimeType
  <2>2. "running" \in Phases
    BY DEF Phases
  <2> HIDE DEF m
  <2>3. /\ n \in RuntimeType /\ n.phase = "running" /\ n.fd = rt[r].fd /\ n.bridges = rt[r].bridges
        /\ n.paths = rt[r].paths
    BY <2>1, <2>2, RestFields
  <2>4. rt' = [rt EXCEPT ![r] = n] /\ br' = [br EXCEPT ![r] = br[r]]
    BY <1>1, <1>5 DEF Set, m, IInv, Typed
  <2> HIDE DEF n
  <2>5. Holding(r, n, lock) /\ Started(n)
    BY <1>1, <1>2, <2>3 DEF Own, Holding, Started
  <2>6. \A v \in Vehicles : Kept(n, v, br[r][v])
    BY <1>1, <1>2, <2>3 DEF Own, Kept
  <2>7. \A v \in Vehicles : Files(r, n, v, br[r][v], socket[v], config[v])
    BY <1>1, <1>2, <2>3 DEF Own, Files
  <2> QED
    BY <1>1, <1>2, <1>3, <1>5, <2>3, <2>4, <2>5, <2>6, <2>7, Within
<1> QED
  BY <1>4, <1>5 DEF Ready

(***************************************************************************)
(* The bridges.                                                            *)
(***************************************************************************)
\* The files stay, and the bridge gains nothing it had nothing of.
LEMMA BridgeStays ==
  ASSUME IInv, NEW r \in Runtimes, NEW v \in Vehicles, NEW b \in BridgeType, SetBridge(r, v, b),
         UNCHANGED <<lock, rt, socket, config, identity, child>>, faults' \in 0..MaxFaults,
         br[r][v].owned => b.owned, ~br[r][v].owned /\ br[r][v].alive = {} => ~b.owned /\ b.alive = {},
         b.stage = Done /\ ~b.pending => b.alive = {} /\ ~b.owned,
         b.stage = 0 \/ br[r][v].stage # 0
  PROVE  IInv'
<1>1. Own(r) /\ socket \in [Vehicles -> Owners]
  BY DEF IInv, Typed
<1>2. Kept(rt[r], v, b)
  BY <1>1 DEF Own, Kept
<1>3. Files(r, rt[r], v, b, socket'[v], config[v])
  BY <1>1 DEF Own, Files
<1> QED
  BY <1>1, <1>2, <1>3, BridgeOnly

\* A sidecar connects.
LEMMA ConnectHolds ==
  ASSUME IInv, NEW r \in Runtimes, NEW v \in Vehicles, Connect(r, v)
  PROVE  IInv'
<1> DEFINE b == [br[r][v] EXCEPT !.alive = @ \cup {"writer", "task"}]
<1>1. /\ {"process", "server"} \subseteq br[r][v].alive /\ br[r][v].stage < 2 /\ SetBridge(r, v, b)
      /\ UNCHANGED <<lock, rt, socket, config, identity, child, faults>>
      /\ br[r][v] \in BridgeType /\ faults \in 0..MaxFaults
  BY Facts DEF Connect
<1>2. b \in BridgeType /\ b.stage = br[r][v].stage
  BY <1>1, StageNumbers DEF BridgeType
<1>3. b.owned = br[r][v].owned
  BY <1>1 DEF BridgeType
<1> HIDE DEF b
<1>4. b.stage # Done /\ br[r][v].alive # {}
  BY <1>1, <1>2, StageNumbers DEF BridgeType
<1> QED
  BY <1>1, <1>2, <1>3, <1>4, BridgeStays

\* The close of a bridge times out.
LEMMA BridgeDeadlineHolds ==
  ASSUME IInv, NEW r \in Runtimes, NEW v \in Vehicles, BridgeDeadline(r, v)
  PROVE  IInv'
<1> DEFINE b == [br[r][v] EXCEPT !.stage = Done]
<1>1. /\ br[r][v].stage \in 2..Last /\ br[r][v].pending /\ SetBridge(r, v, b)
      /\ UNCHANGED <<lock, rt, socket, config, identity, child, faults>>
      /\ br[r][v] \in BridgeType /\ faults \in 0..MaxFaults
  BY Facts DEF BridgeDeadline
<1>2. b \in BridgeType /\ b.alive = br[r][v].alive
  BY <1>1, StageNumbers DEF BridgeType
<1>3. b.owned = br[r][v].owned /\ b.pending = br[r][v].pending
  BY <1>1 DEF BridgeType
<1> HIDE DEF b
<1>4. br[r][v].stage # 0
  BY <1>1, StageNumbers
<1> QED
  BY <1>1, <1>2, <1>3, <1>4, BridgeStays

\* A resource of a bridge is stopped, or is not.
LEMMA StopResourceHolds ==
  ASSUME IInv, NEW r \in Runtimes, NEW v \in Vehicles, StopResource(r, v)
  PROVE  IInv'
<1> DEFINE s == br[r][v].stage
           k == Stages[s]
           left == {i \in DOMAIN Stages : i > s /\ Stages[i] \in br[r][v].alive}
           next == CHOOSE i \in left \cup {Last} : \A j \in left : i <= j
           b == [br[r][v] EXCEPT !.stage = next]
           x == [b EXCEPT !.alive = @ \ {k}]
           y == [b EXCEPT !.pending = TRUE]
<1>1. /\ s \in 1..4 /\ (SetBridge(r, v, x) \/ SetBridge(r, v, y))
      /\ UNCHANGED <<lock, rt, socket, config, identity, child, faults>>
      /\ br[r][v] \in BridgeType /\ faults \in 0..MaxFaults
  BY Facts, StageNumbers DEF StopResource
<1>2. next \in 1..5
  <2>1. left \subseteq 1..4
    BY StageNumbers
  <2>2. \E i \in left \cup {5} : \A j \in left : i <= j
    <3> HIDE DEF left
    <3>1. CASE 1 \in left
      BY <2>1, <3>1
    <3>2. CASE 1 \notin left /\ 2 \in left
      BY <2>1, <3>2
    <3>3. CASE 1 \notin left /\ 2 \notin left /\ 3 \in left
      BY <2>1, <3>3
    <3>4. CASE 1 \notin left /\ 2 \notin left /\ 3 \notin left
      BY <2>1, <3>4
    <3> QED
      BY <3>1, <3>2, <3>3, <3>4
  <2>3. \E i \in left \cup {Last} : \A j \in left : i <= j
    BY <2>2, StageNumbers
  <2> HIDE DEF left
  <2>4. next \in left \cup {Last}
    BY <2>3, Zenon
  <2> HIDE DEF next
  <2> QED
    BY <2>1, <2>4, StageNumbers
<1> HIDE DEF next, k, s
<1>3. b \in BridgeType /\ b.stage = next /\ b.alive = br[r][v].alive
  BY <1>1, <1>2, StageNumbers DEF BridgeType
<1>4. b.owned = br[r][v].owned
  BY <1>1 DEF BridgeType
<1> HIDE DEF b
<1>5. /\ x \in BridgeType /\ x.stage = next /\ x.alive \subseteq br[r][v].alive
      /\ y \in BridgeType /\ y.stage = next /\ y.alive = br[r][v].alive
  BY <1>3 DEF BridgeType
<1>6. x.owned = br[r][v].owned /\ y.owned = br[r][v].owned
  BY <1>3, <1>4 DEF BridgeType
<1>7. next # Done /\ br[r][v].stage # 0
  BY <1>1, <1>2, StageNumbers DEF s
<1> HIDE DEF x, y
<1>8. CASE SetBridge(r, v, x)
  BY <1>1, <1>5, <1>6, <1>7, <1>8, BridgeStays
<1>9. CASE SetBridge(r, v, y)
  BY <1>1, <1>5, <1>6, <1>7, <1>9, BridgeStays
<1> QED
  BY <1>1, <1>8, <1>9

\* The close of a bridge ends.
LEMMA EndBridgeHolds ==
  ASSUME IInv, NEW r \in Runtimes, NEW v \in Vehicles, EndBridge(r, v)
  PROVE  IInv'
<1> DEFINE b == [br[r][v] EXCEPT !.stage = Done]
           x == [b EXCEPT !.owned = FALSE, !.pending = @ \/ b.alive # {}]
           y == [b EXCEPT !.pending = TRUE]
<1>1. /\ br[r][v].stage = Last /\ UNCHANGED <<lock, rt, config, identity, child>>
      /\ br[r][v] \in BridgeType /\ faults \in 0..MaxFaults /\ (Fault => faults' \in 0..MaxFaults)
      /\ Own(r) /\ socket \in [Vehicles -> Owners]
  BY Facts DEF EndBridge, IInv, Typed
<1>2. b \in BridgeType /\ b.stage = Done /\ b.alive = br[r][v].alive
  BY <1>1, StageNumbers DEF BridgeType
<1>3. b.owned = br[r][v].owned
  BY <1>1 DEF BridgeType
<1>4. \/ /\ SetBridge(r, v, x) /\ UNCHANGED faults
         /\ socket' = [socket EXCEPT ![v] = IF b.owned /\ @ = r THEN None ELSE @]
      \/ SetBridge(r, v, y) /\ Fault /\ UNCHANGED socket
      \/ SetBridge(r, v, y) /\ UNCHANGED <<socket, faults>>
  BY DEF EndBridge
<1> HIDE DEF b
<1>5. y \in BridgeType /\ y.alive = b.alive /\ y.pending
  BY <1>2 DEF BridgeType
<1>6. y.owned = b.owned
  BY <1>2 DEF BridgeType
<1>7. /\ x \in BridgeType /\ x.alive = b.alive /\ ~x.owned
      /\ ~x.pending => b.alive = {}
  BY <1>2 DEF BridgeType
<1> HIDE DEF x, y
<1>8. br[r][v].stage # 0
  BY <1>1, StageNumbers
<1>9. CASE SetBridge(r, v, y) /\ UNCHANGED socket /\ faults' \in 0..MaxFaults
  BY <1>1, <1>2, <1>3, <1>5, <1>6, <1>8, <1>9, BridgeStays
<1>10. CASE /\ SetBridge(r, v, x) /\ UNCHANGED faults
            /\ socket' = [socket EXCEPT ![v] = IF b.owned /\ @ = r THEN None ELSE @]
  <2>1. /\ socket' \in [Vehicles -> Owners]
        /\ \A w \in Vehicles : socket'[w] = socket[w] \/ (w = v /\ socket'[w] = None)
        /\ socket'[v] = (IF b.owned /\ socket[v] = r THEN None ELSE socket[v])
    BY <1>1, <1>10 DEF Owners
  <2>2. Kept(rt[r], v, br[r][v]) /\ Files(r, rt[r], v, br[r][v], socket[v], config[v])
    BY <1>1 DEF Own
  <2>3. Kept(rt[r], v, x)
    BY <1>2, <1>7, <1>8, <2>2 DEF Kept
  <2>4. Files(r, rt[r], v, x, socket'[v], config[v])
    BY <1>3, <2>1, <2>2, LifecycleAssumption DEF Files
  <2> QED
    BY <1>1, <1>7, <1>10, <2>1, <2>3, <2>4, BridgeOnly
<1> QED
  BY <1>1, <1>4, <1>9, <1>10

(***************************************************************************)
(* close.                                                                  *)
(***************************************************************************)
LEMMA CallCloseHolds ==
  ASSUME IInv, NEW r \in Runtimes, CallClose(r)
  PROVE  IInv'
<1> DEFINE n == [rt[r] EXCEPT !.phase = "closing", !.stage = "flush", !.pending = FALSE]
<1>1. /\ rt[r].phase \in {"running", "open"} /\ Set(r, n)
      /\ UNCHANGED <<lock, br, socket, config, identity, child, faults>>
  BY DEF CallClose
<1>2. /\ rt[r] \in RuntimeType /\ Children /\ faults \in 0..MaxFaults
      /\ child \in [Runtimes -> [Vehicles -> ChildType]]
  BY Facts
<1>3. /\ n \in RuntimeType /\ n.phase = "closing" /\ n.fd = rt[r].fd /\ n.bridges = rt[r].bridges
      /\ n.paths = rt[r].paths
  BY <1>2 DEF RuntimeType, Phases
<1>4. n.flush = rt[r].flush
  BY <1>2 DEF RuntimeType
<1> HIDE DEF n
<1>5. Children'
  BY <1>1, <1>2 DEF Children
<1> QED
  BY <1>1, <1>2, <1>3, <1>4, <1>5, Continues

\* The close of a runtime times out.
LEMMA CloseDeadlineHolds ==
  ASSUME IInv, NEW r \in Runtimes, CloseDeadline(r)
  PROVE  IInv'
<1> DEFINE n == Rest(rt[r], "open")
<1>1. /\ rt[r].phase = "closing" /\ Set(r, n)
      /\ UNCHANGED <<lock, br, socket, config, identity, child, faults>>
  BY DEF CloseDeadline
<1>2. /\ rt[r] \in RuntimeType /\ Children /\ faults \in 0..MaxFaults
      /\ child \in [Runtimes -> [Vehicles -> ChildType]] /\ "open" \in Phases
  BY Facts DEF Phases
<1>3. /\ n \in RuntimeType /\ n.phase = "open" /\ n.fd = rt[r].fd /\ n.bridges = rt[r].bridges
      /\ n.paths = rt[r].paths /\ n.flush = rt[r].flush
  BY <1>2, RestFields
<1> HIDE DEF n
<1>4. Children'
  BY <1>1, <1>2 DEF Children
<1> QED
  BY <1>1, <1>2, <1>3, <1>4, Continues

\* What was killed or cancelled ends.
LEMMA StopsLateHolds ==
  ASSUME IInv, NEW r \in Runtimes, StopsLate(r)
  PROVE  IInv'
<1>1. /\ rt[r].phase \in {"closing", "open"}
      /\ UNCHANGED <<lock, socket, config, identity, child, faults>>
  BY DEF StopsLate
<1>2. /\ rt[r] \in RuntimeType /\ Children /\ faults \in 0..MaxFaults /\ Own(r)
      /\ child \in [Runtimes -> [Vehicles -> ChildType]] /\ br[r] \in [Vehicles -> BridgeType]
  BY Facts
<1>3. CASE Set(r, [rt[r] EXCEPT !.flush = FALSE]) /\ UNCHANGED br
  <2> DEFINE n == [rt[r] EXCEPT !.flush = FALSE]
  <2>1. /\ n \in RuntimeType /\ n.phase = rt[r].phase /\ n.fd = rt[r].fd
        /\ n.bridges = rt[r].bridges /\ n.paths = rt[r].paths /\ ~n.flush
    BY <1>2 DEF RuntimeType
  <2>2. Set(r, n)
    BY <1>3
  <2> HIDE DEF n
  <2>3. Children'
    BY <1>1, <1>2 DEF Children
  <2> QED
    BY <1>1, <1>2, <1>3, <2>1, <2>2, <2>3, Continues
<1>4. ASSUME NEW v \in Vehicles, NEW k, SetBridge(r, v, [br[r][v] EXCEPT !.alive = @ \ {k}]), UNCHANGED rt
      PROVE  IInv'
  <2> DEFINE b == [br[r][v] EXCEPT !.alive = @ \ {k}]
  <2>1. br[r][v] \in BridgeType /\ Kept(rt[r], v, br[r][v])
    BY <1>2 DEF Own
  <2>2. b \in BridgeType /\ b.alive \subseteq br[r][v].alive /\ b.stage = br[r][v].stage
    BY <2>1 DEF BridgeType
  <2>3. b.owned = br[r][v].owned /\ b.pending = br[r][v].pending
    BY <2>1 DEF BridgeType
  <2>4. SetBridge(r, v, b)
    BY <1>4
  <2> HIDE DEF b
  <2>5. b.stage = Done /\ ~b.pending => b.alive = {} /\ ~b.owned
    BY <2>1, <2>2, <2>3 DEF Kept
  <2> QED
    BY <1>1, <1>2, <1>4, <2>2, <2>3, <2>4, <2>5, BridgeStays
<1> QED
  BY <1>3, <1>4 DEF StopsLate

\* The close of every bridge starts, or starts again.
LEMMA StopFlushHolds ==
  ASSUME IInv, NEW r \in Runtimes, StopFlush(r)
  PROVE  IInv'
<1> DEFINE x == [rt[r] EXCEPT !.flush = FALSE, !.stage = "bridges"]
           y == [rt[r] EXCEPT !.pending = TRUE, !.stage = "bridges"]
           B == [v \in Vehicles |->
                  IF v \in rt[r].bridges /\ br[r][v].stage \in {0, Done}
                    THEN [br[r][v] EXCEPT !.stage = 1, !.pending = FALSE] ELSE br[r][v]]
<1>1. /\ rt[r].phase = "closing" /\ br' = [br EXCEPT ![r] = B]
      /\ UNCHANGED <<lock, socket, config, identity, child>>
      /\ \/ rt' = [rt EXCEPT ![r] = x] /\ UNCHANGED faults
         \/ rt' = [rt EXCEPT ![r] = y] /\ Fault
  BY DEF StopFlush, Set
<1>2. /\ rt[r] \in RuntimeType /\ Children /\ faults \in 0..MaxFaults /\ Own(r)
      /\ child \in [Runtimes -> [Vehicles -> ChildType]] /\ br[r] \in [Vehicles -> BridgeType]
      /\ (Fault => faults' \in 0..MaxFaults)
  BY Facts
<1>3. /\ x \in RuntimeType /\ x.phase = "closing" /\ x.fd = rt[r].fd /\ x.bridges = rt[r].bridges
      /\ x.paths = rt[r].paths /\ ~x.flush
      /\ y \in RuntimeType /\ y.phase = "closing" /\ y.fd = rt[r].fd /\ y.bridges = rt[r].bridges
      /\ y.paths = rt[r].paths
  BY <1>1, <1>2 DEF RuntimeType
<1>4. y.flush = rt[r].flush
  BY <1>2 DEF RuntimeType
<1> HIDE DEF x, y
<1>5. PICK n \in {x, y} : rt' = [rt EXCEPT ![r] = n] /\ faults' \in 0..MaxFaults
  BY <1>1, <1>2
<1>6. /\ n \in RuntimeType /\ n.phase = "closing" /\ n.fd = rt[r].fd /\ n.bridges = rt[r].bridges
      /\ n.paths = rt[r].paths /\ (n.flush => rt[r].flush)
  BY <1>3, <1>4
<1>7. \A v \in Vehicles :
        /\ B[v] \in BridgeType /\ B[v].alive = br[r][v].alive /\ (B[v].owned <=> br[r][v].owned)
        /\ B[v].stage = Done => B[v] = br[r][v]
  <2> SUFFICES ASSUME NEW v \in Vehicles
               PROVE  /\ B[v] \in BridgeType /\ B[v].alive = br[r][v].alive
                      /\ (B[v].owned <=> br[r][v].owned)
                      /\ B[v].stage = Done => B[v] = br[r][v]
    OBVIOUS
  <2> DEFINE c == [br[r][v] EXCEPT !.stage = 1, !.pending = FALSE]
  <2>1. br[r][v] \in BridgeType /\ 1 \in 0..Done /\ 1 # Done
    BY <1>2, StageNumbers
  <2>2. c \in BridgeType /\ c.alive = br[r][v].alive /\ c.stage # Done
    BY <2>1 DEF BridgeType
  <2>3. c.owned <=> br[r][v].owned
    BY <2>1 DEF BridgeType
  <2>4. B[v] = c \/ B[v] = br[r][v]
    OBVIOUS
  <2> HIDE DEF B, c
  <2>5. CASE B[v] = c
    BY <2>2, <2>3, <2>5
  <2>6. CASE B[v] = br[r][v]
    BY <2>1, <2>6
  <2> QED
    BY <2>4, <2>5, <2>6
<1>8. B \in [Vehicles -> BridgeType]
  BY <1>7
<1> HIDE DEF B
<1>9. Holding(r, n, lock) /\ Started(n)
  BY <1>1, <1>2, <1>6 DEF Own, Holding, Started
<1>10. \A v \in Vehicles : Kept(n, v, B[v])
  BY <1>2, <1>6, <1>7 DEF Own, Kept
<1>11. \A v \in Vehicles : Files(r, n, v, B[v], socket[v], config[v])
  BY <1>1, <1>2, <1>6, <1>7 DEF Own, Files
<1>12. Children'
  BY <1>1, <1>2 DEF Children
<1> QED
  BY <1>1, <1>2, <1>5, <1>6, <1>8, <1>9, <1>10, <1>11, <1>12, Within

\* Only bridges that were closed without an error are forgotten, and those keep nothing.
LEMMA ForgetBridgesHolds ==
  ASSUME IInv, NEW r \in Runtimes, ForgetBridges(r)
  PROVE  IInv'
<1> DEFINE finished == {v \in rt[r].bridges : br[r][v].stage = Done}
           kept == {v \in rt[r].bridges : v \in finished => br[r][v].pending}
           n == [rt[r] EXCEPT !.stage = "configs", !.bridges = kept, !.pending = @ \/ kept # {}]
           B == [v \in Vehicles |->
                  IF v \in finished THEN [br[r][v] EXCEPT !.stage = 0, !.pending = FALSE] ELSE br[r][v]]
<1>1. /\ rt[r].phase = "closing" /\ br' = [br EXCEPT ![r] = B] /\ rt' = [rt EXCEPT ![r] = n]
      /\ UNCHANGED <<lock, socket, config, identity, child, faults>>
  BY DEF ForgetBridges, Set
<1>2. /\ rt[r] \in RuntimeType /\ Children /\ faults \in 0..MaxFaults /\ Own(r)
      /\ child \in [Runtimes -> [Vehicles -> ChildType]] /\ br[r] \in [Vehicles -> BridgeType]
  BY Facts
<1>3. kept \subseteq rt[r].bridges /\ kept \in SUBSET Vehicles
  BY <1>2 DEF RuntimeType
<1>4. \A v \in rt[r].bridges \ kept : br[r][v].stage = Done /\ ~br[r][v].pending
  OBVIOUS
<1>5. \A v \in Vehicles :
        /\ B[v] \in BridgeType /\ B[v].alive = br[r][v].alive /\ (B[v].owned <=> br[r][v].owned)
        /\ B[v].stage = Done => B[v] = br[r][v]
  <2> SUFFICES ASSUME NEW v \in Vehicles
               PROVE  /\ B[v] \in BridgeType /\ B[v].alive = br[r][v].alive
                      /\ (B[v].owned <=> br[r][v].owned)
                      /\ B[v].stage = Done => B[v] = br[r][v]
    OBVIOUS
  <2> DEFINE c == [br[r][v] EXCEPT !.stage = 0, !.pending = FALSE]
  <2>1. br[r][v] \in BridgeType /\ 0 \in 0..Done /\ 0 # Done
    BY <1>2, StageNumbers
  <2>2. c \in BridgeType /\ c.alive = br[r][v].alive /\ c.stage # Done
    BY <2>1 DEF BridgeType
  <2>3. c.owned <=> br[r][v].owned
    BY <2>1 DEF BridgeType
  <2>4. B[v] = c \/ B[v] = br[r][v]
    OBVIOUS
  <2> HIDE DEF B, c
  <2>5. CASE B[v] = c
    BY <2>2, <2>3, <2>5
  <2>6. CASE B[v] = br[r][v]
    BY <2>1, <2>6
  <2> QED
    BY <2>4, <2>5, <2>6
<1>6. B \in [Vehicles -> BridgeType]
  BY <1>5
<1> HIDE DEF B, finished, kept
<1>7. /\ n \in RuntimeType /\ n.phase = "closing" /\ n.fd = rt[r].fd /\ n.bridges = kept
      /\ n.paths = rt[r].paths
  BY <1>1, <1>2, <1>3 DEF RuntimeType
<1>8. n.flush = rt[r].flush
  BY <1>2 DEF RuntimeType
<1> HIDE DEF n
<1>9. Holding(r, n, lock) /\ Started(n)
  BY <1>1, <1>2, <1>3, <1>7, <1>8 DEF Own, Holding, Started
<1>10. \A v \in Vehicles : Kept(n, v, B[v])
  <2> SUFFICES ASSUME NEW v \in Vehicles PROVE Kept(n, v, B[v])
    OBVIOUS
  <2>1. Kept(rt[r], v, br[r][v])
    BY <1>2 DEF Own
  <2>2. CASE v \in rt[r].bridges \ kept
    BY <1>4, <1>5, <1>7, <2>1, <2>2 DEF Kept
  <2>3. CASE v \notin rt[r].bridges \/ v \in kept
    BY <1>3, <1>5, <1>7, <2>1, <2>3 DEF Kept
  <2> QED
    BY <2>2, <2>3
<1>11. \A v \in Vehicles : Files(r, n, v, B[v], socket[v], config[v])
  BY <1>1, <1>2, <1>5, <1>7 DEF Own, Files
<1>12. Children'
  BY <1>1, <1>2 DEF Children
<1> QED
  BY <1>1, <1>2, <1>6, <1>7, <1>9, <1>10, <1>11, <1>12, Within

\* The configurations that are removed are the runtime's own.
LEMMA RemoveConfigsHolds ==
  ASSUME IInv, NEW r \in Runtimes, RemoveConfigs(r)
  PROVE  IInv'
<1>1. PICK failed \in SUBSET rt[r].paths :
        LET gone == IF rt[r].bridges = {} THEN rt[r].paths \ failed ELSE {} IN
          /\ config' = [v \in Vehicles |-> IF v \in gone THEN None ELSE config[v]]
          /\ rt' = [rt EXCEPT ![r] = [rt[r] EXCEPT !.paths = @ \ gone, !.pending = @ \/ failed # {},
                                                   !.stage = "release"]]
          /\ failed # {} => faults < MaxFaults
          /\ faults' = IF failed = {} THEN faults ELSE faults + 1
  BY DEF RemoveConfigs, Set
<1> DEFINE gone == IF rt[r].bridges = {} THEN rt[r].paths \ failed ELSE {}
           n == [rt[r] EXCEPT !.paths = @ \ gone, !.pending = @ \/ failed # {}, !.stage = "release"]
<1>2. /\ rt[r] \in RuntimeType /\ Children /\ faults \in 0..MaxFaults /\ Own(r)
      /\ config \in [Vehicles -> Owners] /\ None \notin Runtimes /\ None \in Owners
  BY Facts, LifecycleAssumption DEF IInv, Typed, Owners
<1>3. /\ rt[r].phase = "closing" /\ rt' = [rt EXCEPT ![r] = n]
      /\ UNCHANGED <<lock, br, socket, identity, child>>
      /\ config' = [v \in Vehicles |-> IF v \in gone THEN None ELSE config[v]]
  BY <1>1 DEF RemoveConfigs
<1>4. faults' \in 0..MaxFaults
  BY <1>1, <1>2, LifecycleAssumption
<1> HIDE DEF gone
<1>5. /\ n \in RuntimeType /\ n.phase = "closing" /\ n.fd = rt[r].fd /\ n.bridges = rt[r].bridges
      /\ n.paths = rt[r].paths \ gone
  BY <1>2, <1>3 DEF RuntimeType
<1>6. n.flush = rt[r].flush
  BY <1>2 DEF RuntimeType
<1> HIDE DEF n
<1>7. Typed' /\ rt'[r] = n /\ \A q \in Runtimes \ {r} : rt'[q] = rt[q]
  BY <1>2, <1>3, <1>4, <1>5 DEF IInv, Typed
<1>8. \A v \in Vehicles : config'[v] \in {config[v], None} /\ (v \in gone => config'[v] = None)
  BY <1>3
<1>9. Holding(r, n, lock) /\ Started(n)
  BY <1>2, <1>3, <1>5, <1>6 DEF Own, Holding, Started
<1>10. \A v \in Vehicles : Kept(n, v, br[r][v])
  BY <1>2, <1>5 DEF Own, Kept
<1>11. \A v \in Vehicles : Files(r, n, v, br[r][v], socket[v], config'[v])
  BY <1>2, <1>3, <1>5, <1>8 DEF Own, Files
<1>12. Own(r)'
  BY <1>3, <1>7, <1>9, <1>10, <1>11 DEF Own
<1>13. \A q \in Runtimes, v \in Vehicles : Child(child'[q][v], identity'[v])
  BY <1>2, <1>3 DEF Children
<1>14. \A q \in Runtimes \ {r}, v \in Vehicles :
         (socket'[v] = q => socket[v] = q) /\ (config'[v] = q => config[v] = q)
  BY <1>2, <1>3, <1>8
<1> QED
  BY <1>3, <1>7, <1>12, <1>13, <1>14, OneRuntime

\* A runtime that keeps nothing, and one that is dead, may give the lock up.
LEMMA Without ==
  ASSUME IInv, NEW r \in Runtimes, NEW n \in RuntimeType, NEW B \in [Vehicles -> BridgeType],
         rt' = [rt EXCEPT ![r] = n], br' = [br EXCEPT ![r] = B], faults' \in 0..MaxFaults,
         UNCHANGED <<socket, config, identity, child>>,
         lock' = lock \/ (lock' = None /\ (lock = r \/ rt[r].fd = "held")),
         n.fd # "held", ~n.flush, n.bridges = {}, n.paths = {},
         n.phase \in {"open", "closed", "dead"}, n.phase \in {"closed", "dead"} => n.fd = "none",
         \A v \in Vehicles : Kept(n, v, B[v]),
         n.phase = "dead" \/ (rt[r].phase # "dead" /\ rt[r].paths = {}
                                /\ \A v \in Vehicles : B[v].owned <=> br[r][v].owned)
  PROVE  IInv'
<1>1. /\ Children /\ Own(r) /\ lock \in Owners /\ None \in Owners
      /\ child \in [Runtimes -> [Vehicles -> ChildType]]
  BY Facts DEF IInv, Typed, Owners
<1>2. Typed' /\ rt'[r] = n /\ br'[r] = B
  BY <1>1 DEF IInv, Typed
<1>3. \A q \in Runtimes \ {r} : rt'[q] = rt[q] /\ br'[q] = br[q]
  BY DEF IInv, Typed
<1>4. lock' = lock \/ lock = r
  BY <1>1 DEF Own, Holding
<1>5. Holding(r, n, lock') /\ Started(n)
  BY DEF Holding, Started
<1>6. \A v \in Vehicles : Files(r, n, v, B[v], socket[v], config[v])
  BY <1>1 DEF Own, Files
<1>7. Own(r)'
  BY <1>2, <1>5, <1>6 DEF Own
<1>8. \A q \in Runtimes, v \in Vehicles : Child(child'[q][v], identity'[v])
  BY <1>1 DEF Children
<1> QED
  BY <1>2, <1>3, <1>4, <1>7, <1>8, OneRuntime

\* The lock is released when nothing is kept any more.
LEMMA ReleaseRuntimeLeaseHolds ==
  ASSUME IInv, NEW r \in Runtimes, ReleaseRuntimeLease(r)
  PROVE  IInv'
<1>1. /\ rt[r] \in RuntimeType /\ Children /\ faults \in 0..MaxFaults /\ Own(r)
      /\ (Fault => faults' \in 0..MaxFaults)
      /\ child \in [Runtimes -> [Vehicles -> ChildType]] /\ br[r] \in [Vehicles -> BridgeType]
  BY Facts
<1>2. rt[r].phase = "closing" /\ UNCHANGED <<br, socket, config, identity, child>>
  BY DEF ReleaseRuntimeLease
<1>3. br' = [br EXCEPT ![r] = br[r]]
  BY <1>2 DEF IInv, Typed
<1>4. ASSUME NEW fd \in {"none", "unknown"}, NEW phase \in {"closed", "open"},
             phase = "closed" => fd = "none", Releasable(r), rt[r].fd = "held", lock' \in {lock, None},
             Set(r, Rest([rt[r] EXCEPT !.fd = fd], phase)), faults' \in 0..MaxFaults
      PROVE  IInv'
  <2> DEFINE m == [rt[r] EXCEPT !.fd = fd]
             n == Rest(m, phase)
  <2>1. m \in RuntimeType /\ m.fd = fd /\ m.bridges = {} /\ m.paths = {}
    BY <1>1, <1>4 DEF RuntimeType, Releasable
  <2>2. ~m.flush
    BY <1>1, <1>4 DEF RuntimeType, Releasable
  <2> HIDE DEF m
  <2>3. /\ n \in RuntimeType /\ n.phase = phase /\ n.fd = fd /\ n.bridges = {} /\ n.paths = {}
        /\ ~n.flush
    BY <2>1, <2>2, RestFields DEF Phases
  <2>4. rt' = [rt EXCEPT ![r] = n]
    BY <1>4 DEF m, Set
  <2> HIDE DEF n
  <2>5. \A v \in Vehicles : Kept(n, v, br[r][v])
    BY <1>1, <1>4, <2>3 DEF Own, Kept, Releasable
  <2> QED
    BY <1>1, <1>2, <1>3, <1>4, <2>3, <2>4, <2>5, Without DEF Releasable
<1>5. CASE /\ Releasable(r) /\ rt[r].fd = "held" /\ lock' = None
           /\ Set(r, Rest([rt[r] EXCEPT !.fd = "none"], "closed")) /\ UNCHANGED faults
  BY <1>1, <1>4, <1>5
<1>6. CASE /\ Releasable(r) /\ rt[r].fd = "held" /\ Fault /\ lock' \in {lock, None}
           /\ Set(r, Rest([rt[r] EXCEPT !.fd = "unknown"], "open"))
  BY <1>1, <1>4, <1>6
<1>7. CASE Set(r, Rest(rt[r], "open")) /\ UNCHANGED <<lock, faults>>
  <2> DEFINE n == Rest(rt[r], "open")
  <2>1. /\ n \in RuntimeType /\ n.phase = "open" /\ n.fd = rt[r].fd /\ n.bridges = rt[r].bridges
        /\ n.paths = rt[r].paths /\ n.flush = rt[r].flush
    BY <1>1, RestFields DEF Phases
  <2>2. Set(r, n)
    BY <1>7
  <2> HIDE DEF n
  <2>3. Children'
    BY <1>1, <1>2 DEF Children
  <2> QED
    BY <1>1, <1>2, <1>7, <2>1, <2>2, <2>3, Continues
<1> QED
  BY <1>5, <1>6, <1>7 DEF ReleaseRuntimeLease

\* The files of a process that ends stay; it keeps nothing else.
LEMMA CrashHolds ==
  ASSUME IInv, NEW r \in Runtimes, Crash(r)
  PROVE  IInv'
<1> DEFINE m == [rt[r] EXCEPT !.fd = "none", !.bridges = {}, !.paths = {}, !.flush = FALSE]
           n == Rest(m, "dead")
           B == [v \in Vehicles |-> NoBridge]
<1>1. /\ rt' = [rt EXCEPT ![r] = n] /\ br' = [br EXCEPT ![r] = B] /\ Fault
      /\ lock' = IF lock = r THEN None ELSE lock
      /\ UNCHANGED <<socket, config, identity, child>>
  BY DEF Crash, Set
<1>2. rt[r] \in RuntimeType /\ faults' \in 0..MaxFaults
  BY <1>1, Facts
<1>3. m \in RuntimeType /\ m.fd = "none" /\ m.bridges = {} /\ m.paths = {}
  BY <1>2 DEF RuntimeType
<1>4. ~m.flush
  BY <1>2 DEF RuntimeType
<1> HIDE DEF m
<1>5. /\ n \in RuntimeType /\ n.phase = "dead" /\ n.fd = "none" /\ n.bridges = {} /\ n.paths = {}
      /\ ~n.flush
  BY <1>3, <1>4, RestFields DEF Phases
<1>6. NoBridge \in BridgeType /\ NoBridge.alive = {} /\ ~NoBridge.owned /\ NoBridge.stage = 0
  BY StageNumbers DEF NoBridge, BridgeType
<1>7. B \in [Vehicles -> BridgeType] /\ \A v \in Vehicles : B[v] = NoBridge
  BY <1>6
<1> HIDE DEF n, B
<1>8. \A v \in Vehicles : Kept(n, v, B[v])
  BY <1>5, <1>6, <1>7 DEF Kept
<1> QED
  BY <1>1, <1>2, <1>5, <1>7, <1>8, Without

(***************************************************************************)
(* The invariant, and what it says.                                        *)
(***************************************************************************)
LEMMA InitHolds == Init => IInv
<1> SUFFICES ASSUME Init PROVE IInv
  OBVIOUS
<1> DEFINE n == [phase |-> "new", at |-> 1, fd |-> "none", bridges |-> {}, paths |-> {},
                 flush |-> FALSE, pending |-> FALSE, stage |-> "none"]
           c == [pc |-> "none", temp |-> FALSE, key |-> None]
<1>1. /\ rt = [r \in Runtimes |-> n] /\ br = [r \in Runtimes |-> [v \in Vehicles |-> NoBridge]]
      /\ child = [r \in Runtimes |-> [v \in Vehicles |-> c]]
      /\ socket = [v \in Vehicles |-> None] /\ config = [v \in Vehicles |-> None]
      /\ identity = [v \in Vehicles |-> None] /\ lock = None /\ faults = 0
  BY DEF Init
<1>2. n \in RuntimeType /\ None \in Owners /\ None \notin Runtimes /\ MaxFaults \in Nat
  BY LifecycleAssumption DEF RuntimeType, Phases, Owners
<1>3. /\ NoBridge \in BridgeType /\ NoBridge.alive = {} /\ ~NoBridge.owned /\ NoBridge.stage = 0
  BY StageNumbers DEF NoBridge, BridgeType
<1>4. c \in ChildType /\ Child(c, None)
  BY <1>2 DEF ChildType, Child
<1>5. /\ n.phase = "new" /\ n.at = 1 /\ n.fd = "none" /\ n.bridges = {} /\ n.paths = {} /\ ~n.flush
  OBVIOUS
<1> HIDE DEF n, c
<1>6. Typed
  BY <1>1, <1>2, <1>3, <1>4 DEF Typed
<1>7. ASSUME NEW r \in Runtimes PROVE Own(r)
  <2>1. Holding(r, rt[r], lock) /\ Started(rt[r])
    BY <1>1, <1>5 DEF Holding, Started
  <2>2. \A v \in Vehicles : Kept(rt[r], v, br[r][v])
    BY <1>1, <1>3, <1>5, StageNumbers DEF Kept
  <2>3. \A v \in Vehicles : Files(r, rt[r], v, br[r][v], socket[v], config[v])
    BY <1>1, <1>2 DEF Files
  <2> QED
    BY <2>1, <2>2, <2>3 DEF Own
<1>8. \A r \in Runtimes, v \in Vehicles : Child(child[r][v], identity[v])
  BY <1>1, <1>4
<1> QED
  BY <1>6, <1>7, <1>8 DEF IInv

\* Every step keeps the invariant.
LEMMA Inductive == IInv /\ [Next]_vars => IInv'
<1> SUFFICES ASSUME IInv, [Next]_vars PROVE IInv'
  OBVIOUS
<1>1. CASE UNCHANGED vars
  BY <1>1 DEF vars, IInv, Typed, Own, Holding, Started, Kept, Files, Child
<1>2. ASSUME NEW r \in Runtimes,
             AcquireRuntimeLease(r) \/ EnsureIdentity(r) \/ StartServer(r) \/ StartSidecar(r) \/ Ready(r)
      PROVE  IInv'
  BY <1>2, AcquireHolds, EnsureIdentityHolds, StartServerHolds, StartSidecarHolds, ReadyHolds
<1>3. ASSUME NEW r \in Runtimes, CallClose(r) \/ CloseDeadline(r) \/ StopsLate(r) \/ Crash(r)
      PROVE  IInv'
  BY <1>3, CallCloseHolds, CloseDeadlineHolds, StopsLateHolds, CrashHolds
<1>4. ASSUME NEW r \in Runtimes, CloseStep(r) PROVE IInv'
  BY <1>4, StopFlushHolds, ForgetBridgesHolds, RemoveConfigsHolds, ReleaseRuntimeLeaseHolds DEF CloseStep
<1>5. ASSUME NEW r \in Runtimes, NEW v \in Vehicles,
             IdentityChild(r, v) \/ Connect(r, v) \/ BridgeStep(r, v) \/ BridgeDeadline(r, v)
      PROVE  IInv'
  BY <1>5, ChildrenHold, ConnectHolds, StopResourceHolds, EndBridgeHolds, BridgeDeadlineHolds
     DEF BridgeStep
<1> QED
  BY <1>1, <1>2, <1>3, <1>4, <1>5 DEF Next

\* The inductive invariant holds in every state the runtimes reach.
LEMMA Invariance == Spec => []IInv
BY InitHolds, Inductive, PTL DEF Spec

\* The types: attributes of the runtimes and their bridges, owners of the lock and the files; and
\* a descriptor that is open holds the lock.
THEOREM TypeCorrect == Spec => []TypeOK
<1>1. IInv => TypeOK
  <2> SUFFICES ASSUME IInv PROVE TypeOK
    OBVIOUS
  <2>1. lock \in Runtimes \cup {None} /\ faults \in 0..MaxFaults
    BY DEF IInv, Typed, Owners
  <2>2. ASSUME NEW r \in Runtimes
        PROVE  /\ rt[r].phase \in {"new", "starting", "running", "closing", "open", "closed", "dead"}
               /\ rt[r].fd \in {"none", "held", "unknown"} /\ (rt[r].fd = "held" => lock = r)
               /\ rt[r].bridges \subseteq Vehicles /\ rt[r].paths \subseteq Vehicles
    <3>1. rt[r] \in RuntimeType /\ Own(r)
      BY Facts
    <3> QED
      BY <3>1 DEF RuntimeType, Phases, Own, Holding
  <2>3. ASSUME NEW r \in Runtimes, NEW v \in Vehicles
        PROVE  br[r][v].alive \subseteq Kinds /\ br[r][v].stage \in 0..Done
    <3>1. br[r][v] \in BridgeType
      BY Facts
    <3> QED
      BY <3>1 DEF BridgeType
  <2> QED
    BY <2>1, <2>2, <2>3 DEF TypeOK
<1> QED
  BY <1>1, Invariance, PTL

\* _close and _release_runtime_lease: a process, server, writer, task, socket, configuration or
\* flush task that a runtime still has is covered by the lock on the directory, whichever steps
\* of which attempts to close failed, timed out or are still under way; a runtime that is closed
\* left neither socket nor configuration behind.
THEOREM LeaseCoversCleanup == Spec => []LeaseGuardsAll
<1>1. IInv => LeaseGuardsAll
  <2> SUFFICES ASSUME IInv, NEW r \in Runtimes, NEW v \in Vehicles
               PROVE  /\ \/ rt[r].flush \/ br[r][v].alive # {} \/ br[r][v].owned
                         \/ v \in rt[r].bridges \cup rt[r].paths
                         => lock = r
                      /\ rt[r].phase = "closed" => socket[v] # r /\ config[v] # r
    BY DEF LeaseGuardsAll
  <2>1. /\ Holding(r, rt[r], lock) /\ Kept(rt[r], v, br[r][v])
        /\ Files(r, rt[r], v, br[r][v], socket[v], config[v])
    BY Facts DEF Own
  <2>2. rt[r].fd # "held" => /\ ~rt[r].flush /\ rt[r].bridges = {} /\ rt[r].paths = {}
                             /\ br[r][v].alive = {} /\ ~br[r][v].owned
    BY <2>1 DEF Holding, Kept
  <2>3. rt[r].fd = "held" => lock = r
    BY <2>1 DEF Holding
  <2>4. rt[r].phase = "closed" => socket[v] # r /\ config[v] # r
    BY <2>1, <2>2 DEF Holding, Files
  <2> QED
    BY <2>2, <2>3, <2>4
<1> QED
  BY <1>1, Invariance, PTL

\* load_or_create_identity: whichever children of whichever runtimes run together, and wherever
\* one of them is killed, each that returns an identity returns the one in the file, and left no
\* temporary file.
THEOREM IdentityIsOne == Spec => []OneIdentity
<1>1. IInv => OneIdentity
  BY DEF IInv, Child, OneIdentity
<1> QED
  BY <1>1, Invariance, PTL

=============================================================================
