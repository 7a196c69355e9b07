----------------------------- MODULE SyncLifecycle -----------------------------
(***************************************************************************)
(* Life and death of the fleet's sidecars (map_sync.py, P2PFleetSync and   *)
(* _NodeBridge; map_sync_node.rs, load_or_create_identity): runtimes that  *)
(* share one directory, the flock on it, identity files, bridge sockets,   *)
(* configurations, and a cleanup every step of which may fail or time out. *)
(*                                                                         *)
(* A runtime starts along the program of _start: an identity, a bridge     *)
(* server and a sidecar for each vehicle.  Its _close and the _close of    *)
(* each bridge are tasks of their own, and a deadline may end either.      *)
(***************************************************************************)
EXTENDS Naturals, Sequences, FiniteSets

CONSTANTS
  R,          \* P2PFleetSync objects, in one process or several, by their first start
  Fleet,      \* the vehicles, in their order
  Stubborn,   \* resources that may not stop within PROCESS_STOP_TIMEOUT_S
  None,
  MaxFaults   \* bound: calls that fail

Runtimes == 1..R
N == Len(Fleet)
Vehicles == {Fleet[i] : i \in 1..N}

\* What a bridge holds, in the order in which _close stops it.
Stages == <<"process", "server", "writer", "task">>
Kinds == {Stages[i] : i \in DOMAIN Stages}
Last == Len(Stages) + 1
Done == Last + 1

ASSUME LifecycleAssumption ==
  /\ Fleet \in Seq(Vehicles) /\ Cardinality(Vehicles) = N /\ N > 0
  /\ Stubborn \subseteq Kinds /\ {R, MaxFaults} \subseteq Nat /\ None \notin Runtimes

VARIABLES
  lock,     \* who holds the flock on .fleet.lock
  rt,       \* the attributes of each P2PFleetSync and where its start or close is
  br,       \* each runtime's bridges and where their close is
  socket, config, identity, \* for each vehicle: whose socket, configuration and key the files are
  child,    \* the identity children of each runtime
  faults

vars == <<lock, rt, br, socket, config, identity, child, faults>>

NoBridge == [alive |-> {}, owned |-> FALSE, stage |-> 0, pending |-> FALSE]

Init ==
  /\ lock = None
  /\ rt = [r \in Runtimes |-> [phase |-> "new", at |-> 1, fd |-> "none", bridges |-> {},
             paths |-> {}, flush |-> FALSE, pending |-> FALSE, stage |-> "none"]]
  /\ br = [r \in Runtimes |-> [v \in Vehicles |-> NoBridge]]
  /\ socket = [v \in Vehicles |-> None] /\ config = [v \in Vehicles |-> None]
  /\ identity = [v \in Vehicles |-> None]
  /\ child = [r \in Runtimes |-> [v \in Vehicles |-> [pc |-> "none", temp |-> FALSE, key |-> None]]]
  /\ faults = 0

Fault == faults < MaxFaults /\ faults' = faults + 1
SetBridge(r, v, b) == br' = [br EXCEPT ![r][v] = b]

\* What runs in the process of r and listens there.
Listening(v) == \E r \in Runtimes : br[r][v].stage <= 2 /\ "server" \in br[r][v].alive /\ socket[v] = r

(***************************************************************************)
(* The identity file: "map-sync-node identity PATH", one child per vehicle *)
(* and runtime.  The key is named after the runtime whose child made it.   *)
(***************************************************************************)
ChildStep(r, v, c) == child' = [child EXCEPT ![r][v] = c]

\* existing_identity.
ReadIdentity(r, v) ==
  /\ child[r][v].pc \in {"read", "again"}
  /\ IF identity[v] # None
       THEN ChildStep(r, v, [child[r][v] EXCEPT !.pc = "done", !.key = identity[v]])
       ELSE ChildStep(r, v, [child[r][v] EXCEPT !.pc = IF @ = "read" THEN "write" ELSE "failed"])
  /\ UNCHANGED identity

\* create_identity_temporary, write and sync.
WriteTemporary(r, v) ==
  /\ child[r][v].pc = "write"
  /\ ChildStep(r, v, [child[r][v] EXCEPT !.pc = "link", !.temp = TRUE])
  /\ UNCHANGED identity

\* linkat never replaces.
LinkIdentityReplacing(r, v) ==
  /\ child[r][v].pc = "link"
  /\ identity' = [identity EXCEPT ![v] = r]
  /\ ChildStep(r, v, [child[r][v] EXCEPT !.pc = "unlink", !.key = r])
LinkIdentity(r, v) ==
  /\ child[r][v].pc = "link"
  /\ identity' = [identity EXCEPT ![v] = IF @ = None THEN r ELSE @]
  /\ ChildStep(r, v, [child[r][v] EXCEPT !.pc = "unlink", !.key = IF identity[v] = None THEN r ELSE None])

UnlinkTemporary(r, v) ==
  /\ child[r][v].pc = "unlink"
  /\ ChildStep(r, v, [child[r][v] EXCEPT !.temp = FALSE, !.pc = IF child[r][v].key = None
                                                               THEN "again" ELSE "done"])
  /\ UNCHANGED identity

IdentityChild(r, v) ==
  /\ ReadIdentity(r, v) \/ WriteTemporary(r, v) \/ LinkIdentity(r, v) \/ UnlinkTemporary(r, v)
  /\ UNCHANGED <<lock, rt, br, socket, config, faults>>

(***************************************************************************)
(* start.  Whatever fails in it, close is called next.                     *)
(***************************************************************************)
Set(r, fields) == rt' = [rt EXCEPT ![r] = fields]
Starting(r, part) == rt[r].phase = "starting" /\ (rt[r].at - 1) \div N = part
Next1(r) == Fleet[((rt[r].at - 1) % N) + 1]
Rest(n, phase) == [n EXCEPT !.phase = phase, !.at = 1, !.stage = "none", !.pending = FALSE]
StartFails(r) == Set(r, Rest(rt[r], "open"))

\* _acquire_runtime_lease.  A start that finds the flock held fails before it owns
\* anything, and may be tried anew.
AcquireRuntimeLease(r) ==
  /\ rt[r].phase = "new" /\ lock = None
  /\ \A q \in 1..(r - 1) : rt[q].phase # "new"
  /\ lock' = r /\ Set(r, [rt[r] EXCEPT !.phase = "starting", !.fd = "held"])
  /\ UNCHANGED <<br, socket, config, identity, child, faults>>

\* _ensure_identity.  A child that is not done in time is terminated and killed; it may
\* outlive even that, and nobody owns it then.
EnsureIdentity(r) ==
  /\ Starting(r, 0)
  /\ LET v == Next1(r) IN
       \/ /\ child[r][v].pc = "none"
          /\ ChildStep(r, v, [child[r][v] EXCEPT !.pc = "read"])
          /\ UNCHANGED <<rt, faults>>
       \/ /\ child[r][v].pc = "done"
          /\ Set(r, [rt[r] EXCEPT !.at = @ + 1])
          /\ UNCHANGED <<child, faults>>
       \/ /\ child[r][v].pc # "none" /\ Fault
          /\ StartFails(r)
          /\ \/ UNCHANGED child
             \/ ChildStep(r, v, [child[r][v] EXCEPT !.pc = "killed"])
       \/ /\ child[r][v].pc = "failed"
          /\ StartFails(r)
          /\ UNCHANGED <<child, faults>>
  /\ UNCHANGED <<lock, br, socket, config, identity>>

\* The bridge and its start_server, after _remove_stale_socket.
StartServer(r) ==
  /\ Starting(r, 1)
  /\ LET v == Next1(r)
         n == [rt[r] EXCEPT !.bridges = @ \cup {v}] IN
       \/ /\ ~Listening(v)
          /\ socket' = [socket EXCEPT ![v] = r]
          /\ SetBridge(r, v, [NoBridge EXCEPT !.alive = {"server", "task"}, !.owned = TRUE])
          /\ Set(r, [n EXCEPT !.at = @ + 1])
          /\ UNCHANGED faults
       \/ /\ Listening(v) \/ faults < MaxFaults
          /\ faults' = IF Listening(v) THEN faults ELSE faults + 1
          /\ Set(r, Rest(n, "open"))
          /\ UNCHANGED <<socket, br>>
  /\ UNCHANGED <<lock, config, identity, child>>

\* The configuration is registered before it is written, then the sidecar is spawned.
StartSidecar(r) ==
  /\ Starting(r, 2)
  /\ LET v == Next1(r)
         n == [rt[r] EXCEPT !.paths = @ \cup {v}] IN
       \/ /\ config' = [config EXCEPT ![v] = r]
          /\ SetBridge(r, v, [br[r][v] EXCEPT !.alive = @ \cup {"process"}])
          /\ Set(r, [n EXCEPT !.at = @ + 1])
          /\ UNCHANGED faults
       \/ /\ Fault
          /\ config' \in {config, [config EXCEPT ![v] = r]}
          /\ Set(r, Rest(n, "open"))
          /\ UNCHANGED br
  /\ UNCHANGED <<lock, socket, identity, child>>

\* The sidecars have connected and are ready and the mesh is up, or that took too long.
Ready(r) ==
  /\ Starting(r, 3)
  /\ \/ /\ \A v \in Vehicles : "writer" \in br[r][v].alive
        /\ Set(r, Rest([rt[r] EXCEPT !.flush = TRUE], "running"))
        /\ UNCHANGED faults
     \/ Fault /\ StartFails(r)
  /\ UNCHANGED <<lock, br, socket, config, identity, child>>

\* The sidecar connects to its socket.
Connect(r, v) ==
  /\ {"process", "server"} \subseteq br[r][v].alive /\ br[r][v].stage < 2
  /\ socket[v] = r /\ "writer" \notin br[r][v].alive
  /\ SetBridge(r, v, [br[r][v] EXCEPT !.alive = @ \cup {"writer", "task"}])
  /\ UNCHANGED <<lock, rt, socket, config, identity, child, faults>>

(***************************************************************************)
(* close.                                                                  *)
(***************************************************************************)
\* One _close task at a time; who calls close meanwhile waits for it.
CallClose(r) ==
  /\ rt[r].phase \in {"running", "open"}
  /\ Set(r, [rt[r] EXCEPT !.phase = "closing", !.stage = "flush", !.pending = FALSE])
  /\ UNCHANGED <<lock, br, socket, config, identity, child, faults>>

\* The flush task is cancelled; then every bridge is closed.  The close of a bridge that
\* still runs from an earlier attempt is joined.
StopFlush(r) ==
  /\ rt[r].phase = "closing" /\ rt[r].stage = "flush"
  /\ \/ /\ Set(r, [rt[r] EXCEPT !.flush = FALSE, !.stage = "bridges"])
        /\ UNCHANGED faults
     \/ /\ rt[r].flush /\ Fault
        /\ Set(r, [rt[r] EXCEPT !.pending = TRUE, !.stage = "bridges"])
  /\ br' = [br EXCEPT ![r] = [v \in Vehicles |->
              IF v \in rt[r].bridges /\ br[r][v].stage \in {0, Done}
                THEN [br[r][v] EXCEPT !.stage = 1, !.pending = FALSE] ELSE br[r][v]]]
  /\ UNCHANGED <<lock, socket, config, identity, child>>

\* _NodeBridge._close: the process, the server, the writers and the tasks, whatever the
\* ones before did.  Read tasks close their writer themselves.
StopResource(r, v) ==
  /\ br[r][v].stage \in DOMAIN Stages
  /\ LET k == Stages[br[r][v].stage]
         left == {i \in DOMAIN Stages : i > br[r][v].stage /\ Stages[i] \in br[r][v].alive}
         next == CHOOSE i \in left \cup {Last} : \A j \in left : i <= j
         b == [br[r][v] EXCEPT !.stage = next] IN
       \/ SetBridge(r, v, [b EXCEPT !.alive = @ \ {k}])
       \/ /\ k \in br[r][v].alive \cap Stubborn
          /\ SetBridge(r, v, [b EXCEPT !.pending = TRUE])
  /\ UNCHANGED <<lock, rt, socket, config, identity, child, faults>>

\* _remove_owned_socket, if the server is gone, and the result.
EndBridge(r, v) ==
  /\ br[r][v].stage = Last
  /\ LET b == [br[r][v] EXCEPT !.stage = Done] IN
       \/ /\ "server" \notin b.alive
          /\ socket' = [socket EXCEPT ![v] = IF b.owned /\ @ = r THEN None ELSE @]
          /\ SetBridge(r, v, [b EXCEPT !.owned = FALSE, !.pending = @ \/ b.alive # {}])
          /\ UNCHANGED faults
       \/ /\ "server" \notin b.alive /\ b.owned /\ Fault
          /\ SetBridge(r, v, [b EXCEPT !.pending = TRUE])
          /\ UNCHANGED socket
       \/ /\ "server" \in b.alive
          /\ SetBridge(r, v, [b EXCEPT !.pending = TRUE])
          /\ UNCHANGED <<socket, faults>>
  /\ UNCHANGED <<lock, rt, config, identity, child>>

\* The deadline of the bridge's close: the task is cancelled where it is.
BridgeDeadline(r, v) ==
  /\ br[r][v].stage \in 2..Last /\ br[r][v].pending
  /\ SetBridge(r, v, [br[r][v] EXCEPT !.stage = Done])
  /\ UNCHANGED <<lock, rt, socket, config, identity, child, faults>>

\* The bridges that are closed are forgotten, also those that are closed with an error.
ForgetEvery(r) ==
  /\ rt[r].phase = "closing" /\ rt[r].stage = "bridges"
  /\ LET finished == {v \in rt[r].bridges : br[r][v].stage = Done} IN
       /\ finished = rt[r].bridges
       /\ Set(r, [rt[r] EXCEPT !.stage = "configs", !.bridges = @ \ finished])
       /\ br' = [br EXCEPT ![r] = [v \in Vehicles |->
                   IF v \in finished THEN [br[r][v] EXCEPT !.stage = 0, !.pending = FALSE] ELSE br[r][v]]]
  /\ UNCHANGED <<lock, socket, config, identity, child, faults>>
ForgetBridges(r) ==
  /\ rt[r].phase = "closing" /\ rt[r].stage = "bridges"
  /\ LET finished == {v \in rt[r].bridges : br[r][v].stage = Done}
         kept == {v \in rt[r].bridges : v \in finished => br[r][v].pending} IN
       /\ finished = rt[r].bridges \/ \E v \in rt[r].bridges : br[r][v].pending
       /\ Set(r, [rt[r] EXCEPT !.stage = "configs", !.bridges = kept, !.pending = @ \/ kept # {}])
       /\ br' = [br EXCEPT ![r] = [v \in Vehicles |->
                   IF v \in finished THEN [br[r][v] EXCEPT !.stage = 0, !.pending = FALSE] ELSE br[r][v]]]
  /\ UNCHANGED <<lock, socket, config, identity, child, faults>>

\* The configurations are removed when no sidecar can read them any more.
RemoveConfigsNotMissing(r) ==
  /\ rt[r].phase = "closing" /\ rt[r].stage = "configs"
  /\ LET gone == IF rt[r].bridges = {} THEN {v \in rt[r].paths : config[v] = r} ELSE {} IN
       /\ config' = [v \in Vehicles |-> IF v \in gone THEN None ELSE config[v]]
       /\ Set(r, [rt[r] EXCEPT !.paths = @ \ gone, !.stage = "release"])
  /\ UNCHANGED <<lock, br, socket, identity, child, faults>>
RemoveConfigs(r) ==
  /\ rt[r].phase = "closing" /\ rt[r].stage = "configs"
  /\ \E failed \in IF rt[r].bridges = {} /\ faults < MaxFaults THEN SUBSET rt[r].paths ELSE {{}} :
       LET gone == IF rt[r].bridges = {} THEN rt[r].paths \ failed ELSE {} IN
         /\ config' = [v \in Vehicles |-> IF v \in gone THEN None ELSE config[v]]
         /\ Set(r, [rt[r] EXCEPT !.paths = @ \ gone, !.pending = @ \/ failed # {}, !.stage = "release"])
         /\ faults' = IF failed = {} THEN faults ELSE faults + 1
  /\ UNCHANGED <<lock, br, socket, identity, child>>

\* _release_runtime_lease: closing the descriptor releases the flock.  When that call
\* fails nobody knows whether it did, and the number may be another's by now.
Releasable(r) ==
  ~rt[r].pending /\ ~rt[r].flush /\ rt[r].bridges = {} /\ rt[r].paths = {}

ReleaseRuntimeLeaseAgain(r) ==
  /\ rt[r].phase = "closing" /\ rt[r].stage = "release"
  /\ \/ /\ Releasable(r)
        /\ lock' = None
        /\ Set(r, Rest([rt[r] EXCEPT !.fd = "none"], "closed"))
        /\ UNCHANGED faults
     \/ /\ Releasable(r) /\ rt[r].fd = "held" /\ Fault
        /\ lock' \in {lock, None}
        /\ Set(r, Rest([rt[r] EXCEPT !.fd = "unknown"], "open"))
     \/ /\ ~Releasable(r)
        /\ Set(r, Rest(rt[r], "open"))
        /\ UNCHANGED <<lock, faults>>
  /\ UNCHANGED <<br, socket, config, identity, child>>
ReleaseRuntimeLease(r) ==
  /\ rt[r].phase = "closing" /\ rt[r].stage = "release"
  /\ \/ /\ Releasable(r) /\ rt[r].fd = "held"
        /\ lock' = None
        /\ Set(r, Rest([rt[r] EXCEPT !.fd = "none"], "closed"))
        /\ UNCHANGED faults
     \/ /\ Releasable(r) /\ rt[r].fd = "held" /\ Fault
        /\ lock' \in {lock, None}
        /\ Set(r, Rest([rt[r] EXCEPT !.fd = "unknown"], "open"))
     \/ /\ ~Releasable(r) \/ rt[r].fd = "unknown"
        /\ Set(r, Rest(rt[r], "open"))
        /\ UNCHANGED <<lock, faults>>
  /\ UNCHANGED <<br, socket, config, identity, child>>

\* The deadline of the whole close; the close of the bridges goes on.
CloseDeadline(r) ==
  /\ rt[r].phase = "closing" /\ rt[r].stage \in {"bridges", "configs", "release"}
  /\ rt[r].pending \/ \E v \in rt[r].bridges : br[r][v].pending
  /\ Set(r, Rest(rt[r], "open"))
  /\ UNCHANGED <<lock, br, socket, config, identity, child, faults>>

\* What was told to stop stops after all.
StopsLate(r) ==
  /\ rt[r].phase \in {"closing", "open"}
  /\ \/ /\ rt[r].flush
        /\ Set(r, [rt[r] EXCEPT !.flush = FALSE])
        /\ UNCHANGED br
     \/ \E v \in Vehicles, k \in Stubborn :
          /\ k \in br[r][v].alive
          /\ SetBridge(r, v, [br[r][v] EXCEPT !.alive = @ \ {k}])
          /\ UNCHANGED rt
  /\ UNCHANGED <<lock, socket, config, identity, child, faults>>

\* The process ends: the system releases the flock, the files stay.
Crash(r) ==
  /\ rt[r].phase \notin {"new", "closed", "dead"} /\ Fault
  /\ lock' = IF lock = r THEN None ELSE lock
  /\ Set(r, Rest([rt[r] EXCEPT !.fd = "none", !.bridges = {}, !.paths = {}, !.flush = FALSE], "dead"))
  /\ br' = [br EXCEPT ![r] = [v \in Vehicles |-> NoBridge]]
  /\ UNCHANGED <<socket, config, identity, child>>

BridgeStep(r, v) == StopResource(r, v) \/ EndBridge(r, v)
CloseStep(r) == StopFlush(r) \/ ForgetBridges(r) \/ RemoveConfigs(r) \/ ReleaseRuntimeLease(r)

Next ==
  \E r \in Runtimes :
    \/ AcquireRuntimeLease(r) \/ EnsureIdentity(r) \/ StartServer(r) \/ StartSidecar(r) \/ Ready(r)
    \/ CallClose(r) \/ CloseStep(r) \/ CloseDeadline(r) \/ StopsLate(r) \/ Crash(r)
    \/ \E v \in Vehicles :
         IdentityChild(r, v) \/ Connect(r, v) \/ BridgeStep(r, v) \/ BridgeDeadline(r, v)

Spec == Init /\ [][Next]_vars

\* The event loop runs its tasks, what was told to stop stops some day, and the owner of a
\* runtime calls close until it is closed.
FairSpec ==
  /\ Spec
  /\ \A r \in Runtimes :
       /\ WF_vars(CallClose(r)) /\ WF_vars(CloseStep(r)) /\ WF_vars(StopsLate(r))
       /\ \A v \in Vehicles : WF_vars(BridgeStep(r, v))

(***************************************************************************)
(* Properties                                                              *)
(***************************************************************************)
TypeOK ==
  /\ lock \in Runtimes \cup {None} /\ faults \in 0..MaxFaults
  /\ \A r \in Runtimes :
       /\ rt[r].phase \in {"new", "starting", "running", "closing", "open", "closed", "dead"}
       /\ rt[r].fd \in {"none", "held", "unknown"} /\ rt[r].fd = "held" => lock = r
       /\ rt[r].bridges \subseteq Vehicles /\ rt[r].paths \subseteq Vehicles
       /\ \A v \in Vehicles : br[r][v].alive \subseteq Kinds /\ br[r][v].stage \in 0..Done

\* Whatever a runtime keeps alive or on disk, it holds the lease on the directory while it
\* does (test_stubborn_bridge_handler_keeps_runtime_lease_until_retry): no failure, timeout
\* or deadline of its close lets another runtime start beside it.  Identity children that
\* outlive their kill are nobody's.
LeaseGuardsAll ==
  \A r \in Runtimes, v \in Vehicles :
    /\ rt[r].flush \/ br[r][v].alive # {} \/ br[r][v].owned \/ v \in rt[r].bridges \cup rt[r].paths => lock = r
    /\ rt[r].phase = "closed" => socket[v] # r /\ config[v] # r

\* Every child that returns an identity returns the one in the file, whichever runtimes'
\* children ran together and wherever one was killed; and a finished child left no temporary.
OneIdentity ==
  \A r \in Runtimes, v \in Vehicles :
    child[r][v].pc = "done" => child[r][v].key = identity[v] /\ ~child[r][v].temp

\* A close that is called until it succeeds does, whatever was stubborn, unless the lease's
\* release had an unknown outcome.
CloseEnds ==
  \A r \in Runtimes :
    rt[r].phase = "closing" ~> rt[r].phase \in {"closed", "dead"} \/ rt[r].fd = "unknown"
=============================================================================
