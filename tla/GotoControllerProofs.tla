------------------------- MODULE GotoControllerProofs -------------------------
(***************************************************************************)
(* However a search for a stop near the goal is spread over ticks, waits   *)
(* and probes: a mission is given up for want of a path only if there is   *)
(* none, and waits only while there are peers.  For any number of          *)
(* candidates and any set of situations.                                   *)
(***************************************************************************)
EXTENDS GotoController, FiniteSetTheorems, TLAPS

(***************************************************************************)
(* The inductive invariant.                                                *)
(***************************************************************************)
Flags == {"final", "waiting", "restart", "probe", "attributed", "grace", "candidate", "skip",
          "stop", "blame", "recovered"}
Fields == Flags \cup {"status", "reason", "mode", "goal", "path", "target", "planning", "index",
                     "inspections"}

IsNav(n) ==
  /\ DOMAIN n = Fields
  /\ n.status \in {"idle", "active", "blocked", "reached", "cancelled"}
  /\ n.reason \in {None, "no_path", "safety"}
  /\ n.mode \in {None, "exact", "approaching_safe_stop", "nearby_safe"}
  /\ n.goal \in Goals /\ n.path \in Goals \cup {None} /\ n.target \in {None, "step", "goal"}
  /\ n.planning \in {None, "goal", "candidate"}
  /\ n.index \in 0..Len(Nearby) /\ n.inspections \in 0..MaxInspections
  /\ \A f \in Flags : n[f] \in BOOLEAN

Parts == {"idle", "plan", "search", "drive", "classify", "coordinate"}

Typed ==
  /\ IsNav(nav) /\ world \in Worlds
  /\ pc \in Parts
  /\ {delta, missed, quiet, there, moved} \subseteq BOOLEAN

Following(n) == n.status = "active" /\ n.planning = None /\ ~n.waiting /\ ~n.probe

\* The controller does one thing at a time.
Shaped(n) ==
  /\ n.status # "active" => n.planning = None /\ ~n.probe
  /\ n.waiting => n.status = "active" \/ (n.status = "reached" /\ n.mode = "nearby_safe")
  /\ n.restart => n.waiting /\ n.status = "active"
  /\ n.candidate => n.planning = "candidate" /\ 0 < n.index /\ n.goal = Nearby[n.index]
  /\ n.status = "active" =>
       /\ n.planning # None => ~n.waiting /\ ~n.probe /\ n.target = None
       /\ n.waiting => ~n.probe
       /\ n.waiting \/ n.probe => n.path = None /\ n.target = None
  /\ Following(n) => n.path = n.goal

GivesUp(n) == \/ n.status = "blocked" /\ n.reason = "no_path"
              \/ n.status = "active" /\ n.probe

\* What part p of a tick relies on.
InStep(n, p) ==
  /\ p = "plan" => n.status = "active" /\ n.planning = "goal"
  /\ p = "search" => n.status = "active" /\ n.planning = "candidate"
  /\ p = "drive" => Following(n)
  /\ p = "classify" => GivesUp(n)

\* A search for a candidate knows of everything behind it that only peers close.
Searched(n) ==
  /\ n.blame => world.peers
  /\ Open(Exact) => n.blame
  /\ n.skip => world.way[Exact] # "none" /\ (world.way[Exact] = "peer" => n.blame)
  /\ \A k \in 1..n.index : (n.candidate => k # n.index) /\ Open(Nearby[k]) => n.blame

\* What giving up on goal g needs.
Right(g) == (\A h \in Goals : ~Open(h)) \/ (at = g /\ there /\ ~world.seen[g])

Sound(n) ==
  /\ n.planning = "goal" => n.goal = Exact
  /\ n.planning = "candidate" => Searched(n)
  /\ Following(n) /\ n.mode # "exact" => world.here[n.goal] = "none"
  /\ n.status = "active" /\ n.waiting => world.peers
  /\ n.status = "active" /\ n.probe /\ n.attributed => world.peers
  /\ GivesUp(n) /\ n.inspections < MaxInspections => Right(n.goal)

IInv ==
  /\ Typed /\ Shaped(nav) /\ InStep(nav, pc)
  /\ quiet /\ ~missed => Sound(nav)

(***************************************************************************)
(* What the operators on the attributes do.                                *)
(***************************************************************************)
Same(m, n, S) == \A f \in Fields \ S : m[f] = n[f]

\* Candidates are counted, and every goal is the requested one or a candidate.
LEMMA Constants ==
  /\ Len(Nearby) \in Nat /\ MaxInspections \in Nat /\ Exact \in Goals
  /\ \A k \in 1..Len(Nearby) : Nearby[k] \in Goals
  /\ \A g \in Goals : g = Exact \/ \E k \in 1..Len(Nearby) : g = Nearby[k]
  /\ None \notin Goals
BY GotoAssumption, NoneAssumption DEF Goals

\* _clear_pending_planning ends the planning and nothing else.
LEMMA ClearedFields ==
  ASSUME NEW n, IsNav(n)
  PROVE  LET m == Cleared(n) IN
         /\ IsNav(m)
         /\ m.planning = None /\ m.index = 0 /\ ~m.candidate /\ ~m.skip /\ ~m.blame
         /\ Same(m, n, {"planning", "index", "candidate", "skip", "blame"})
<1>1. IsNav(Cleared(n))
  BY Constants DEF IsNav, Cleared, Fields, Flags
<1>2. Same(Cleared(n), n, {"planning", "index", "candidate", "skip", "blame"})
  BY DEF IsNav, Cleared, Fields, Flags, Same
<1> QED
  BY <1>1, <1>2 DEF IsNav, Cleared, Fields, Flags

\* A wait, and the probe of the own map, end together.
LEMMA NotWaitingFields ==
  ASSUME NEW n, IsNav(n)
  PROVE  LET m == NotWaiting(n) IN
         /\ IsNav(m)
         /\ ~m.waiting /\ ~m.restart /\ ~m.probe /\ ~m.attributed
         /\ Same(m, n, {"waiting", "restart", "probe", "attributed"})
<1>1. IsNav(NotWaiting(n))
  BY Constants DEF IsNav, NotWaiting, Fields, Flags
<1>2. Same(NotWaiting(n), n, {"waiting", "restart", "probe", "attributed"})
  BY DEF IsNav, NotWaiting, Fields, Flags, Same
<1> QED
  BY <1>1, <1>2 DEF IsNav, NotWaiting, Fields, Flags

\* Both at once: nothing is planned, waited for or probed.
Fresh(n) == Cleared(NotWaiting(n))
Plans == {"planning", "index", "candidate", "skip", "blame", "waiting", "restart", "probe",
          "attributed"}

\* What both leave.
LEMMA FreshFields ==
  ASSUME NEW n, IsNav(n)
  PROVE  LET m == Fresh(n) IN
         /\ IsNav(m)
         /\ m.planning = None /\ m.index = 0 /\ ~m.candidate /\ ~m.skip /\ ~m.blame
         /\ ~m.waiting /\ ~m.restart /\ ~m.probe /\ ~m.attributed
         /\ Same(m, n, Plans)
<1> DEFINE o == NotWaiting(n)
           m == Cleared(o)
<1>1. /\ IsNav(o)
      /\ ~o.waiting /\ ~o.restart /\ ~o.probe /\ ~o.attributed
      /\ Same(o, n, {"waiting", "restart", "probe", "attributed"})
  BY NotWaitingFields
<1> HIDE DEF o
<1>2. /\ IsNav(m)
      /\ m.planning = None /\ m.index = 0 /\ ~m.candidate /\ ~m.skip /\ ~m.blame
      /\ Same(m, o, {"planning", "index", "candidate", "skip", "blame"})
  BY <1>1, ClearedFields
<1> HIDE DEF m
<1>3. ~m.waiting /\ ~m.restart /\ ~m.probe /\ ~m.attributed
  BY <1>1, <1>2 DEF Same, Fields, Flags
<1>4. Same(m, n, Plans)
  BY <1>1, <1>2 DEF Same, Fields, Flags, Plans
<1> QED
  BY <1>2, <1>3, <1>4 DEF Fresh, o, m

\* block ends everything the controller was about to do.
LEMMA BlockedFields ==
  ASSUME NEW n, IsNav(n), NEW r \in {None, "no_path", "safety"}
  PROVE  LET m == Blocked(n, r) IN
         /\ IsNav(m) /\ Shaped(m)
         /\ m.status = "blocked" /\ m.reason = r
         /\ m.goal = n.goal /\ m.inspections = n.inspections
<1> DEFINE o == Fresh(n)
           m == [o EXCEPT !.status = "blocked", !.reason = r, !.final = FALSE, !.stop = FALSE]
<1>1. /\ IsNav(o) /\ ~o.waiting /\ ~o.restart /\ ~o.probe /\ ~o.candidate /\ o.planning = None
      /\ o.goal = n.goal /\ o.inspections = n.inspections
  BY FreshFields DEF Same, Plans, Fields, Flags
<1> HIDE DEF o
<1>2. IsNav(m)
  BY <1>1 DEF IsNav, Fields, Flags
<1>3. /\ m.status = "blocked" /\ m.reason = r
      /\ m.goal = o.goal /\ m.inspections = o.inspections
      /\ ~m.waiting /\ ~m.restart /\ ~m.probe /\ ~m.candidate /\ m.planning = None
  BY <1>1 DEF IsNav, Fields, Flags
<1> HIDE DEF m
<1>4. Shaped(m)
  BY <1>3 DEF Shaped, Following
<1>5. Blocked(n, r) = m
  BY DEF Blocked, Fresh, o, m
<1> QED
  BY <1>1, <1>2, <1>3, <1>4, <1>5

\* A wait replaces planning, path and waypoint; it is right while there are peers.
LEMMA WaitsFields ==
  ASSUME NEW n, IsNav(n), NEW r \in BOOLEAN
  PROVE  LET m == Waits(n, r) IN
         /\ IsNav(m) /\ Shaped(m) /\ (world.peers => Sound(m))
         /\ m.status = "active"
<1> DEFINE o == Fresh(n)
           m == [o EXCEPT !.status = "active", !.reason = None, !.path = None,
                          !.target = None, !.waiting = TRUE, !.restart = r]
<1>1. /\ IsNav(o) /\ ~o.probe /\ ~o.candidate /\ o.planning = None
  BY FreshFields
<1> HIDE DEF o
<1>2. IsNav(m)
  BY <1>1 DEF IsNav, Fields, Flags
<1>3. /\ m.status = "active" /\ m.path = None /\ m.target = None /\ m.planning = None
      /\ m.waiting /\ ~m.probe /\ ~m.candidate
  BY <1>1 DEF IsNav, Fields, Flags
<1> HIDE DEF m
<1>4. Shaped(m)
  BY <1>3 DEF Shaped, Following
<1>5. world.peers => Sound(m)
  BY <1>3, NoneAssumption DEF Sound, Following, GivesUp
<1>6. Waits(n, r) = m
  BY DEF Waits, Fresh, o, m
<1> QED
  BY <1>2, <1>3, <1>4, <1>5, <1>6

\* Giving up, or waiting for the peers that are to blame.
LEMMA BlockNoPathFields ==
  ASSUME NEW n, IsNav(n), NEW peer \in BOOLEAN
  PROVE  LET m == BlockNoPath(n, peer) IN
         /\ IsNav(m) /\ Shaped(m)
         /\ m.status \in {"active", "blocked"}
         /\ m.status = "blocked" => m.reason = "no_path"
         /\ (peer => world.peers) /\ (~peer /\ n.inspections < MaxInspections => Right(n.goal))
              => Sound(m)
<1>1. CASE peer
  <2>1. BlockNoPath(n, peer) = Waits(n, FALSE)
    BY <1>1 DEF BlockNoPath
  <2> QED
    BY <1>1, <2>1, WaitsFields
<1>2. CASE ~peer
  <2> DEFINE o == Blocked(n, "no_path")
             m == [o EXCEPT !.path = None, !.target = None]
  <2>1. /\ IsNav(o) /\ Shaped(o) /\ o.status = "blocked" /\ o.reason = "no_path"
        /\ o.goal = n.goal /\ o.inspections = n.inspections
    BY BlockedFields
  <2> HIDE DEF o
  <2>2. IsNav(m)
    BY <2>1 DEF IsNav, Fields, Flags
  <2>3. /\ m.status = "blocked" /\ m.reason = "no_path" /\ m.goal = n.goal
        /\ m.inspections = n.inspections
        /\ m.planning = o.planning /\ m.waiting = o.waiting /\ m.probe = o.probe
        /\ m.restart = o.restart /\ m.candidate = o.candidate
    BY <2>1 DEF IsNav, Fields, Flags
  <2> HIDE DEF m
  <2>4. ~m.waiting /\ ~m.restart /\ ~m.probe /\ ~m.candidate /\ m.planning = None
    BY <2>1, <2>3, NoneAssumption DEF Shaped
  <2>5. Shaped(m)
    BY <2>3, <2>4 DEF Shaped, Following
  <2>6. (n.inspections < MaxInspections => Right(n.goal)) => Sound(m)
    BY <2>3, <2>4, NoneAssumption DEF Sound, Following, GivesUp
  <2>7. BlockNoPath(n, peer) = m
    BY <1>2 DEF BlockNoPath, o, m
  <2> QED
    BY <1>2, <2>2, <2>3, <2>5, <2>6, <2>7
<1> QED
  BY <1>1, <1>2

\* A path is found: the vehicle drives.
LEMMA CompletedFields ==
  ASSUME NEW n, IsNav(n),
         NEW mode \in {None, "exact", "approaching_safe_stop", "nearby_safe"}
  PROVE  LET m == [Completed(n) EXCEPT !.mode = mode] IN
         /\ IsNav(m) /\ Shaped(m) /\ Following(m)
         /\ (mode # "exact" => world.here[n.goal] = "none") => Sound(m)
<1> DEFINE o == Fresh(n)
           c == [o EXCEPT !.status = "active", !.reason = None, !.path = n.goal,
                          !.target = None]
           m == [c EXCEPT !.mode = mode]
<1>1. /\ IsNav(o) /\ o.planning = None /\ o.goal = n.goal
      /\ ~o.probe /\ ~o.candidate /\ ~o.waiting /\ ~o.restart
  BY FreshFields DEF Same, Plans, Fields, Flags
<1>2. n.goal \in Goals
  BY DEF IsNav
<1> HIDE DEF o
<1>3. IsNav(c)
  BY <1>1, <1>2 DEF IsNav, Fields, Flags
<1>4. /\ c.status = "active" /\ c.path = n.goal /\ c.goal = n.goal /\ c.planning = None
      /\ ~c.probe /\ ~c.candidate /\ ~c.waiting /\ ~c.restart
  BY <1>1 DEF IsNav, Fields, Flags
<1> HIDE DEF c
<1>5. IsNav(m)
  BY <1>3 DEF IsNav, Fields, Flags
<1>6. /\ m.status = "active" /\ m.path = n.goal /\ m.goal = n.goal /\ m.planning = None
      /\ m.mode = mode
      /\ ~m.probe /\ ~m.candidate /\ ~m.waiting /\ ~m.restart
  BY <1>3, <1>4 DEF IsNav, Fields, Flags
<1> HIDE DEF m
<1>7. Shaped(m) /\ Following(m)
  BY <1>6 DEF Shaped, Following
<1>8. (mode # "exact" => world.here[n.goal] = "none") => Sound(m)
  BY <1>6, NoneAssumption DEF Sound, Following, GivesUp
<1>9. [Completed(n) EXCEPT !.mode = mode] = m
  BY DEF Completed, Fresh, o, c, m
<1> QED
  BY <1>5, <1>7, <1>8, <1>9

\* A search for a stop nearby begins, blaming peers or not.
LEMMA BeginFields ==
  ASSUME NEW n, IsNav(n), n.status = "active", ~n.waiting, ~n.restart, ~n.probe,
         NEW skip \in BOOLEAN, NEW peer \in BOOLEAN
  PROVE  LET m == BeginSafeGoalSearch(n, skip, peer) IN
         /\ IsNav(m) /\ Shaped(m)
         /\ m.status = "active" /\ m.planning = "candidate"
         /\ /\ peer => world.peers
            /\ Open(Exact) => peer
            /\ skip => world.way[Exact] # "none" /\ (world.way[Exact] = "peer" => peer)
            => Sound(m)
<1> DEFINE m == BeginSafeGoalSearch(n, skip, peer)
<1>1. IsNav(m)
  <2> DEFINE o == [n EXCEPT !.final = FALSE, !.planning = "candidate",
                            !.mode = "approaching_safe_stop", !.skip = skip, !.index = 0]
  <2>1. IsNav(o)
    BY Constants DEF IsNav, Fields, Flags
  <2>2. m = [o EXCEPT !.candidate = FALSE, !.target = None, !.stop = FALSE, !.blame = peer]
    BY DEF BeginSafeGoalSearch
  <2> HIDE DEF o, m
  <2> QED
    BY <2>1, <2>2 DEF IsNav, Fields, Flags
<1>2. /\ m.status = "active" /\ m.planning = "candidate" /\ m.target = None /\ m.index = 0
      /\ ~m.candidate /\ ~m.waiting /\ ~m.restart /\ ~m.probe
      /\ m.skip = skip /\ m.blame = peer
  BY DEF IsNav, Fields, Flags, BeginSafeGoalSearch
<1> HIDE DEF m
<1>3. Shaped(m)
  BY <1>2, NoneAssumption DEF Shaped, Following
<1>4. ASSUME peer => world.peers, Open(Exact) => peer,
             skip => world.way[Exact] # "none" /\ (world.way[Exact] = "peer" => peer)
      PROVE  Sound(m)
  <2>1. Searched(m)
    BY <1>2, <1>4 DEF Searched
  <2> QED
    BY <1>2, <2>1, NoneAssumption DEF Sound, Following, GivesUp
<1> QED
  BY <1>1, <1>2, <1>3, <1>4 DEF m

\* After a transient obstacle the requested goal is planned for anew.
LEMMA ResumeFields ==
  ASSUME NEW n, IsNav(n), NEW grace \in BOOLEAN
  PROVE  LET m == [ResumeAfterTransient(n) EXCEPT !.grace = grace] IN
         IsNav(m) /\ Shaped(m) /\ Sound(m)
<1> DEFINE o == Fresh(n)
           c == [o EXCEPT !.path = None, !.goal = Exact, !.mode = "exact",
                   !.final = FALSE, !.status = "active", !.reason = None, !.target = None,
                   !.stop = FALSE, !.planning = "goal", !.recovered = FALSE]
           m == [c EXCEPT !.grace = grace]
<1>1. IsNav(o) /\ ~o.probe /\ ~o.candidate /\ ~o.waiting /\ ~o.restart
  BY FreshFields
<1> HIDE DEF o
<1>2. IsNav(c)
  BY <1>1, Constants DEF IsNav, Fields, Flags
<1>3. /\ c.status = "active" /\ c.goal = Exact /\ c.planning = "goal" /\ c.target = None
      /\ ~c.probe /\ ~c.candidate /\ ~c.waiting /\ ~c.restart
  BY <1>1 DEF IsNav, Fields, Flags
<1> HIDE DEF c
<1>4. IsNav(m)
  BY <1>2 DEF IsNav, Fields, Flags
<1>5. /\ m.status = "active" /\ m.goal = Exact /\ m.planning = "goal" /\ m.target = None
      /\ ~m.probe /\ ~m.candidate /\ ~m.waiting /\ ~m.restart
  BY <1>2, <1>3 DEF IsNav, Fields, Flags
<1> HIDE DEF m
<1>6. Shaped(m) /\ Sound(m)
  BY <1>5, NoneAssumption DEF Shaped, Sound, Following, GivesUp
<1>7. [ResumeAfterTransient(n) EXCEPT !.grace = grace] = m
  BY DEF ResumeAfterTransient, Fresh, o, c, m
<1> QED
  BY <1>4, <1>6, <1>7

\* The probe of the own map, which follows a missing path or goes on.
Probing(n, attributed) ==
  [Cleared(n) EXCEPT !.path = None, !.status = "active", !.reason = None,
                     !.target = None, !.probe = TRUE, !.attributed = attributed]

\* A probe keeps what a verdict will need.
LEMMA ProbingFields ==
  ASSUME NEW n, IsNav(n), ~n.waiting, ~n.restart, NEW attributed \in BOOLEAN
  PROVE  LET m == Probing(n, attributed) IN
         /\ IsNav(m) /\ Shaped(m)
         /\ (attributed => world.peers) /\ (n.inspections < MaxInspections => Right(n.goal))
              => Sound(m)
<1> DEFINE o == Cleared(n)
           m == [o EXCEPT !.path = None, !.status = "active", !.reason = None,
                          !.target = None, !.probe = TRUE, !.attributed = attributed]
<1>1. /\ IsNav(o) /\ ~o.waiting /\ ~o.restart /\ ~o.candidate /\ o.planning = None
      /\ o.goal = n.goal /\ o.inspections = n.inspections
  BY ClearedFields DEF Same, Fields, Flags
<1> HIDE DEF o
<1>2. IsNav(m)
  BY <1>1 DEF IsNav, Fields, Flags
<1>3. /\ m.status = "active" /\ m.path = None /\ m.target = None /\ m.probe
      /\ m.attributed = attributed /\ m.goal = n.goal /\ m.inspections = n.inspections
      /\ ~m.waiting /\ ~m.restart /\ ~m.candidate /\ m.planning = None
  BY <1>1 DEF IsNav, Fields, Flags
<1> HIDE DEF m
<1>4. Shaped(m)
  BY <1>3 DEF Shaped, Following
<1>5. (attributed => world.peers) /\ (n.inspections < MaxInspections => Right(n.goal))
        => Sound(m)
  BY <1>3, NoneAssumption DEF Sound, Following, GivesUp
<1>6. Probing(n, attributed) = m
  BY DEF Probing, o, m
<1> QED
  BY <1>2, <1>4, <1>5, <1>6

\* An attempt that ended, other than for want of a path, has nothing to justify.
LEMMA EndedIsSound ==
  ASSUME NEW n, n.status \in {"reached", "cancelled"} \/ (n.status = "blocked" /\ n.reason = "safety"),
         n.planning = None
  PROVE  Sound(n)
BY NoneAssumption DEF Sound, Following, GivesUp

(***************************************************************************)
(* The world and the planner's answers.                                    *)
(***************************************************************************)
LEMMA WorldFacts ==
  ASSUME world \in Worlds
  PROVE  /\ \A g \in Goals : /\ world.here[g] \in Causes
                             /\ world.way[g] \in Causes \ {"beside"}
                             /\ world.seen[g] \in BOOLEAN
                             /\ world.here[g] \in {"peer", "beside"} => world.peers
                             /\ world.way[g] = "peer" => world.peers
         /\ world.start \in {"none", "peer", "wall"} /\ world.peers \in BOOLEAN
         /\ world.start = "peer" => world.peers
<1>1. world \in [here : [Goals -> Causes], way : [Goals -> Causes \ {"beside"}],
                 seen : [Goals -> BOOLEAN], start : {"none", "peer", "wall"},
                 peers : BOOLEAN]
  BY GotoAssumption
<1>2. \A g \in Goals : world.here[g] \in Causes /\ world.way[g] \in Causes \ {"beside"}
                       /\ world.seen[g] \in BOOLEAN
  BY <1>1
<1>3. world.start \in {"none", "peer", "wall"} /\ world.peers \in BOOLEAN
  BY <1>1
<1>4. /\ world.start = "peer" => world.peers
      /\ \A g \in Goals : world.here[g] \in {"peer", "beside"} \/ world.way[g] = "peer"
                          => world.peers
  BY WorldAssumption
<1> QED
  BY <1>2, <1>3, <1>4

\* What the planner answers while it knows of all changes.
LEMMA AnswerCases ==
  ASSUME ~missed, NEW g \in Goals, NEW a \in Answers(g)
  PROVE  \/ world.start # "none" /\ a = [failure |-> "start_blocked", peer |-> world.start = "peer"]
         \/ Covered(g) /\ a = [failure |-> "goal_blocked", peer |-> world.here[g] = "peer"]
         \/ ~Covered(g) /\ world.way[g] # "none"
              /\ a = [failure |-> "goal_unreachable", peer |-> world.way[g] = "peer"]
         \/ ~Covered(g) /\ world.way[g] = "none" /\ a = [failure |-> "ready", peer |-> FALSE]
<1> DEFINE sb == [failure |-> "start_blocked", peer |-> world.start = "peer"]
           gb == [failure |-> "goal_blocked", peer |-> world.here[g] = "peer"]
           gu == [failure |-> "goal_unreachable", peer |-> world.way[g] = "peer"]
           ok == [failure |-> "ready", peer |-> FALSE]
           S == IF world.start = "none" THEN {} ELSE {sb}
           T == IF Covered(g) THEN {gb} ELSE IF world.way[g] # "none" THEN {gu} ELSE {ok}
<1>1. Answers(g) = UNION {S, T}
  BY DEF Answers
<1> HIDE DEF sb, gb, gu, ok
<1>2. a \in S \/ a \in T
  <2> HIDE DEF S, T
  <2> QED
    BY <1>1
<1>3. \/ world.start # "none" /\ a = sb
      \/ Covered(g) /\ a = gb
      \/ ~Covered(g) /\ world.way[g] # "none" /\ a = gu
      \/ ~Covered(g) /\ world.way[g] = "none" /\ a = ok
  BY <1>2
<1> QED
  BY <1>3 DEF sb, gb, gu, ok

\* The planner's answers, whether it was told of all changes or not.
LEMMA AnswerTypes ==
  ASSUME world \in Worlds, NEW g \in Goals, NEW a \in Answers(g)
  PROVE  /\ a.peer \in BOOLEAN
         /\ a.failure \in {"ready", "goal_unreachable", "goal_blocked", "start_blocked"}
<1>1. CASE missed
  <2>1. world.peers \in BOOLEAN
    BY WorldFacts
  <2> QED
    BY <1>1, <2>1 DEF Answers
<1>2. CASE ~missed
  <2>1. CASE a = [failure |-> "start_blocked", peer |-> world.start = "peer"]
    BY <2>1
  <2>2. CASE a = [failure |-> "goal_blocked", peer |-> world.here[g] = "peer"]
    BY <2>2
  <2>3. CASE a = [failure |-> "goal_unreachable", peer |-> world.way[g] = "peer"]
    BY <2>3
  <2>4. CASE a = [failure |-> "ready", peer |-> FALSE]
    BY <2>4
  <2> QED
    BY <1>2, <2>1, <2>2, <2>3, <2>4, AnswerCases
<1> QED
  BY <1>1, <1>2

\* The planner fails for a reason, and blames peers only if they are it.
LEMMA AnswersAreReasons ==
  ASSUME ~missed, NEW g \in Goals, NEW a \in Answers(g)
  PROVE  /\ a.failure = "start_blocked" =>
              world.start # "none" /\ (a.peer <=> world.start = "peer")
         /\ a.failure = "goal_blocked" =>
              Covered(g) /\ (a.peer <=> world.here[g] = "peer")
         /\ a.failure = "goal_unreachable" =>
              world.way[g] # "none" /\ (a.peer <=> world.way[g] = "peer")
         /\ a.failure = "ready" => ~Covered(g) /\ world.way[g] = "none"
<1>1. CASE world.start # "none" /\ a = [failure |-> "start_blocked", peer |-> world.start = "peer"]
  <2>1. a.failure = "start_blocked"
    BY <1>1
  <2>2. a.peer <=> world.start = "peer"
    BY <1>1, Zenon
  <2> QED
    BY <1>1, <2>1, <2>2
<1>2. CASE Covered(g) /\ a = [failure |-> "goal_blocked", peer |-> world.here[g] = "peer"]
  <2>1. a.failure = "goal_blocked"
    BY <1>2
  <2>2. a.peer <=> world.here[g] = "peer"
    BY <1>2, Zenon
  <2> QED
    BY <1>2, <2>1, <2>2
<1>3. CASE world.way[g] # "none" /\ a = [failure |-> "goal_unreachable", peer |-> world.way[g] = "peer"]
  <2>1. a.failure = "goal_unreachable"
    BY <1>3
  <2>2. a.peer <=> world.way[g] = "peer"
    BY <1>3, Zenon
  <2> QED
    BY <1>3, <2>1, <2>2
<1>4. CASE ~Covered(g) /\ world.way[g] = "none" /\ a = [failure |-> "ready", peer |-> FALSE]
  BY <1>4
<1> QED
  BY <1>1, <1>2, <1>3, <1>4, AnswerCases

\* Who is blamed exists, and what only peers close is blamed on them.
LEMMA BlameIsRight ==
  ASSUME world \in Worlds, ~missed, NEW g \in Goals, NEW a \in Answers(g)
  PROVE  /\ a.peer /\ a.failure # "ready" => world.peers
         /\ a.failure # "ready" /\ Open(g) => a.peer
<1>1. /\ world.here[g] \in Causes /\ world.way[g] \in Causes
      /\ world.here[g] = "peer" => world.peers
      /\ world.way[g] = "peer" => world.peers
      /\ world.start = "peer" => world.peers
  BY WorldFacts
<1>2. a.failure \in {"ready", "goal_unreachable", "goal_blocked", "start_blocked"}
  BY AnswerTypes
<1> QED
  BY <1>1, <1>2, AnswersAreReasons DEF Open, Covered

(***************************************************************************)
(* Steps that leave the world and the pose as they are.                    *)
(***************************************************************************)
LEMMA Conclude ==
  ASSUME IInv, NEW n, nav' = n, UNCHANGED <<at, there, world>>,
         IsNav(n), Shaped(n), InStep(n, pc'), pc' \in Parts,
         delta' \in BOOLEAN, missed' \in BOOLEAN, quiet' \in BOOLEAN, moved' \in BOOLEAN,
         quiet' /\ ~missed' => Sound(n)
  PROVE  IInv'
<1>1. Typed'
  BY DEF IInv, Typed, IsNav
<1>2. Shaped(nav)' /\ InStep(nav, pc)'
  BY DEF Shaped, InStep, Following, GivesUp
<1>3. ASSUME Sound(n) PROVE Sound(nav)'
  <2>1. Searched(n) => Searched(nav)'
    BY DEF Searched, Open
  <2>2. Right(n.goal) => Right(nav.goal)'
    BY DEF Right, Open
  <2> QED
    BY <1>3, <2>1, <2>2 DEF Sound, Following, GivesUp
<1> QED
  BY <1>1, <1>2, <1>3 DEF IInv

\* A new controller satisfies the invariant.
LEMMA InitInv == Init => IInv
<1> SUFFICES ASSUME Init PROVE IInv
  OBVIOUS
<1>1. IsNav(Idle)
  BY Constants DEF IsNav, Idle, Fields, Flags
<1>2. Shaped(Idle)
  BY NoneAssumption DEF Shaped, Idle, Following
<1> QED
  BY <1>1, <1>2 DEF Init, IInv, Typed, InStep, Parts

(***************************************************************************)
(* Between two ticks.                                                      *)
(***************************************************************************)
LEMMA StartInv == IInv /\ Start => IInv'
<1> SUFFICES ASSUME IInv, Start PROVE IInv'
  OBVIOUS
<1> DEFINE n == [Idle EXCEPT !.status = "active", !.mode = "exact", !.planning = "goal"]
<1>1. IsNav(n)
  BY Constants DEF IsNav, Idle, Fields, Flags
<1>2. n.planning = "goal" /\ n.goal = Exact /\ n.status = "active" /\ n.target = None
      /\ ~n.waiting /\ ~n.restart /\ ~n.probe /\ ~n.candidate
  BY DEF Idle
<1>3. nav' = n
  BY DEF Start
<1> HIDE DEF n
<1>4. Shaped(n) /\ InStep(n, "idle")
  BY <1>2, NoneAssumption DEF Shaped, InStep, Following
<1>5. Shaped(nav)' /\ InStep(nav, pc)' /\ Typed'
  BY <1>1, <1>3, <1>4 DEF Start, IInv, Typed, IsNav, Shaped, InStep, Following, GivesUp
<1>6. Sound(nav)'
  BY <1>2, <1>3, NoneAssumption DEF Sound, Following, GivesUp
<1> QED
  BY <1>5, <1>6 DEF IInv

\* Cancelling leaves nothing to be done.
LEMMA CancelInv == IInv /\ Cancel => IInv'
<1> SUFFICES ASSUME IInv, Cancel PROVE IInv'
  OBVIOUS
<1> DEFINE o == Fresh(nav)
           n == [o EXCEPT !.final = FALSE, !.stop = FALSE, !.status = "cancelled",
                          !.reason = None]
<1>1. /\ IsNav(o) /\ ~o.waiting /\ ~o.restart /\ ~o.probe /\ ~o.candidate /\ o.planning = None
  BY FreshFields DEF IInv, Typed
<1>2. nav' = n
  BY DEF Cancel, Fresh
<1> HIDE DEF o
<1>3. IsNav(n)
  BY <1>1 DEF IsNav, Fields, Flags
<1>4. /\ n.status = "cancelled" /\ n.planning = None
      /\ ~n.waiting /\ ~n.restart /\ ~n.probe /\ ~n.candidate
  BY <1>1 DEF IsNav, Fields, Flags
<1> HIDE DEF n
<1>5. Shaped(n) /\ InStep(n, pc') /\ Sound(n)
  BY <1>4, EndedIsSound, NoneAssumption DEF Shaped, InStep, Following, Cancel
<1> QED
  BY <1>2, <1>3, <1>5, Conclude DEF Cancel, IInv, Typed

\* A change of the world ends what was known of it.
LEMMA ChangeInv == IInv /\ Change => IInv'
<1> SUFFICES ASSUME IInv, Change PROVE IInv'
  OBVIOUS
<1>1. world' \in Worlds
  BY DEF Change, Successors, IInv, Typed
<1>2. /\ nav' = nav /\ pc' = pc /\ there' = there /\ moved' = moved /\ missed' = missed
      /\ delta' \in BOOLEAN /\ quiet' = FALSE
  BY DEF Change
<1>3. Typed'
  BY <1>1, <1>2 DEF IInv, Typed, IsNav
<1>4. Shaped(nav)' /\ InStep(nav, pc)'
  BY <1>2 DEF IInv, Shaped, InStep, Following, GivesUp
<1> QED
  BY <1>2, <1>3, <1>4 DEF IInv

\* Only a vehicle on its way moves, and it gives nothing up.
LEMMA MoveInv == IInv /\ Move => IInv'
<1> SUFFICES ASSUME IInv, Move PROVE IInv'
  OBVIOUS
<1>1. there' \in BOOLEAN /\ moved' \in BOOLEAN
  BY DEF Move, IInv, Typed
<1>2. Typed' /\ Shaped(nav)' /\ InStep(nav, pc)'
  <2>1. nav' = nav /\ pc' = pc /\ world' = world /\ delta' = delta /\ missed' = missed
        /\ quiet' = quiet
    BY DEF Move
  <2>2. Typed'
    BY <1>1, <2>1 DEF IInv, Typed, IsNav
  <2> QED
    BY <2>1, <2>2 DEF IInv, Shaped, InStep, Following, GivesUp
<1>3. ~GivesUp(nav) /\ nav' = nav /\ world' = world /\ quiet' = quiet /\ missed' = missed
  BY DEF Move, IInv, Shaped, GivesUp
<1>4. ASSUME Sound(nav) PROVE Sound(nav)'
  <2>1. Searched(nav) => Searched(nav)'
    BY <1>3 DEF Searched, Open
  <2>2. ~GivesUp(nav)'
    BY <1>3 DEF GivesUp
  <2> QED
    BY <1>3, <1>4, <2>1, <2>2 DEF Sound, Following
<1> QED
  BY <1>2, <1>3, <1>4 DEF IInv

(***************************************************************************)
(* Steps of a tick that leave the attributes as they are.                  *)
(***************************************************************************)
LEMMA SameNav ==
  ASSUME IInv, UNCHANGED <<nav, at, there, world, quiet>>, InStep(nav, pc'), pc' \in Parts,
         delta' \in BOOLEAN, moved' \in BOOLEAN, missed' \in BOOLEAN, missed => missed'
  PROVE  IInv'
BY Conclude DEF IInv, Typed

\* Steps that wait, suspend or coordinate.
LEMMA QuietStepsInv ==
  ASSUME IInv, TickProbe \/ TickCorridorWait \/ UpdateWaits \/ PlanPending \/ Coordinate
  PROVE  IInv'
<1>1. CASE TickProbe
  BY <1>1, SameNav DEF TickProbe, Keep, IInv, Typed, InStep, GivesUp, Parts
<1>2. CASE TickCorridorWait
  BY <1>2, SameNav DEF TickCorridorWait, Keep, IInv, Typed, InStep, Parts
<1>3. CASE UpdateWaits
  BY <1>3, SameNav DEF UpdateWaits, Keep, IInv, Typed, InStep, Parts
<1>4. CASE PlanPending
  BY <1>4, SameNav DEF PlanPending, Keep, IInv, Typed, InStep, Parts
<1>5. CASE Coordinate
  BY <1>5, SameNav DEF Coordinate, Keep, IInv, Typed, InStep, Parts
<1> QED
  BY <1>1, <1>2, <1>3, <1>4, <1>5

\* A safety stop ends the attempt, as a failure or as near enough.
LEMMA TickUnsafeInv == IInv /\ TickUnsafe => IInv'
<1> SUFFICES ASSUME IInv, TickUnsafe PROVE IInv'
  OBVIOUS
<1> DEFINE o == Cleared(nav)
           n == [o EXCEPT !.status = "reached", !.mode = "nearby_safe",
                  !.final = FALSE, !.target = None, !.stop = FALSE, !.restart = FALSE,
                  !.probe = FALSE, !.attributed = FALSE]
<1>1. CASE nav' = Blocked(nav, "safety")
  <2> DEFINE b == Blocked(nav, "safety")
  <2>1. IsNav(b) /\ Shaped(b) /\ b.status = "blocked" /\ b.reason = "safety"
    BY BlockedFields DEF IInv, Typed
  <2>2. nav' = b /\ pc' = "idle"
    BY <1>1 DEF TickUnsafe, Go
  <2> HIDE DEF b
  <2>3. Sound(b) /\ InStep(b, pc')
    BY <2>1, <2>2, EndedIsSound DEF Shaped, InStep
  <2> QED
    BY <2>1, <2>2, <2>3, Conclude DEF TickUnsafe, Keep, IInv, Typed, Parts
<1>2. CASE nav' = n
  <2>1. IsNav(o) /\ ~o.candidate /\ o.planning = None
    BY ClearedFields DEF IInv, Typed
  <2> HIDE DEF o
  <2>2. IsNav(n)
    BY <2>1 DEF IsNav, Fields, Flags
  <2>3. /\ n.status = "reached" /\ n.planning = None /\ n.mode = "nearby_safe"
        /\ ~n.restart /\ ~n.probe /\ ~n.candidate
    BY <2>1 DEF IsNav, Fields, Flags
  <2>4. pc' = "idle"
    BY DEF TickUnsafe, Go
  <2> HIDE DEF n
  <2>5. Shaped(n) /\ InStep(n, pc') /\ Sound(n)
    BY <2>3, <2>4, EndedIsSound, NoneAssumption DEF Shaped, InStep, Following
  <2> QED
    BY <1>2, <2>2, <2>4, <2>5, Conclude DEF TickUnsafe, Keep, IInv, Typed, Parts
<1> QED
  BY <1>1, <1>2 DEF TickUnsafe, Go

(***************************************************************************)
(* A tick.                                                                 *)
(***************************************************************************)
\* A controller that is woken plans for the requested goal again.
LEMMA WokenFields ==
  ASSUME NEW n, IsNav(n), Shaped(n), n.status = "active", ~n.probe
  PROVE  LET m == Woken(n) IN
         /\ IsNav(m) /\ Shaped(m) /\ m.status = "active" /\ m.final = n.final
         /\ ~m.waiting /\ ~m.restart /\ ~m.probe
         /\ n.waiting => m.planning = "goal" /\ m.goal = Exact /\ Sound(m)
         /\ ~n.waiting => m = n
<1>1. CASE ~n.waiting
  <2>1. Woken(n) = n
    BY <1>1 DEF Woken
  <2>2. ~n.restart
    BY <1>1 DEF Shaped
  <2> QED
    BY <1>1, <2>1, <2>2
<1>2. CASE n.waiting
  <2> DEFINE r == n.recovered /\ ~n.restart
             m == [n EXCEPT !.waiting = FALSE, !.restart = FALSE, !.goal = Exact,
                            !.mode = "exact", !.planning = "goal", !.blame = FALSE,
                            !.recovered = r]
  <2>1. Woken(n) = m
    BY <1>2 DEF Woken
  <2>2. ~n.candidate /\ n.target = None
    BY <1>2, NoneAssumption DEF Shaped
  <2>3. r \in BOOLEAN
    OBVIOUS
  <2> HIDE DEF r
  <2>4. IsNav(m)
    BY <2>3, Constants DEF IsNav, Fields, Flags
  <2>5. /\ m.status = "active" /\ m.final = n.final /\ m.planning = "goal" /\ m.goal = Exact
        /\ ~m.waiting /\ ~m.restart /\ ~m.probe /\ ~m.candidate /\ m.target = None
    BY <2>2 DEF IsNav, Fields, Flags
  <2> HIDE DEF m
  <2>6. Shaped(m) /\ Sound(m)
    BY <2>5, NoneAssumption DEF Shaped, Sound, Following, GivesUp
  <2> QED
    BY <1>2, <2>1, <2>4, <2>5, <2>6
<1> QED
  BY <1>1, <1>2

\* Planning begins for the goal there is, if anything calls for it.
LEMMA PlanningFields ==
  ASSUME NEW n, IsNav(n), Shaped(n), n.status = "active", ~n.waiting, ~n.restart, ~n.probe
  PROVE  LET m == Planning(n) IN
         /\ IsNav(m) /\ Shaped(m) /\ m.status = "active" /\ m.goal = n.goal
         /\ m.planning = None => Following(m)
         /\ m.planning = n.planning => m = n
         /\ n.planning # None \/ n.final => m = n
         /\ m.planning # n.planning => m.planning = "goal"
         /\ m.planning # n.planning /\ m.goal = Exact => Sound(m)
<1>1. CASE ~n.final /\ n.planning = None /\ (n.path = None \/ moved \/ delta)
  <2> DEFINE m == [n EXCEPT !.planning = "goal", !.target = None, !.blame = FALSE]
  <2>1. Planning(n) = m
    BY <1>1 DEF Planning
  <2>2. ~n.candidate
    BY <1>1, NoneAssumption DEF Shaped
  <2>3. IsNav(m)
    BY DEF IsNav, Fields, Flags
  <2>4. /\ m.status = "active" /\ m.goal = n.goal /\ m.planning = "goal" /\ m.target = None
        /\ ~m.waiting /\ ~m.restart /\ ~m.probe /\ ~m.candidate
    BY <2>2 DEF IsNav, Fields, Flags
  <2> HIDE DEF m
  <2>5. Shaped(m)
    BY <2>4, NoneAssumption DEF Shaped, Following
  <2>6. m.goal = Exact => Sound(m)
    BY <2>4, NoneAssumption DEF Sound, Following, GivesUp
  <2> QED
    BY <1>1, <2>1, <2>3, <2>4, <2>5, <2>6, NoneAssumption
<1>2. CASE ~(~n.final /\ n.planning = None /\ (n.path = None \/ moved \/ delta))
  <2>1. Planning(n) = n
    BY <1>2 DEF Planning
  <2> QED
    BY <2>1 DEF Following
<1> QED
  BY <1>1, <1>2

\* update, up to planning.
LEMMA UpdateInv == IInv /\ Update => IInv'
<1> SUFFICES ASSUME IInv, Update PROVE IInv'
  OBVIOUS
<1> DEFINE n == Woken(nav)
           p == Planning(n)
           b == BeginSafeGoalSearch(n, FALSE, FinalApproachSegmentIsSafe(n.goal, TRUE))
           unsafe == n.final /\ ~FinalApproachSegmentIsSafe(n.goal, FALSE)
<1>1. /\ nav.status = "active" /\ ~nav.probe /\ IsNav(nav) /\ Shaped(nav)
      /\ world \in Worlds
  BY DEF Update, Updating, IInv, Typed
<1>2. /\ nav' = IF unsafe THEN b ELSE p
      /\ pc' = IF unsafe THEN "coordinate" ELSE CASE p.planning = "goal"      -> "plan"
                                                  [] p.planning = "candidate" -> "search"
                                                  [] OTHER                    -> "drive"
      /\ missed' = (missed /\ ~nav.restart)
      /\ quiet' = IF p.planning # nav.planning THEN p.goal = Exact ELSE quiet /\ ~n.final
      /\ delta' = (delta /\ ~(n.final \/ nav.restart))
      /\ UNCHANGED <<moved, at, there, world>>
  BY DEF Update, Go, Keep
<1>3. /\ IsNav(n) /\ Shaped(n) /\ n.status = "active" /\ n.final = nav.final
      /\ ~n.waiting /\ ~n.restart /\ ~n.probe
      /\ nav.waiting => n.planning = "goal" /\ n.goal = Exact /\ Sound(n)
      /\ ~nav.waiting => n = nav
  BY <1>1, WokenFields
<1>4. n.final \in BOOLEAN /\ nav.restart \in BOOLEAN
  BY <1>1, <1>3 DEF IsNav, Flags
<1>5. delta' \in BOOLEAN /\ missed' \in BOOLEAN /\ quiet' \in BOOLEAN /\ moved' \in BOOLEAN
  <2>1. delta \in BOOLEAN /\ missed \in BOOLEAN /\ quiet \in BOOLEAN /\ moved \in BOOLEAN
    BY DEF IInv, Typed
  <2> QED
    BY <1>2, <2>1
<1> HIDE DEF n
<1>6. /\ IsNav(p) /\ Shaped(p) /\ p.status = "active" /\ p.goal = n.goal
      /\ p.planning = None => Following(p)
      /\ p.planning = n.planning => p = n
      /\ n.planning # None \/ n.final => p = n
      /\ p.planning # n.planning => p.planning = "goal"
      /\ p.planning # n.planning /\ p.goal = Exact => Sound(p)
  BY <1>3, PlanningFields
<1> HIDE DEF p
<1>7. nav.waiting => nav.planning = None
  BY <1>1 DEF Shaped
<1>8. ~nav.waiting => ~nav.restart
  BY <1>1 DEF Shaped
<1>9. CASE unsafe
  <2>1. FinalApproachSegmentIsSafe(n.goal, TRUE) \in BOOLEAN
    BY DEF FinalApproachSegmentIsSafe
  <2>2. IsNav(b) /\ Shaped(b) /\ b.status = "active" /\ b.planning = "candidate"
    BY <1>3, <2>1, BeginFields
  <2>3. ASSUME quiet' PROVE Sound(b)
    <3>1. p = n
      BY <1>6, <1>9
    <3>2. nav.waiting
      BY <1>2, <1>3, <1>9, <2>3, <3>1
    <3>3. n.goal = Exact
      BY <1>3, <3>2
    <3>4. /\ FinalApproachSegmentIsSafe(Exact, TRUE) => world.peers
          /\ Open(Exact) => FinalApproachSegmentIsSafe(Exact, TRUE)
      <4>1. world.here[Exact] \in {"peer", "beside"} => world.peers
        BY <1>1, Constants, WorldFacts
      <4>2. world.here[Exact] \notin {"none", "beside"}
        BY <1>9, <3>3 DEF FinalApproachSegmentIsSafe, PeerCauses
      <4> QED
        BY <4>1, <4>2 DEF FinalApproachSegmentIsSafe, PeerCauses, Open
    <3> HIDE DEF b
    <3> QED
      BY <1>3, <2>1, <3>3, <3>4, BeginFields DEF b
  <2>4. InStep(b, pc') /\ pc' \in Parts
    BY <1>2, <1>9 DEF InStep, Parts
  <2> HIDE DEF b
  <2> QED
    BY <1>2, <1>5, <1>9, <2>2, <2>3, <2>4, Conclude
<1>10. CASE ~unsafe
  <2>1. pc' \in Parts /\ InStep(p, pc')
    <3>1. p.planning \in {None, "goal", "candidate"}
      BY <1>6 DEF IsNav
    <3> QED
      BY <1>2, <1>6, <1>10, <3>1, NoneAssumption DEF InStep, Parts
  <2>2. ASSUME quiet', ~missed' PROVE Sound(p)
    <3>1. CASE p.planning # nav.planning
      <4>1. p.goal = Exact
        BY <1>2, <2>2, <3>1
      <4>2. CASE nav.waiting
        BY <1>3, <1>6, <4>2, NoneAssumption
      <4>3. CASE ~nav.waiting
        BY <1>3, <1>6, <3>1, <4>1, <4>3
      <4> QED
        BY <4>2, <4>3
    <3>2. CASE p.planning = nav.planning
      <4>1. ~nav.waiting
        BY <1>3, <1>6, <1>7, <3>2, NoneAssumption
      <4>2. p = nav
        BY <1>3, <1>6, <3>2, <4>1
      <4>3. quiet /\ ~missed
        BY <1>2, <1>8, <2>2, <3>2, <4>1
      <4> QED
        BY <4>2, <4>3 DEF IInv
    <3> QED
      BY <3>1, <3>2
  <2>3. nav' = p
    BY <1>2, <1>10
  <2> QED
    BY <1>2, <1>5, <1>6, <2>1, <2>2, <2>3, Conclude
<1> QED
  BY <1>9, <1>10

\* What the planner's segment queries say, in terms of what is there.
LEMMA Safety ==
  ASSUME world \in Worlds, NEW g \in Goals
  PROVE  /\ CandidateIsSafe(g, FALSE, FALSE) <=> world.here[g] = "none"
         /\ CandidateIsSafe(g, FALSE, TRUE) <=> world.here[g] \in {"none", "peer", "beside"}
         /\ CandidateIsSafe(g, TRUE, FALSE) <=> world.here[g] = "none" /\ world.seen[g]
         /\ CandidateIsSafe(g, TRUE, TRUE) <=>
              world.here[g] \in {"none", "peer", "beside"} /\ world.seen[g]
         /\ StartConnection(FALSE) <=> world.start = "none"
         /\ StartConnection(TRUE) <=> world.start \in {"none", "peer"}
         /\ Covered(g) <=> world.here[g] \notin {"none", "beside"}
<1>1. world.start \in {"none", "peer", "wall"} /\ world.seen[g] \in BOOLEAN
  BY WorldFacts
<1> QED
  BY <1>1 DEF CandidateIsSafe, StartConnection, Covered, PeerCauses

\* The answer for the goal: a path, a search for a stop nearby, or the end.
LEMMA PlanGoalInv == IInv /\ PlanGoal => IInv'
<1> SUFFICES ASSUME IInv, PlanGoal PROVE IInv'
  OBVIOUS
<1> DEFINE g == nav.goal
           set == [nav EXCEPT !.path = nav.goal]
           safe == IF nav.mode = "exact" THEN ~Covered(nav.goal)
                   ELSE CandidateIsSafe(nav.goal, FALSE, FALSE) /\ StartConnection(FALSE)
           peer == IF nav.mode = "exact" THEN world.here[nav.goal] = "peer"
                   ELSE CandidateIsSafe(nav.goal, FALSE, TRUE) /\ StartConnection(TRUE)
           mode == IF nav.mode = "exact" THEN nav.mode ELSE Mode(nav.goal)
           done == [Completed(nav) EXCEPT !.mode = mode]
<1>1. /\ IsNav(nav) /\ Shaped(nav) /\ nav.status = "active" /\ nav.planning = "goal"
      /\ world \in Worlds /\ g \in Goals
      /\ ~nav.waiting /\ ~nav.restart /\ ~nav.probe
      /\ missed \in BOOLEAN /\ quiet \in BOOLEAN /\ moved \in BOOLEAN
  <2>1. /\ IsNav(nav) /\ Shaped(nav) /\ nav.status = "active" /\ nav.planning = "goal"
        /\ world \in Worlds
    BY DEF PlanGoal, IInv, Typed, InStep
  <2>2. g \in Goals
    BY <2>1 DEF IsNav
  <2>3. ~nav.waiting /\ ~nav.restart /\ ~nav.probe
    BY <2>1, NoneAssumption DEF Shaped
  <2> QED
    BY <2>1, <2>2, <2>3 DEF IInv, Typed
<1>2. quiet /\ ~missed => g = Exact
  BY <1>1 DEF IInv, Sound
<1>3. PICK a \in Answers(g) :
        LET ready == a.failure = "ready" IN
        /\ \/ /\ ready /\ safe
              /\ Go([Completed(nav) EXCEPT
                       !.mode = IF @ = "exact" THEN @ ELSE Mode(nav.goal)], "drive")
           \/ /\ ready /\ ~safe
              /\ Go(BeginSafeGoalSearch(set, FALSE, peer), "search")
           \/ /\ ~ready /\ a.failure # "start_blocked"
              /\ Go(BeginSafeGoalSearch(nav, a.failure = "goal_unreachable", a.peer), "search")
           \/ /\ a.failure = "start_blocked"
              /\ LET n == BlockNoPath(nav, a.peer) IN Go(n, After(n))
        /\ moved' = (moved /\ ~ready)
  BY DEF PlanGoal
<1>4. /\ UNCHANGED <<at, there, world, missed, quiet>>
      /\ delta' \in BOOLEAN /\ moved' \in BOOLEAN /\ missed' \in BOOLEAN /\ quiet' \in BOOLEAN
  BY <1>1, <1>3 DEF PlanGoal, Keep
<1>5. a.peer \in BOOLEAN
  BY <1>1, AnswerTypes
<1>6. CASE a.failure = "ready" /\ safe /\ nav' = [Completed(nav) EXCEPT
             !.mode = IF @ = "exact" THEN @ ELSE Mode(nav.goal)] /\ pc' = "drive"
  <2>1. Completed(nav).mode = nav.mode /\ DOMAIN Completed(nav) = Fields
    BY <1>1 DEF Completed, Cleared, NotWaiting, IsNav, Fields, Flags
  <2>2. nav' = done
    BY <1>6, <2>1
  <2>3. mode \in {None, "exact", "approaching_safe_stop", "nearby_safe"}
    BY DEF Mode
  <2>4. mode # "exact" => world.here[g] = "none"
    BY <1>1, <1>6, Safety
  <2> HIDE DEF mode, safe
  <2>5. IsNav(done) /\ Shaped(done) /\ Following(done) /\ Sound(done)
    BY <1>1, <2>3, <2>4, CompletedFields
  <2> HIDE DEF done
  <2>6. InStep(done, pc') /\ pc' \in Parts
    BY <1>6, <2>5 DEF InStep, Parts
  <2> QED
    BY <1>4, <2>2, <2>5, <2>6, Conclude
<1>7. CASE a.failure = "ready" /\ ~safe /\ nav' = BeginSafeGoalSearch(set, FALSE, peer)
           /\ pc' = "search"
  <2> DEFINE b == BeginSafeGoalSearch(set, FALSE, peer)
  <2>1. IsNav(set) /\ set.status = "active" /\ ~set.waiting /\ ~set.restart /\ ~set.probe
    <3>1. IsNav(set)
      BY <1>1 DEF IsNav, Fields, Flags
    <3> QED
      BY <1>1, <3>1 DEF IsNav, Fields, Flags
  <2>2. peer \in BOOLEAN
    BY DEF CandidateIsSafe, StartConnection
  <2>3. ASSUME quiet, ~missed
        PROVE  (peer => world.peers) /\ (Open(Exact) => peer)
    <3>1. ~Covered(g) /\ g = Exact
      BY <1>1, <1>2, <1>7, <2>3, AnswersAreReasons
    <3>2. nav.mode # "exact"
      BY <1>7, <3>1
    <3>3. peer <=> world.here[g] \in {"none", "peer", "beside"} /\ world.start \in {"none", "peer"}
      BY <1>1, <3>2, Safety
    <3>4. ~(world.here[g] = "none" /\ world.start = "none")
      BY <1>1, <1>7, <3>2, Safety
    <3>5. /\ world.start = "peer" => world.peers
          /\ world.here[g] \in {"peer", "beside"} => world.peers
      BY <1>1, WorldFacts
    <3> HIDE DEF peer, g
    <3> QED
      BY <3>1, <3>3, <3>4, <3>5 DEF Open
  <2> HIDE DEF set, peer
  <2>4. /\ IsNav(b) /\ Shaped(b) /\ b.status = "active" /\ b.planning = "candidate"
        /\ quiet /\ ~missed => Sound(b)
    BY <2>1, <2>2, <2>3, BeginFields
  <2> HIDE DEF b
  <2>5. InStep(b, pc') /\ pc' \in Parts
    BY <1>7, <2>4 DEF InStep, Parts
  <2>6. nav' = b
    BY <1>7 DEF b
  <2> QED
    BY <1>4, <2>4, <2>5, <2>6, Conclude
<1>8. CASE /\ a.failure \notin {"ready", "start_blocked"} /\ pc' = "search"
           /\ nav' = BeginSafeGoalSearch(nav, a.failure = "goal_unreachable", a.peer)
  <2> DEFINE skip == a.failure = "goal_unreachable"
             b == BeginSafeGoalSearch(nav, skip, a.peer)
  <2>1. ASSUME quiet, ~missed
        PROVE  /\ a.peer => world.peers
               /\ Open(Exact) => a.peer
               /\ skip => world.way[Exact] # "none" /\ (world.way[Exact] = "peer" => a.peer)
    <3>1. g = Exact
      BY <1>2, <2>1
    <3>2. (a.peer => world.peers) /\ (Open(g) => a.peer)
      BY <1>1, <1>8, <2>1, BlameIsRight
    <3>3. skip => world.way[g] # "none" /\ (a.peer <=> world.way[g] = "peer")
      BY <1>1, <2>1, AnswersAreReasons
    <3> QED
      BY <3>1, <3>2, <3>3
  <2>2. skip \in BOOLEAN
    OBVIOUS
  <2>3. nav' = b
    BY <1>8
  <2> HIDE DEF skip
  <2>4. /\ IsNav(b) /\ Shaped(b) /\ b.status = "active" /\ b.planning = "candidate"
        /\ quiet /\ ~missed => Sound(b)
    BY <1>1, <1>5, <2>1, <2>2, BeginFields
  <2> HIDE DEF b
  <2>5. InStep(b, pc') /\ pc' \in Parts
    BY <1>8, <2>4 DEF InStep, Parts
  <2> QED
    BY <1>4, <2>3, <2>4, <2>5, Conclude
<1>9. CASE /\ a.failure = "start_blocked"
           /\ nav' = BlockNoPath(nav, a.peer) /\ pc' = After(BlockNoPath(nav, a.peer))
  <2> DEFINE b == BlockNoPath(nav, a.peer)
  <2>1. ASSUME quiet, ~missed
        PROVE  (a.peer => world.peers) /\ (~a.peer => Right(nav.goal))
    <3>1. world.start # "none" /\ (a.peer <=> world.start = "peer")
      BY <1>1, <1>9, <2>1, AnswersAreReasons
    <3>2. a.peer => world.peers
      BY <1>1, <3>1, WorldFacts
    <3>3. ~a.peer => \A h \in Goals : ~Open(h)
      BY <3>1 DEF Open
    <3> QED
      BY <3>2, <3>3 DEF Right
  <2>2. /\ IsNav(b) /\ Shaped(b) /\ b.status \in {"active", "blocked"}
        /\ b.status = "blocked" => b.reason = "no_path"
        /\ quiet /\ ~missed => Sound(b)
    BY <1>1, <1>5, <2>1, BlockNoPathFields
  <2>3. nav' = b /\ pc' = After(b)
    BY <1>9
  <2> HIDE DEF b
  <2>4. InStep(b, pc') /\ pc' \in Parts
    BY <2>2, <2>3 DEF InStep, Parts, After, GivesUp
  <2> QED
    BY <1>4, <2>2, <2>3, <2>4, Conclude
<1> HIDE DEF set, safe, peer
<1> QED
  BY <1>3, <1>6, <1>7, <1>8, <1>9 DEF Go

\* Every candidate that is passed over or fails is closed, or peers are to blame.
LEMMA NextCandidateInv == IInv /\ NextCandidate => IInv'
<1> SUFFICES ASSUME IInv, NextCandidate PROVE IInv'
  OBVIOUS
<1> DEFINE i == nav.index + 1
           c == Nearby[i]
           n == [nav EXCEPT !.index = i, !.inspections = nav.inspections + 1]
           stop == nav.stop /\ c = nav.goal
           m == [n EXCEPT !.candidate = TRUE, !.goal = c, !.stop = stop,
                          !.mode = "approaching_safe_stop"]
<1>1. /\ IsNav(nav) /\ Shaped(nav) /\ nav.status = "active" /\ nav.planning = "candidate"
      /\ world \in Worlds /\ ~nav.candidate
      /\ ~nav.waiting /\ ~nav.restart /\ ~nav.probe
      /\ nav.index < Len(Nearby) /\ nav.inspections < MaxInspections /\ nav.target = None
  <2>1. /\ IsNav(nav) /\ Shaped(nav) /\ nav.status = "active" /\ nav.planning = "candidate"
        /\ world \in Worlds /\ ~nav.candidate
        /\ nav.index < Len(Nearby) /\ nav.inspections < MaxInspections
    BY DEF NextCandidate, IInv, Typed, InStep
  <2> QED
    BY <2>1, NoneAssumption DEF Shaped
<1>2. /\ pc' = "search"
      /\ UNCHANGED <<at, there, world, missed, quiet>>
      /\ delta' \in BOOLEAN /\ moved' \in BOOLEAN /\ missed' \in BOOLEAN /\ quiet' \in BOOLEAN
  BY DEF NextCandidate, Keep, IInv, Typed
<1>3. nav' = IF Skipped(c) THEN n ELSE m
  <2>1. n.stop = nav.stop
    BY <1>1 DEF IsNav, Fields, Flags
  <2>2. nav' = IF Skipped(c) THEN n
               ELSE [n EXCEPT !.candidate = TRUE, !.goal = c, !.stop = n.stop /\ c = nav.goal,
                              !.mode = "approaching_safe_stop"]
    BY <1>1 DEF NextCandidate, IsNav, Fields, Flags
  <2> QED
    BY <2>1, <2>2
<1>4. i \in 1..Len(Nearby) /\ i = nav.index + 1 /\ nav.index \in Nat /\ c \in Goals
  BY <1>1, Constants DEF IsNav
<1>5. /\ IsNav(n)
      /\ n.status = "active" /\ n.planning = "candidate" /\ ~n.candidate /\ n.index = i
      /\ ~n.waiting /\ ~n.restart /\ ~n.probe /\ n.target = None
      /\ n.blame = nav.blame /\ n.skip = nav.skip
  <2>1. IsNav(n)
    BY <1>1, <1>4, Constants DEF IsNav, Fields, Flags
  <2> QED
    BY <1>1, <2>1 DEF IsNav, Fields, Flags
<1> HIDE DEF n
<1>6. CASE Skipped(c)
  <2>1. Shaped(n) /\ InStep(n, pc') /\ pc' \in Parts
    BY <1>2, <1>5, NoneAssumption DEF Shaped, Following, InStep, Parts
  <2>2. ASSUME quiet, ~missed PROVE Sound(n)
    <3>1. Searched(nav)
      BY <1>1, <2>2 DEF IInv, Sound
    <3>2. Open(c) => nav.blame
      <4>1. CASE nav.skip /\ c \in Connected /\ ~Covered(Exact) /\ ~Covered(c)
        <5>1. world.way[Exact] # "none" /\ (world.way[Exact] = "peer" => nav.blame)
          BY <3>1, <4>1 DEF Searched
        <5>2. world.way[Exact] \in {"anonymous", "wall"} => world.way[c] \notin {"none", "peer"}
          BY <1>1, <1>4, <4>1, Constants, Safety, WorldAssumption
        <5>3. world.way[Exact] \in {"none", "peer", "anonymous", "wall"}
          BY <1>1, Constants, WorldFacts DEF Causes
        <5> QED
          BY <5>1, <5>2, <5>3 DEF Open
      <4>2. CASE ~CandidateIsSafe(c, FALSE, FALSE) /\ ~CandidateIsSafe(c, FALSE, TRUE)
        BY <1>1, <1>4, <4>2, Safety DEF Open
      <4> QED
        BY <1>6, <4>1, <4>2 DEF Skipped
    <3>3. \A k \in 1..i : Open(Nearby[k]) => nav.blame
      <4>1. \A k \in 1..nav.index : Open(Nearby[k]) => nav.blame
        BY <1>1, <3>1 DEF Searched
      <4>2. \A k \in 1..i : k = i \/ k \in 1..nav.index
        BY <1>4
      <4> QED
        BY <3>2, <4>1, <4>2
    <3> HIDE DEF i, c
    <3>4. Searched(n)
      BY <1>5, <3>1, <3>3 DEF Searched
    <3> QED
      BY <1>5, <3>4, NoneAssumption DEF Sound, Following, GivesUp
  <2>3. nav' = n
    BY <1>3, <1>6
  <2> QED
    BY <1>2, <1>5, <2>1, <2>2, <2>3, Conclude
<1>7. CASE ~Skipped(c)
  <2>1. stop \in BOOLEAN
    OBVIOUS
  <2> HIDE DEF c, i, stop
  <2>2. IsNav(m)
    BY <1>4, <1>5, <2>1 DEF IsNav, Fields, Flags
  <2>3. /\ m.status = "active" /\ m.planning = "candidate" /\ m.candidate /\ m.index = i
        /\ m.goal = c /\ ~m.waiting /\ ~m.restart /\ ~m.probe /\ m.target = None
        /\ m.blame = nav.blame /\ m.skip = nav.skip
    BY <1>5 DEF IsNav, Fields, Flags
  <2> HIDE DEF m
  <2>4. 0 < i /\ c = Nearby[i]
    BY <1>4 DEF c
  <2>5. Shaped(m) /\ InStep(m, pc') /\ pc' \in Parts
    BY <1>2, <2>3, <2>4, NoneAssumption DEF Shaped, Following, InStep, Parts
  <2>6. ASSUME quiet, ~missed PROVE Sound(m)
    <3>1. Searched(nav)
      BY <1>1, <2>6 DEF IInv, Sound
    <3>2. \A k \in 1..i : k # i => k \in 1..nav.index
      BY <1>4
    <3>3. Searched(m)
      BY <1>1, <2>3, <3>1, <3>2 DEF Searched
    <3> QED
      BY <2>3, <3>3, NoneAssumption DEF Sound, Following, GivesUp
  <2>7. nav' = m
    BY <1>3, <1>7
  <2> QED
    BY <1>2, <2>2, <2>5, <2>6, <2>7, Conclude
<1> QED
  BY <1>6, <1>7

\* When no candidate is left, all of them are closed or peers are blamed.
LEMMA NoCandidateLeftInv == IInv /\ NoCandidateLeft => IInv'
<1> SUFFICES ASSUME IInv, NoCandidateLeft PROVE IInv'
  OBVIOUS
<1> DEFINE b == BlockNoPath(nav, nav.blame)
<1>1. /\ IsNav(nav) /\ nav.planning = "candidate" /\ ~nav.candidate
      /\ nav.index = Len(Nearby) \/ nav.inspections = MaxInspections
      /\ nav.blame \in BOOLEAN
  BY DEF NoCandidateLeft, IInv, Typed, InStep, IsNav, Flags
<1>2. ASSUME quiet, ~missed
      PROVE  /\ nav.blame => world.peers
             /\ ~nav.blame /\ nav.inspections < MaxInspections => Right(nav.goal)
  <2>1. Searched(nav)
    BY <1>1, <1>2 DEF IInv, Sound
  <2>2. nav.blame => world.peers
    BY <2>1 DEF Searched
  <2>3. ASSUME ~nav.blame, nav.inspections < MaxInspections PROVE \A g \in Goals : ~Open(g)
    <3>1. nav.index = Len(Nearby)
      BY <1>1, <2>3, Constants
    <3>2. ~Open(Exact) /\ \A k \in 1..Len(Nearby) : ~Open(Nearby[k])
      BY <1>1, <2>1, <2>3, <3>1 DEF Searched
    <3> QED
      BY <3>2, Constants
  <2> QED
    BY <2>2, <2>3 DEF Right
<1>3. /\ IsNav(b) /\ Shaped(b) /\ b.status \in {"active", "blocked"}
      /\ b.status = "blocked" => b.reason = "no_path"
      /\ quiet /\ ~missed => Sound(b)
  BY <1>1, <1>2, BlockNoPathFields
<1>4. nav' = b /\ pc' = After(b)
  BY DEF NoCandidateLeft, Go
<1> HIDE DEF b
<1>5. InStep(b, pc') /\ pc' \in Parts
  BY <1>3, <1>4 DEF InStep, Parts, After, GivesUp
<1> QED
  BY <1>3, <1>4, <1>5, Conclude DEF NoCandidateLeft, Keep, IInv, Typed

\* A candidate fails, and peers are blamed for it or not.
LEMMA CandidateFails ==
  ASSUME IInv, nav.status = "active", nav.planning = "candidate", nav.candidate,
         NEW peer \in BOOLEAN,
         quiet /\ ~missed => (peer => world.peers) /\ (Open(nav.goal) => peer)
  PROVE  LET m == [nav EXCEPT !.blame = @ \/ peer, !.candidate = FALSE] IN
         /\ IsNav(m) /\ Shaped(m) /\ m.status = "active" /\ m.planning = "candidate"
         /\ quiet /\ ~missed => Sound(m)
<1> DEFINE blame == nav.blame \/ peer
           m == [nav EXCEPT !.blame = blame, !.candidate = FALSE]
<1>1. /\ IsNav(nav) /\ Shaped(nav) /\ blame \in BOOLEAN
      /\ nav.goal = Nearby[nav.index] /\ nav.index \in Nat
      /\ ~nav.waiting /\ ~nav.restart /\ ~nav.probe /\ nav.target = None
  <2>1. IsNav(nav) /\ Shaped(nav)
    BY DEF IInv, Typed
  <2> QED
    BY <2>1, Constants, NoneAssumption DEF Shaped, IsNav
<1>2. blame <=> nav.blame \/ peer
  OBVIOUS
<1> HIDE DEF blame
<1>3. IsNav(m)
  BY <1>1 DEF IsNav, Fields, Flags
<1>4. /\ m.status = "active" /\ m.planning = "candidate" /\ ~m.candidate
      /\ ~m.waiting /\ ~m.restart /\ ~m.probe /\ m.target = None
      /\ m.blame = blame /\ m.skip = nav.skip /\ m.index = nav.index
  BY <1>1 DEF IsNav, Fields, Flags
<1> HIDE DEF m
<1>5. Shaped(m)
  BY <1>4, NoneAssumption DEF Shaped, Following
<1>6. ASSUME quiet, ~missed PROVE Sound(m)
  <2>1. Searched(nav)
    BY <1>6 DEF IInv, Sound
  <2>2. Searched(m)
    BY <1>1, <1>2, <1>4, <1>6, <2>1 DEF Searched
  <2> QED
    BY <1>4, <2>2, NoneAssumption DEF Sound, Following, GivesUp
<1> QED
  BY <1>3, <1>4, <1>5, <1>6 DEF m, blame

\* The answer for a candidate.
LEMMA PlanCandidateInv == IInv /\ PlanCandidate => IInv'
<1> SUFFICES ASSUME IInv, PlanCandidate PROVE IInv'
  OBVIOUS
<1> DEFINE g == nav.goal
           pass(p) == [nav EXCEPT !.blame = @ \/ p, !.candidate = FALSE]
<1>1. /\ IsNav(nav) /\ Shaped(nav) /\ nav.status = "active" /\ nav.planning = "candidate"
      /\ nav.candidate /\ world \in Worlds /\ g \in Goals
      /\ ~nav.waiting /\ ~nav.restart /\ ~nav.probe
  <2>1. /\ IsNav(nav) /\ Shaped(nav) /\ nav.status = "active" /\ nav.planning = "candidate"
        /\ nav.candidate /\ world \in Worlds
    BY DEF PlanCandidate, IInv, Typed, InStep
  <2> QED
    BY <2>1, NoneAssumption DEF IsNav, Shaped
<1>2. PICK a \in Answers(g) :
        LET useful == a.failure = "ready" /\ CandidateIsSafe(nav.goal, FALSE, FALSE) IN
         \/ /\ ~useful
            /\ Go([nav EXCEPT !.blame = @ \/ Blame(a), !.candidate = FALSE], "search")
            /\ UNCHANGED moved
         \/ /\ useful /\ ~StartConnection(FALSE)
            /\ IF ~nav.recovered
                 THEN Go([nav EXCEPT !.recovered = TRUE, !.target = None], "coordinate")
                 ELSE Go([nav EXCEPT !.blame = @ \/ StartConnection(TRUE),
                                     !.candidate = FALSE], "search")
            /\ UNCHANGED moved
         \/ /\ useful /\ StartConnection(FALSE)
            /\ Go([Completed(nav) EXCEPT !.mode = Mode(nav.goal)], "drive")
            /\ moved' = FALSE
  BY DEF PlanCandidate
<1> DEFINE useful == a.failure = "ready" /\ CandidateIsSafe(nav.goal, FALSE, FALSE)
<1>3. /\ UNCHANGED <<at, there, world, missed, quiet>>
      /\ delta' \in BOOLEAN /\ moved' \in BOOLEAN /\ missed' \in BOOLEAN /\ quiet' \in BOOLEAN
  BY <1>2 DEF PlanCandidate, Keep, IInv, Typed
<1>4. a.peer \in BOOLEAN
      /\ a.failure \in {"ready", "goal_unreachable", "goal_blocked", "start_blocked"}
  BY <1>1, AnswerTypes
<1>5. ASSUME NEW p \in BOOLEAN, nav' = pass(p), pc' = "search",
             quiet /\ ~missed => (p => world.peers) /\ (Open(nav.goal) => p)
      PROVE  IInv'
  <2> DEFINE m == pass(p)
  <2>1. /\ IsNav(m) /\ Shaped(m) /\ m.status = "active" /\ m.planning = "candidate"
        /\ quiet /\ ~missed => Sound(m)
    BY <1>1, <1>5, CandidateFails
  <2> HIDE DEF m
  <2>2. InStep(m, pc') /\ pc' \in Parts
    BY <1>5, <2>1 DEF InStep, Parts
  <2>3. nav' = m
    BY <1>5 DEF m
  <2> QED
    BY <1>3, <2>1, <2>2, <2>3, Conclude
<1>6. CASE ~useful /\ nav' = pass(Blame(a)) /\ pc' = "search"
  <2>1. Blame(a) \in BOOLEAN
    BY <1>4 DEF Blame, CandidateIsSafe
  <2>2. ASSUME quiet, ~missed
        PROVE  (Blame(a) => world.peers) /\ (Open(nav.goal) => Blame(a))
    <3>1. /\ a.peer /\ a.failure # "ready" => world.peers
          /\ a.failure # "ready" /\ Open(g) => a.peer
      BY <1>1, <2>2, BlameIsRight
    <3>2. /\ CandidateIsSafe(g, FALSE, FALSE) <=> world.here[g] = "none"
          /\ CandidateIsSafe(g, FALSE, TRUE) <=> world.here[g] \in {"none", "peer", "beside"}
      BY <1>1, Safety
    <3>3. world.here[g] \in {"peer", "beside"} => world.peers
      BY <1>1, WorldFacts
    <3> QED
      BY <1>6, <3>1, <3>2, <3>3 DEF Blame, Open
  <2> QED
    BY <1>5, <1>6, <2>1, <2>2
<1>7. CASE useful /\ ~StartConnection(FALSE) /\ nav.recovered
           /\ nav' = pass(StartConnection(TRUE)) /\ pc' = "search"
  <2>1. StartConnection(TRUE) \in BOOLEAN
    BY DEF StartConnection
  <2>2. (StartConnection(TRUE) => world.peers) /\ (Open(nav.goal) => StartConnection(TRUE))
    <3>1. world.start = "peer" => world.peers
      BY <1>1, WorldFacts
    <3> QED
      BY <1>1, <1>7, <3>1, Safety DEF Open
  <2> QED
    BY <1>5, <1>7, <2>1, <2>2
<1>8. CASE nav' = [nav EXCEPT !.recovered = TRUE, !.target = None] /\ pc' = "coordinate"
  <2> DEFINE m == [nav EXCEPT !.recovered = TRUE, !.target = None]
  <2>1. IsNav(m)
    BY <1>1 DEF IsNav, Fields, Flags
  <2>2. /\ m.status = "active" /\ m.planning = "candidate" /\ m.target = None
        /\ ~m.waiting /\ ~m.restart /\ ~m.probe
        /\ m.candidate = nav.candidate /\ m.index = nav.index /\ m.goal = nav.goal
        /\ m.blame = nav.blame /\ m.skip = nav.skip
    BY <1>1 DEF IsNav, Fields, Flags
  <2>3. nav' = m
    BY <1>8
  <2> HIDE DEF m
  <2>4. Shaped(m) /\ InStep(m, pc') /\ pc' \in Parts
    BY <1>1, <1>8, <2>2, NoneAssumption DEF Shaped, Following, InStep, Parts
  <2>5. ASSUME quiet, ~missed PROVE Sound(m)
    <3>1. Searched(nav)
      BY <1>1, <2>5 DEF IInv, Sound
    <3>2. Searched(m)
      BY <2>2, <3>1 DEF Searched
    <3> QED
      BY <2>2, <3>2, NoneAssumption DEF Sound, Following, GivesUp
  <2> QED
    BY <1>3, <2>1, <2>3, <2>4, <2>5, Conclude
<1>9. CASE useful /\ nav' = [Completed(nav) EXCEPT !.mode = Mode(nav.goal)] /\ pc' = "drive"
  <2> DEFINE m == [Completed(nav) EXCEPT !.mode = Mode(nav.goal)]
  <2>1. Mode(nav.goal) \in {None, "exact", "approaching_safe_stop", "nearby_safe"}
    BY DEF Mode
  <2>2. world.here[g] = "none"
    BY <1>1, <1>9, Safety
  <2>3. IsNav(m) /\ Shaped(m) /\ Following(m) /\ Sound(m)
    BY <1>1, <2>1, <2>2, CompletedFields
  <2>4. nav' = m
    BY <1>9
  <2> HIDE DEF m
  <2>5. InStep(m, pc') /\ pc' \in Parts
    BY <1>9, <2>3 DEF InStep, Parts
  <2> QED
    BY <1>3, <2>3, <2>4, <2>5, Conclude
<1> HIDE DEF pass
<1>10. \/ ~useful /\ Go(pass(Blame(a)), "search")
       \/ /\ useful /\ ~StartConnection(FALSE)
          /\ IF ~nav.recovered
               THEN Go([nav EXCEPT !.recovered = TRUE, !.target = None], "coordinate")
               ELSE Go(pass(StartConnection(TRUE)), "search")
       \/ useful /\ Go([Completed(nav) EXCEPT !.mode = Mode(nav.goal)], "drive")
  BY <1>2 DEF pass
<1> HIDE DEF useful
<1>11. nav.recovered \in BOOLEAN
  BY <1>1 DEF IsNav, Flags
<1> QED
  BY <1>6, <1>7, <1>8, <1>9, <1>10, <1>11 DEF Go

\* The flag of a final approach, the stop before a confirmation and what is left of the
\* step say nothing about the route.
LEMMA FollowingFields ==
  ASSUME NEW n, IsNav(n), Following(n), NEW m, IsNav(m), ~m.candidate, ~m.restart,
         Same(m, n, {"final", "stop", "recovered", "target", "candidate", "restart"}),
         n.path = n.goal
  PROVE  /\ Shaped(m) /\ Following(m) /\ m.goal = n.goal /\ m.inspections = n.inspections
         /\ m.path = n.goal
         /\ Sound(n) => Sound(m)
<1>1. /\ m.status = "active" /\ m.planning = None /\ ~m.waiting /\ ~m.probe
      /\ m.goal = n.goal /\ m.path = n.goal /\ m.mode = n.mode /\ m.inspections = n.inspections
  BY DEF Following, Same, Fields, Flags
<1>2. Shaped(m) /\ Following(m)
  BY <1>1 DEF Shaped, Following
<1>3. Sound(n) => Sound(m)
  BY <1>1, NoneAssumption DEF Sound, Following, GivesUp
<1> QED
  BY <1>1, <1>2, <1>3

\* n of DriveReached and DriveOn.
Driving == [nav EXCEPT !.final = Final(nav)]

\* What a controller that follows its path knows, before and after it sets the flag.
LEMMA DrivingFields ==
  ASSUME IInv, pc = "drive"
  PROVE  /\ IsNav(nav) /\ Shaped(nav) /\ Following(nav) /\ world \in Worlds
         /\ nav.goal \in Goals /\ nav.path = nav.goal
         /\ ~nav.candidate /\ ~nav.restart
         /\ IsNav(Driving) /\ Shaped(Driving) /\ Following(Driving)
         /\ Same(Driving, nav, {"final"})
         /\ quiet /\ ~missed => Sound(nav) /\ Sound(Driving)
<1>1. /\ IsNav(nav) /\ Shaped(nav) /\ Following(nav) /\ world \in Worlds /\ nav.goal \in Goals
      /\ nav.path = nav.goal /\ ~nav.candidate /\ ~nav.restart
  <2>1. IsNav(nav) /\ Shaped(nav) /\ Following(nav) /\ world \in Worlds
    BY DEF IInv, Typed, InStep
  <2> QED
    BY <2>1, NoneAssumption DEF IsNav, Shaped, Following
<1>2. Final(nav) \in BOOLEAN
  <2>1. nav.final \in BOOLEAN
    BY <1>1 DEF IsNav, Flags
  <2> QED
    BY <2>1 DEF Final
<1>3. IsNav(Driving)
  BY <1>1, <1>2 DEF Driving, IsNav, Fields, Flags
<1>4. Same(Driving, nav, {"final"})
  BY <1>1 DEF Driving, IsNav, Same, Fields, Flags
<1>5. ~Driving.candidate /\ ~Driving.restart
  BY <1>1, <1>4 DEF Same, Fields, Flags
<1>6. Same(Driving, nav, {"final", "stop", "recovered", "target", "candidate", "restart"})
  BY <1>4 DEF Same
<1> QED
  BY <1>1, <1>3, <1>4, <1>5, <1>6, FollowingFields DEF IInv

\* At the goal: reached, a stop to confirm it, or unconfirmed for good.
LEMMA DriveReachedInv == IInv /\ DriveReached => IInv'
<1> SUFFICES ASSUME IInv, DriveReached PROVE IInv'
  OBVIOUS
<1> DEFINE g == nav.goal
           confirmed == nav.mode # "approaching_safe_stop" \/ CandidateIsSafe(g, TRUE, FALSE)
           peer == CandidateIsSafe(g, TRUE, TRUE)
           o == Cleared(Driving)
           mode == IF o.mode = "exact" THEN o.mode ELSE "nearby_safe"
           r == [o EXCEPT !.final = FALSE, !.status = "reached", !.stop = FALSE, !.mode = mode]
           s == [Driving EXCEPT !.stop = TRUE]
           b == BlockNoPath(Driving, peer)
<1>1. /\ IsNav(nav) /\ Shaped(nav) /\ Following(nav) /\ world \in Worlds
      /\ g \in Goals /\ nav.path = g /\ ~nav.candidate /\ ~nav.restart
      /\ IsNav(Driving) /\ Shaped(Driving) /\ Following(Driving)
      /\ Same(Driving, nav, {"final"})
      /\ quiet /\ ~missed => Sound(nav) /\ Sound(Driving)
  BY DrivingFields DEF DriveReached
<1>2. /\ UNCHANGED <<at, there, world, missed, quiet>> /\ at = g /\ there
      /\ delta' \in BOOLEAN /\ moved' \in BOOLEAN /\ missed' \in BOOLEAN /\ quiet' \in BOOLEAN
  BY DEF DriveReached, Keep, IInv, Typed
<1>3. /\ IsNav(o) /\ ~o.candidate /\ o.planning = None /\ o.mode = nav.mode
      /\ ~o.waiting /\ ~o.restart /\ ~o.probe
  <2>1. /\ IsNav(o) /\ ~o.candidate /\ o.planning = None
        /\ Same(o, Driving, {"planning", "index", "candidate", "skip", "blame"})
    BY <1>1, ClearedFields
  <2> HIDE DEF o
  <2> QED
    BY <1>1, <2>1 DEF Same, Fields, Flags, Following
<1>4. \/ confirmed /\ nav' = r /\ pc' = "idle"
      \/ ~confirmed /\ ~nav.stop /\ nav' = s /\ pc' = "coordinate"
      \/ ~confirmed /\ nav' = b /\ pc' = After(b)
  <2>1. o.mode = nav.mode /\ DOMAIN o = Fields
    BY <1>3 DEF IsNav
  <2>2. \/ /\ confirmed
           /\ Go([o EXCEPT !.final = FALSE, !.status = "reached", !.stop = FALSE,
                     !.mode = IF @ = "exact" THEN @ ELSE "nearby_safe"], "idle")
        \/ /\ ~confirmed /\ ~nav.stop /\ Go([Driving EXCEPT !.stop = TRUE], "coordinate")
        \/ /\ ~confirmed /\ nav.stop /\ Go(b, After(b))
    BY DEF DriveReached, Driving
  <2> HIDE DEF o, b, confirmed
  <2>3. [o EXCEPT !.final = FALSE, !.status = "reached", !.stop = FALSE,
                  !.mode = IF @ = "exact" THEN @ ELSE "nearby_safe"] = r
    BY <2>1 DEF Fields, Flags
  <2> QED
    BY <2>2, <2>3 DEF Go
<1>5. CASE nav' = r /\ pc' = "idle"
  <2>1. mode \in {None, "exact", "approaching_safe_stop", "nearby_safe"}
    BY <1>3 DEF IsNav
  <2> HIDE DEF o, mode
  <2>2. IsNav(r)
    BY <1>3, <2>1 DEF IsNav, Fields, Flags
  <2>3. /\ r.status = "reached" /\ r.planning = None
        /\ ~r.candidate /\ ~r.waiting /\ ~r.restart /\ ~r.probe
    BY <1>3 DEF IsNav, Fields, Flags
  <2> HIDE DEF r
  <2>4. Shaped(r) /\ InStep(r, pc') /\ pc' \in Parts /\ Sound(r)
    BY <1>5, <2>3, EndedIsSound, NoneAssumption DEF Shaped, Following, InStep, Parts
  <2> QED
    BY <1>2, <1>5, <2>2, <2>4, Conclude
<1>6. CASE nav' = s /\ pc' = "coordinate"
  <2>1. IsNav(s)
    BY <1>1 DEF IsNav, Fields, Flags
  <2>2. Same(s, Driving, {"stop"})
    BY <1>1 DEF IsNav, Same, Fields, Flags
  <2> HIDE DEF s
  <2>3. /\ ~s.candidate /\ ~s.restart
        /\ Same(s, Driving, {"final", "stop", "recovered", "target", "candidate", "restart"})
        /\ Driving.path = Driving.goal
    BY <1>1, <2>2 DEF Same, Fields, Flags
  <2>4. Shaped(s) /\ (Sound(Driving) => Sound(s))
    BY <1>1, <2>1, <2>3, FollowingFields
  <2>5. InStep(s, pc') /\ pc' \in Parts
    BY <1>6 DEF InStep, Parts
  <2> QED
    BY <1>1, <1>2, <1>6, <2>1, <2>4, <2>5, Conclude
<1>7. CASE ~confirmed /\ nav' = b /\ pc' = After(b)
  <2>1. peer \in BOOLEAN /\ Driving.goal = g /\ Driving.inspections = nav.inspections
    BY <1>1 DEF CandidateIsSafe, Same, Fields, Flags
  <2>2. ASSUME quiet, ~missed PROVE ~peer /\ Right(g)
    <3>1. world.here[g] = "none"
      BY <1>1, <1>7, <2>2 DEF Sound
    <3>2. ~world.seen[g]
      BY <1>1, <1>7, <3>1, Safety
    <3> QED
      BY <1>1, <1>2, <3>2, Safety DEF Right
  <2> HIDE DEF peer, confirmed
  <2>3. /\ IsNav(b) /\ Shaped(b) /\ b.status \in {"active", "blocked"}
        /\ b.status = "blocked" => b.reason = "no_path"
        /\ quiet /\ ~missed => Sound(b)
    BY <1>1, <2>1, <2>2, BlockNoPathFields
  <2> HIDE DEF b
  <2>4. InStep(b, pc') /\ pc' \in Parts
    BY <1>7, <2>3 DEF InStep, Parts, After, GivesUp
  <2> QED
    BY <1>2, <1>7, <2>3, <2>4, Conclude
<1> HIDE DEF r, s, b, confirmed
<1> QED
  BY <1>4, <1>5, <1>6, <1>7

\* On the way: the next waypoint, a new plan, or no way on.
LEMMA DriveOnInv == IInv /\ DriveOn => IInv'
<1> SUFFICES ASSUME IInv, DriveOn PROVE IInv'
  OBVIOUS
<1> DEFINE ahead == ~Driving.final /\ at # nav.path
           target == IF ahead THEN "step" ELSE "goal"
           s == [Driving EXCEPT !.recovered = FALSE, !.target = target]
           p == [Driving EXCEPT !.recovered = TRUE, !.planning = "goal", !.target = None]
           peer == StartConnection(TRUE)
           b == BlockNoPath(Driving, peer)
<1>1. /\ IsNav(nav) /\ Shaped(nav) /\ Following(nav) /\ world \in Worlds
      /\ nav.goal \in Goals /\ nav.path = nav.goal /\ ~nav.candidate /\ ~nav.restart
      /\ IsNav(Driving) /\ Shaped(Driving) /\ Following(Driving)
      /\ Same(Driving, nav, {"final"})
      /\ quiet /\ ~missed => Sound(nav) /\ Sound(Driving)
  BY DrivingFields DEF DriveOn
<1>2. /\ UNCHANGED <<at, there, world, missed>>
      /\ delta' \in BOOLEAN /\ moved' \in BOOLEAN /\ missed' \in BOOLEAN
  BY DEF DriveOn, Keep, IInv, Typed
<1>3. \/ nav' = s /\ pc' = "coordinate" /\ quiet' = quiet
      \/ nav' = p /\ pc' = "coordinate" /\ quiet' = (nav.goal = Exact)
      \/ ~StartConnection(FALSE) /\ nav' = b /\ pc' = After(b) /\ quiet' = quiet
  BY DEF DriveOn, Driving, Go
<1>4. quiet' \in BOOLEAN
  BY <1>3 DEF IInv, Typed
<1>5. CASE nav' = s /\ pc' = "coordinate" /\ quiet' = quiet
  <2>1. target \in {"step", "goal"}
    OBVIOUS
  <2> HIDE DEF target
  <2>2. IsNav(s)
    BY <1>1, <2>1 DEF IsNav, Fields, Flags
  <2>3. Same(s, Driving, {"recovered", "target"})
    BY <1>1 DEF IsNav, Same, Fields, Flags
  <2> HIDE DEF s
  <2>4. /\ ~s.candidate /\ ~s.restart
        /\ Same(s, Driving, {"final", "stop", "recovered", "target", "candidate", "restart"})
        /\ Driving.path = Driving.goal
    BY <1>1, <2>3 DEF Same, Fields, Flags
  <2>5. Shaped(s) /\ (Sound(Driving) => Sound(s))
    BY <1>1, <2>2, <2>4, FollowingFields
  <2>6. InStep(s, pc') /\ pc' \in Parts
    BY <1>5 DEF InStep, Parts
  <2> QED
    BY <1>1, <1>2, <1>4, <1>5, <2>2, <2>5, <2>6, Conclude
<1>6. CASE nav' = p /\ pc' = "coordinate" /\ quiet' = (nav.goal = Exact)
  <2>1. IsNav(p)
    BY <1>1 DEF IsNav, Fields, Flags
  <2>2. Same(p, Driving, {"recovered", "planning", "target"}) /\ p.planning = "goal"
        /\ p.target = None
    BY <1>1 DEF IsNav, Same, Fields, Flags
  <2> HIDE DEF p
  <2>3. /\ p.status = "active" /\ p.goal = nav.goal
        /\ ~p.candidate /\ ~p.waiting /\ ~p.restart /\ ~p.probe
    BY <1>1, <2>2 DEF Same, Fields, Flags, Following
  <2>4. Shaped(p) /\ (nav.goal = Exact => Sound(p))
    BY <2>2, <2>3, NoneAssumption DEF Shaped, Sound, Following, GivesUp
  <2>5. InStep(p, pc') /\ pc' \in Parts
    BY <1>6 DEF InStep, Parts
  <2> QED
    BY <1>2, <1>4, <1>6, <2>1, <2>4, <2>5, Conclude
<1>7. CASE ~StartConnection(FALSE) /\ nav' = b /\ pc' = After(b) /\ quiet' = quiet
  <2>1. peer \in BOOLEAN
    BY DEF StartConnection
  <2>2. (peer => world.peers) /\ (~peer => Right(Driving.goal))
    <3>1. world.start # "none" /\ (peer <=> world.start \in {"none", "peer"})
      BY <1>1, <1>7, Safety
    <3>2. peer => world.peers
      BY <1>1, <3>1, WorldFacts
    <3>3. ~peer => \A h \in Goals : ~Open(h)
      BY <3>1 DEF Open
    <3> QED
      BY <3>2, <3>3 DEF Right
  <2> HIDE DEF peer
  <2>3. /\ IsNav(b) /\ Shaped(b) /\ b.status \in {"active", "blocked"}
        /\ b.status = "blocked" => b.reason = "no_path"
        /\ Sound(b)
    BY <1>1, <2>1, <2>2, BlockNoPathFields
  <2> HIDE DEF b
  <2>4. InStep(b, pc') /\ pc' \in Parts
    BY <1>7, <2>3 DEF InStep, Parts, After, GivesUp
  <2> QED
    BY <1>2, <1>4, <1>7, <2>3, <2>4, Conclude
<1> HIDE DEF s, p, b
<1> QED
  BY <1>3, <1>5, <1>6, <1>7

\* Giving up for good keeps the reason there was.
LEMMA ClassifyInv == IInv /\ Classify => IInv'
<1> SUFFICES ASSUME IInv, Classify PROVE IInv'
  OBVIOUS
<1> DEFINE attributed == IF nav.probe THEN nav.attributed ELSE world.peers
           grace == nav.grace \/ ~attributed
           b == Blocked(nav, "no_path")
           o == NotWaiting(nav)
           w == Waits(nav, TRUE)
           r == [ResumeAfterTransient(nav) EXCEPT !.grace = grace]
           p == Probing(nav, attributed)
<1>1. /\ IsNav(nav) /\ Shaped(nav) /\ GivesUp(nav) /\ world \in Worlds
      /\ attributed \in BOOLEAN /\ ~nav.waiting /\ ~nav.restart
      /\ nav.status = "blocked" => /\ nav.reason = "no_path" /\ nav.planning = None
                                   /\ ~nav.probe /\ ~nav.candidate
  <2>1. IsNav(nav) /\ Shaped(nav) /\ GivesUp(nav) /\ world \in Worlds
    BY DEF Classify, IInv, Typed, InStep
  <2>2. attributed \in BOOLEAN
    BY <2>1, WorldFacts DEF IsNav, Flags
  <2>3. ~nav.waiting
    BY <2>1 DEF Shaped, GivesUp
  <2>4. ~nav.restart
    BY <2>1, <2>3 DEF Shaped
  <2>5. nav.status = "blocked" => /\ nav.reason = "no_path" /\ nav.planning = None
                                  /\ ~nav.probe /\ ~nav.candidate
    BY <2>1, NoneAssumption DEF Shaped, GivesUp
  <2> QED
    BY <2>1, <2>2, <2>3, <2>4, <2>5
<1>2. /\ UNCHANGED <<at, there, world, moved>> /\ moved' \in BOOLEAN /\ delta' \in BOOLEAN
  BY DEF Classify, Keep, IInv, Typed
<1>3. ASSUME quiet, ~missed
      PROVE  /\ attributed /\ nav.probe => world.peers
             /\ nav.inspections < MaxInspections => Right(nav.goal)
  BY <1>1, <1>3 DEF IInv, Sound, GivesUp
<1>4. \/ /\ nav' = (IF nav.status = "blocked" THEN nav ELSE b) \/ nav' = (IF nav.status = "blocked" THEN o ELSE b)
         /\ pc' = "idle" /\ UNCHANGED <<missed, quiet>>
      \/ nav' = p /\ pc' = "coordinate" /\ UNCHANGED <<missed, quiet>>
      \/ attributed /\ nav' = w /\ pc' = "coordinate" /\ UNCHANGED <<missed, quiet>>
      \/ nav' = r /\ pc' = "coordinate" /\ missed' = FALSE /\ quiet' = TRUE
  <2>1. ResumeAfterTransient(nav).grace = nav.grace /\ DOMAIN ResumeAfterTransient(nav) = Fields
    BY <1>1 DEF ResumeAfterTransient, Cleared, NotWaiting, IsNav, Fields, Flags
  <2>2. [ResumeAfterTransient(nav) EXCEPT !.grace = @ \/ ~attributed] = r
    <3> DEFINE q == ResumeAfterTransient(nav)
    <3>1. q.grace = nav.grace
      BY <2>1
    <3> HIDE DEF q
    <3> QED
      BY <3>1 DEF q
  <2> HIDE DEF r, attributed, b, o, w
  <2> QED
    BY <2>2 DEF Classify, Go, Probing, attributed, b, o, w
<1>5. missed' \in BOOLEAN /\ quiet' \in BOOLEAN
  BY <1>4 DEF IInv, Typed
<1>6. ASSUME NEW n, nav' = n, pc' = "idle", UNCHANGED <<missed, quiet>>,
             IsNav(n), Shaped(n), n.status = "blocked", n.goal = nav.goal,
             n.inspections = nav.inspections, n.planning = None
      PROVE  IInv'
  <2>1. InStep(n, pc') /\ pc' \in Parts
    BY <1>6 DEF InStep, Parts
  <2>2. ASSUME quiet, ~missed PROVE Sound(n)
    BY <1>3, <1>6, <2>2, NoneAssumption DEF Sound, Following
  <2> QED
    BY <1>2, <1>5, <1>6, <2>1, <2>2, Conclude
<1>7. CASE nav' = b /\ pc' = "idle" /\ UNCHANGED <<missed, quiet>>
  <2>1. /\ IsNav(b) /\ Shaped(b) /\ b.status = "blocked" /\ b.goal = nav.goal
        /\ b.inspections = nav.inspections
    BY <1>1, BlockedFields
  <2> HIDE DEF b
  <2>2. b.planning = None
    BY <2>1 DEF Shaped
  <2> QED
    BY <1>6, <1>7, <2>1, <2>2
<1>8. CASE nav.status = "blocked" /\ nav' = o /\ pc' = "idle" /\ UNCHANGED <<missed, quiet>>
  <2>1. /\ IsNav(o) /\ ~o.waiting /\ ~o.restart /\ ~o.probe
        /\ Same(o, nav, {"waiting", "restart", "probe", "attributed"})
    BY <1>1, NotWaitingFields
  <2> HIDE DEF o
  <2>2. /\ o.status = "blocked" /\ o.planning = None /\ ~o.candidate
        /\ o.goal = nav.goal /\ o.inspections = nav.inspections
    BY <1>1, <1>8, <2>1 DEF Same, Fields, Flags
  <2>3. Shaped(o)
    BY <2>1, <2>2 DEF Shaped, Following
  <2> QED
    BY <1>6, <1>8, <2>1, <2>2, <2>3
<1>9. CASE nav.status = "blocked" /\ nav' = nav /\ pc' = "idle" /\ UNCHANGED <<missed, quiet>>
  BY <1>1, <1>6, <1>9
<1>10. CASE nav' = p /\ pc' = "coordinate" /\ UNCHANGED <<missed, quiet>>
  <2>1. ASSUME quiet, ~missed PROVE attributed => world.peers
    BY <1>3, <2>1
  <2> HIDE DEF attributed
  <2>2. IsNav(p) /\ Shaped(p) /\ (quiet /\ ~missed => Sound(p))
    BY <1>1, <1>3, <2>1, ProbingFields
  <2> HIDE DEF p
  <2>3. InStep(p, pc') /\ pc' \in Parts
    BY <1>10 DEF InStep, Parts
  <2> QED
    BY <1>2, <1>5, <1>10, <2>2, <2>3, Conclude
<1>11. CASE attributed /\ nav' = w /\ pc' = "coordinate" /\ UNCHANGED <<missed, quiet>>
  <2>1. ASSUME quiet, ~missed PROVE world.peers
    BY <1>3, <1>11, <2>1
  <2>2. IsNav(w) /\ Shaped(w) /\ (quiet /\ ~missed => Sound(w))
    BY <1>1, <2>1, WaitsFields
  <2> HIDE DEF w
  <2>3. InStep(w, pc') /\ pc' \in Parts
    BY <1>11 DEF InStep, Parts
  <2> QED
    BY <1>2, <1>5, <1>11, <2>2, <2>3, Conclude
<1>12. CASE nav' = r /\ pc' = "coordinate"
  <2>1. grace \in BOOLEAN
    BY <1>1 DEF IsNav, Flags
  <2> HIDE DEF grace
  <2>2. IsNav(r) /\ Shaped(r) /\ Sound(r)
    BY <1>1, <2>1, ResumeFields
  <2> HIDE DEF r
  <2>3. InStep(r, pc') /\ pc' \in Parts
    BY <1>12 DEF InStep, Parts
  <2> QED
    BY <1>2, <1>5, <1>12, <2>2, <2>3, Conclude
<1> HIDE DEF b, o, w, r, p
<1> QED
  BY <1>4, <1>7, <1>8, <1>9, <1>10, <1>11, <1>12

(***************************************************************************)
(* The theorems.                                                           *)
(***************************************************************************)
LEMMA NextInv == IInv /\ [Next]_vars => IInv'
<1> SUFFICES ASSUME IInv, [Next]_vars PROVE IInv'
  OBVIOUS
<1>1. CASE UNCHANGED vars
  BY <1>1, SameNav DEF vars, IInv, Typed
<1>2. CASE Next
  BY <1>2, StartInv, CancelInv, ChangeInv, MoveInv, TickUnsafeInv, QuietStepsInv, UpdateInv,
     PlanGoalInv, NextCandidateInv, NoCandidateLeftInv, PlanCandidateInv, DriveReachedInv,
     DriveOnInv, ClassifyInv DEF Next, Step
<1> QED
  BY <1>1, <1>2

\* At most one of three, as TypeOK counts it.
LEMMA AtMostOneOfThree ==
  ASSUME NEW a \in BOOLEAN, NEW b \in BOOLEAN, NEW c \in BOOLEAN, a => ~b /\ ~c, b => ~c
  PROVE  Cardinality({k \in 1..3 : <<a, b, c>>[k]}) <= 1
<1> DEFINE S == {k \in 1..3 : <<a, b, c>>[k]}
<1>1. \A k \in S : (k = 1 /\ a) \/ (k = 2 /\ b) \/ (k = 3 /\ c)
  <2> SUFFICES ASSUME NEW k \in 1..3, <<a, b, c>>[k]
               PROVE  (k = 1 /\ a) \/ (k = 2 /\ b) \/ (k = 3 /\ c)
    OBVIOUS
  <2>1. <<a, b, c>>[1] = a /\ <<a, b, c>>[2] = b /\ <<a, b, c>>[3] = c
    OBVIOUS
  <2>2. k = 1 \/ k = 2 \/ k = 3
    OBVIOUS
  <2> QED
    BY <2>1, <2>2
<1> HIDE DEF S
<1>2. S = {} \/ \E k : S = {k}
  BY <1>1
<1>3. CASE S = {}
  <2>1. Cardinality(S) = 0
    BY <1>3, FS_EmptySet
  <2> QED
    BY <2>1 DEF S
<1>4. CASE \E k : S = {k}
  <2>1. Cardinality(S) = 1
    BY <1>4, FS_Singleton
  <2> QED
    BY <2>1 DEF S
<1> QED
  BY <1>2, <1>3, <1>4 DEF S

\* IInv contains the type invariant.
LEMMA InvImpliesTypeOK == IInv => TypeOK
<1> SUFFICES ASSUME IInv PROVE TypeOK
  OBVIOUS
<1>1. IsNav(nav) /\ Shaped(nav)
  BY DEF IInv, Typed
<1>2. ASSUME nav.status = "active"
      PROVE  /\ Cardinality({k \in 1..3 : <<nav.planning # None, nav.waiting, nav.probe>>[k]}) <= 1
             /\ nav.waiting \/ nav.probe => nav.path = None /\ nav.target = None
             /\ nav.target # None => nav.path = nav.goal /\ nav.planning = None
             /\ nav.candidate => nav.planning = "candidate"
  <2> DEFINE planning == nav.planning # None
  <2>1. /\ planning => ~nav.waiting /\ ~nav.probe
        /\ nav.waiting => ~nav.probe
    BY <1>1, <1>2 DEF Shaped
  <2>2. nav.waiting \in BOOLEAN /\ nav.probe \in BOOLEAN /\ planning \in BOOLEAN
    BY <1>1 DEF IsNav, Flags
  <2> HIDE DEF planning
  <2>3. Cardinality({k \in 1..3 : <<planning, nav.waiting, nav.probe>>[k]}) <= 1
    BY <2>1, <2>2, AtMostOneOfThree
  <2>4. /\ nav.waiting \/ nav.probe => nav.path = None /\ nav.target = None
        /\ nav.target # None => nav.path = nav.goal /\ nav.planning = None
        /\ nav.candidate => nav.planning = "candidate"
    BY <1>1, <1>2 DEF Shaped, Following
  <2> QED
    BY <2>3, <2>4 DEF planning
<1> QED
  BY <1>1, <1>2 DEF TypeOK, IsNav, Shaped

\* In every situation and for every set of candidates, IInv holds throughout.
THEOREM Invariance == Spec => []IInv
<1>1. Init => IInv
  BY InitInv
<1>2. IInv /\ [Next]_vars => IInv'
  BY NextInv
<1> QED
  BY <1>1, <1>2, PTL DEF Spec

\* TypeOK of goal following: it plans, waits, probes or follows a path, never two of them,
\* whatever is interrupted by a safety stop, a change of the map or a peer.
THEOREM TypeCorrect == Spec => []TypeOK
<1>1. IInv => TypeOK
  BY InvImpliesTypeOK
<1> QED
  BY <1>1, Invariance, PTL

\* A mission is given up for want of a path only if there is none without the peers either,
\* and waits only while there are peers (VerdictIsRight), whatever the order in which the
\* candidates are searched and however the search is spread over ticks.
THEOREM VerdictCorrect == Spec => []VerdictIsRight
<1>1. IInv => VerdictIsRight
  BY DEF IInv, Sound, GivesUp, Right, VerdictIsRight
<1> QED
  BY <1>1, Invariance, PTL
=============================================================================
