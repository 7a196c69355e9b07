---------------------------- MODULE DStarLiteProofs ----------------------------
(* What the planner may claim, on grids of any size with any margin,         *)
(* footprint, budget and order of map changes, peer moves, start moves and   *)
(* restarts.  First, what incremental search rests on: the queue holds       *)
(* exactly the inconsistent cells, and the lookahead value of every cell is  *)
(* that of today's map.  Then what a search from scratch finds, and that the *)
(* keys left in the queue bound those of today; with these a search that is  *)
(* over has found a shortest way to the goal or excluded every way.  Last,   *)
(* the probe without the peers, and the answers.                             *)
EXTENDS DStarLite, FiniteSetTheorems, WellFoundedInduction, TLAPS

-----------------------------------------------------------------------------
(* The inductive invariant.                                                   *)

Keys == Nat \X Nat

Boxed == bounds \in Int \X Int \X Int \X Int
Numbers == g \in [Cells -> 0 .. Inf] /\ rhs \in [Cells -> 0 .. Inf]
Queued == open \in [DOMAIN open -> Keys]

\* What the vehicle has seen.
Sighted ==
    /\ grid \in [Cells -> States] /\ states \in [Cells -> States]
    /\ peers \subseteq Cells /\ delta \subseteq Cells /\ peerForbidden \subseteq Cells
    /\ events \in 0 .. MaxEvents

\* The request and the window around it.
Asked == /\ start \in Starts /\ goal \in Goals /\ Boxed
         /\ Window \subseteq Cells /\ goal \in Window

\* The search for it.
Searched ==
    /\ bounds = None <=> goal = None
    /\ start = None <=> goal = None
    /\ goal # None => Asked
    /\ km \in Nat /\ Numbers /\ Queued /\ DOMAIN open \subseteq Window
    /\ QueueIsInconsistent

\* The call under way, if any.
Called ==
    /\ position \in {None, start}
    /\ spent \in Nat /\ left \in Nat
    /\ pc = "search" => spent <= Limit
    /\ pending \in BOOLEAN /\ byPeer \in BOOLEAN
    /\ probe = None <=> visited = {}
    /\ recovery \in Requests
    /\ pc \in {"idle", "search", "probe"}
    /\ pc # "idle" => goal # None /\ position = start
    /\ pc = "probe" => probe # None
    /\ probe # None => goal # None /\ probe = <<start, goal, start>>
    /\ result \in {None, "pending", "ready", "unreachable"}

\* A change the planner was not told of concerns the cells it will update, no other.
Lookahead ==
    goal # None /\ ~missed =>
        \E B \in {BlockedCells(peerForbidden)} :
            \A c \in Window \ (B \cup {goal} \cup Affected(delta)) : rhs[c] = Best(B, c)

IInv == Sighted /\ Searched /\ Called /\ Lookahead

-----------------------------------------------------------------------------
(* Numbers.                                                                   *)

\* A set of natural numbers has a least element.
LEMMA LeastExists ==
    ASSUME NEW S, S \subseteq Nat, S # {}
    PROVE  \E x \in S : \A y \in S : x <= y
<1>1. PICK x \in S : \A y \in S : ~ (<<y, x>> \in OpToRel(<, Nat))
    BY NatLessThanWellFounded, WFMin, Zenon
<1>2. \A y \in S : ~ (y < x)
    BY <1>1, Zenon DEF OpToRel
<1> QED
    BY <1>2

\* Least is an element.
LEMMA LeastIsElement ==
    ASSUME NEW S, S \subseteq Nat, S # {}
    PROVE  Least(S) \in S /\ \A y \in S : Least(S) <= y
<1>1. \E x \in S : \A y \in S : x <= y
    BY LeastExists
<1> QED
    BY <1>1 DEF Least

\* A product of numbers is one.
LEMMA Times == ASSUME NEW a \in Nat, NEW b \in Nat PROVE a * b \in Nat
OBVIOUS

\* The largest cost is a number.
LEMMA InfIsNat == Inf \in Nat /\ Span \in Nat
<1>1. Span \in Nat
    BY DStarLiteAssumption DEF Span
<1>2. 100 * Span \in Nat
    BY <1>1
<1>3. (100 * Span) * Span \in Nat
    BY <1>1, <1>2, Times
<1>4. ((100 * Span) * Span) * UnknownCost \in Nat
    BY <1>3, DStarLiteAssumption, Times
<1> QED
    BY <1>1, <1>4 DEF Inf

\* Saturated addition.
LEMMA PlusSaturates ==
    ASSUME NEW a \in Nat, NEW b \in Nat
    PROVE  Plus(a, b) \in 0 .. Inf /\ Plus(a, Inf) = Inf
BY InfIsNat DEF Plus, Lesser

\* Every cost is a number, forbidden moves included.
LEMMA CostsAreNumbers ==
    ASSUME NEW P, NEW B, NEW c, NEW d
    PROVE  Cost(P, B, c, d) \in Nat
<1>1. Step(c, d) \in Nat
    BY DEF Step, Straight, Diagonal
<1>2. StepCost(c, d) \in Nat
    BY <1>1, DStarLiteAssumption DEF StepCost
<1>3. StartConnectionCost(P, B, c, d) \in Nat
    BY <1>2, InfIsNat DEF StartConnectionCost
<1> QED
    BY <1>2, <1>3, InfIsNat DEF Cost

\* The heuristic is a number.
LEMMA OctileIsNumber ==
    ASSUME NEW c \in Cells, NEW d \in Cells
    PROVE  Octile(c, d) \in Nat
<1>1. c[1] \in Int /\ c[2] \in Int /\ d[1] \in Int /\ d[2] \in Int
    BY DStarLiteAssumption DEF Cells
<1>2. Distance(c[1], d[1]) \in Nat /\ Distance(c[2], d[2]) \in Nat
    BY <1>1 DEF Distance
<1> QED
    BY <1>2 DEF Octile, Straight, Diagonal, Greater, Lesser

\* The lookahead value of a cell.
LEMMA BestIsNumber ==
    ASSUME NEW B, NEW c, g \in [Cells -> 0 .. Inf], Window \subseteq Cells, bounds # None,
           Neighbours(c) \subseteq Window
    PROVE  Best(B, c) \in 0 .. Inf
<1> DEFINE S == {Plus(Cost(peerForbidden, B, c, d), g[d]) : d \in Neighbours(c)}
<1>1. S \subseteq 0 .. Inf
  <2> SUFFICES ASSUME NEW d \in Neighbours(c)
               PROVE  Plus(Cost(peerForbidden, B, c, d), g[d]) \in 0 .. Inf
      OBVIOUS
  <2>1. g[d] \in Nat
      BY InfIsNat
  <2> QED
      BY <2>1, CostsAreNumbers, PlusSaturates
<1> HIDE DEF S
<1>2. {Inf} \cup S \subseteq Nat /\ {Inf} \cup S # {} /\ {Inf} \cup S \subseteq 0 .. Inf
    BY <1>1, InfIsNat
<1>3. Least({Inf} \cup S) \in {Inf} \cup S
    BY <1>2, LeastIsElement
<1> QED
    BY <1>2, <1>3 DEF Best, S

-----------------------------------------------------------------------------
(* Geometry.                                                                  *)

\* The window is a set of cells.
LEMMA WindowIsGrid ==
    ASSUME bounds \in Int \X Int \X Int \X Int
    PROVE  /\ Window \subseteq Int \X Int
           /\ \A c \in Int \X Int : Inside(c) <=> c \in Window
<1>1. bounds # None
    BY WorldAssumption
<1>2. Window = (bounds[1] .. bounds[3]) \X (bounds[2] .. bounds[4])
    BY <1>1 DEF Window
<1>3. bounds[1] \in Int /\ bounds[2] \in Int /\ bounds[3] \in Int /\ bounds[4] \in Int
    OBVIOUS
<1> QED
    BY <1>1, <1>2, <1>3 DEF Inside, Within

\* The window is finite, so a session has a limit.
LEMMA WindowIsFinite ==
    ASSUME bounds \in Int \X Int \X Int \X Int
    PROVE  IsFiniteSet(Window) /\ Limit \in Nat
<1> DEFINE X == bounds[1] .. bounds[3]
<1> DEFINE Y == bounds[2] .. bounds[4]
<1>1. bounds # None
    BY WorldAssumption
<1>2. IsFiniteSet(X)
    BY FS_Interval
<1>3. IsFiniteSet(Y)
    BY FS_Interval
<1> HIDE DEF X, Y
<1>4. IsFiniteSet(X \X Y)
    BY <1>2, <1>3, FS_Product
<1>5. Window = X \X Y
    BY <1>1 DEF Window, X, Y
<1>6. Cardinality(Window) \in Nat
    BY <1>4, <1>5, FS_CardinalityType
<1> QED
    BY <1>4, <1>5, <1>6, Times, DStarLiteAssumption DEF Limit

\* Neighbours are cells of the window one step away, and the relation is symmetric.
LEMMA NeighboursAreNear ==
    ASSUME bounds \in Int \X Int \X Int \X Int, NEW c \in Int \X Int
    PROVE  /\ Neighbours(c) = {d \in Square(c, 1) : d # c} \cap Window
           /\ c \notin Neighbours(c)
<1>1. Square(c, 1) \subseteq Int \X Int
    BY DEF Square
<1> QED
    BY <1>1, WindowIsGrid DEF Neighbours

\* A cell lies in the square around another when the other lies in its own.
LEMMA SquaresAreMutual ==
    ASSUME NEW c \in Int \X Int, NEW d \in Int \X Int, NEW r \in Nat
    PROVE  d \in Square(c, r) <=> c \in Square(d, r)
<1>1. c = <<c[1], c[2]>> /\ d = <<d[1], d[2]>>
    OBVIOUS
<1>2. c[1] \in Int /\ c[2] \in Int /\ d[1] \in Int /\ d[2] \in Int
    OBVIOUS
<1>3. d \in Square(c, r) <=> d[1] \in c[1] - r .. c[1] + r /\ d[2] \in c[2] - r .. c[2] + r
    BY <1>1 DEF Square
<1>4. c \in Square(d, r) <=> c[1] \in d[1] - r .. d[1] + r /\ c[2] \in d[2] - r .. d[2] + r
    BY <1>1 DEF Square
<1> QED
    BY <1>2, <1>3, <1>4

\* A neighbour is in the window and has the cell as its neighbour.
LEMMA NeighboursAreMutual ==
    ASSUME bounds \in Int \X Int \X Int \X Int, NEW c \in Window, NEW d \in Neighbours(c)
    PROVE  d \in Window /\ c \in Neighbours(d)
<1>1. c \in Int \X Int
    BY WindowIsGrid
<1>2. d \in Square(c, 1) /\ d # c /\ d \in Window
    BY <1>1, NeighboursAreNear
<1>3. d \in Int \X Int
    BY <1>2, WindowIsGrid
<1>4. c \in Square(d, 1)
    BY <1>1, <1>2, <1>3, SquaresAreMutual
<1> QED
    BY <1>2, <1>3, <1>4, NeighboursAreNear

\* A step from c touches the square around c only.
LEMMA CornersAreNear ==
    ASSUME NEW c \in Int \X Int, NEW d \in Square(c, 1), NEW e \in {d} \cup Corners(c, d)
    PROVE  e \in Square(c, 1) /\ e \in Int \X Int
<1>1. c = <<c[1], c[2]>> /\ c[1] \in Int /\ c[2] \in Int
    OBVIOUS
<1>2. d[1] \in c[1] - 1 .. c[1] + 1 /\ d[2] \in c[2] - 1 .. c[2] + 1 /\ d = <<d[1], d[2]>>
    BY DEF Square
<1>3. c[1] \in c[1] - 1 .. c[1] + 1 /\ c[2] \in c[2] - 1 .. c[2] + 1
    BY <1>1
<1>4. e = d \/ e = <<c[1], d[2]>> \/ e = <<d[1], c[2]>>
    BY DEF Corners
<1>5. e \in Square(c, 1)
    BY <1>2, <1>3, <1>4 DEF Square
<1> QED
    BY <1>1, <1>5 DEF Square

-----------------------------------------------------------------------------
(* What a change of the map reaches.                                          *)

\* Cells have integer coordinates.
LEMMA CellsAreGrid == Cells \subseteq Int \X Int
BY DStarLiteAssumption DEF Cells

\* What is updated lies in the window and grows with the change.
LEMMA AffectedIsInside ==
    ASSUME Boxed, NEW C, C \subseteq Cells
    PROVE  Affected(C) \subseteq Window /\ Affected({}) = {}
<1> DEFINE near == {d \in UNION {Square(c, Reach + 1) : c \in C} : Inside(d)}
<1>1. \A c \in C : Square(c, Reach + 1) \subseteq Int \X Int
    BY DEF Square
<1>2. near \subseteq Window
    BY <1>1, WindowIsGrid DEF Boxed
<1>3. \A d \in near : Neighbours(d) \subseteq Window
    BY <1>2, WindowIsGrid, NeighboursAreNear DEF Boxed
<1>4. Affected(C) = near \cup UNION {Neighbours(d) : d \in near}
    BY DEF Affected
<1>5. Affected(C) \subseteq Window
    <2> HIDE DEF near
    <2> QED
        BY <1>2, <1>3, <1>4
<1>6. UNION {Square(c, Reach + 1) : c \in {}} = {}
    OBVIOUS
<1>7. Affected({}) = {}
    BY <1>6, Zenon DEF Affected
<1> QED
    BY <1>5, <1>7

\* More changes update more cells.
LEMMA AffectedGrows ==
    ASSUME NEW C, NEW D, C \subseteq D
    PROVE  Affected(C) \subseteq Affected(D)
<1> DEFINE near(X) == {d \in UNION {Square(c, Reach + 1) : c \in X} : Inside(d)}
<1>1. near(C) \subseteq near(D)
    OBVIOUS
<1>2. \A X : Affected(X) = near(X) \cup UNION {Neighbours(d) : d \in near(X)}
    BY DEF Affected
<1> HIDE DEF near
<1> QED
    BY <1>1, <1>2

\* No cell around one that is not updated is within reach of a change.
LEMMA AwayFromChanges ==
    ASSUME Boxed, NEW D, D \subseteq Cells, NEW c \in Window \ Affected(D),
           NEW e \in Square(c, 1) \cap Window, NEW o \in D
    PROVE  e \notin Square(o, Reach + 1)
<1> DEFINE near == {d \in UNION {Square(x, Reach + 1) : x \in D} : Inside(d)}
<1> SUFFICES ASSUME e \in Square(o, Reach + 1) PROVE FALSE
    OBVIOUS
<1>1. c \in Int \X Int /\ e \in Int \X Int
    BY WindowIsGrid DEF Boxed
<1>2. e \in near
    BY <1>1, WindowIsGrid DEF Boxed
<1>3. Affected(D) = near \cup UNION {Neighbours(d) : d \in near}
    BY DEF Affected
<1>4. CASE e = c
    BY <1>2, <1>3, <1>4
<1>5. CASE e # c
    <2>1. e \in Neighbours(c)
        BY <1>1, <1>5, NeighboursAreNear DEF Boxed
    <2>2. c \in Neighbours(e)
        BY <2>1, NeighboursAreMutual DEF Boxed
    <2> HIDE DEF near
    <2> QED
        BY <1>2, <1>3, <2>2
<1> QED
    BY <1>4, <1>5

\* The footprint of an obstacle is within reach of it.
LEMMA FootprintIsNear ==
    ASSUME NEW o \in Int \X Int
    PROVE  Footprint(o) \subseteq Square(o, Reach + 1)
<1>1. Reach \in Nat /\ o[1] \in Int /\ o[2] \in Int
    BY DStarLiteAssumption
<1>2. \A x \in Int : x - Reach .. x + Reach \subseteq x - (Reach + 1) .. x + (Reach + 1)
    BY <1>1
<1>3. Square(o, Reach) \subseteq Square(o, Reach + 1)
    BY <1>1, <1>2 DEF Square
<1> QED
    BY <1>3 DEF Footprint

\* Changes block or free nothing out of their reach.
LEMMA BlockingIsLocal ==
    ASSUME Boxed, bounds' = bounds, NEW D, D \subseteq Cells,
           \A o \in Cells \ D : grid'[o] = grid[o] /\ states'[o] = states[o],
           NEW e \in Window, \A o \in D : e \notin Square(o, Reach + 1),
           NEW P, NEW Q, e \in P <=> e \in Q
    PROVE  e \in BlockedCells(P) <=> e \in (BlockedCells(Q))'
<1>1. Window' = Window
    BY DEF Window
<1>2. \A o \in Cells \ D : BaseState(o)' = BaseState(o)
    BY DEF BaseState
<1>3. \A o \in Cells \ D : o \in Obstacles <=> o \in Obstacles'
    BY <1>2 DEF Obstacles
<1>4. \A o \in D : e \notin Footprint(o)
    BY CellsAreGrid, FootprintIsNear
<1>5. Obstacles \subseteq Cells /\ Obstacles' \subseteq Cells
    BY DEF Obstacles
<1>6. (\E o \in Obstacles : e \in Footprint(o)) <=> (\E o \in Obstacles' : e \in Footprint(o))
    BY <1>3, <1>4, <1>5
<1>7. e \in UNION {Footprint(o) : o \in Obstacles} <=> \E o \in Obstacles : e \in Footprint(o)
    BY Zenon
<1>8. e \in UNION {Footprint(o) : o \in Obstacles'} <=> \E o \in Obstacles' : e \in Footprint(o)
    BY Zenon
<1>9. (BlockedCells(Q))' = Window' \cap (Q \cup UNION {Footprint(o) : o \in Obstacles'})
    BY Zenon DEF BlockedCells
<1>10. BlockedCells(P) = Window \cap (P \cup UNION {Footprint(o) : o \in Obstacles})
    BY Zenon DEF BlockedCells
<1> QED
    BY <1>1, <1>6, <1>7, <1>8, <1>9, <1>10

\* Only cells of the window are blocked.
LEMMA BlockedIsInside ==
    ASSUME NEW P
    PROVE  BlockedCells(P) \subseteq Window /\ (BlockedCells(P))' \subseteq Window'
BY Zenon DEF BlockedCells

\* Away from obstacles a lookahead value depends on the cells next to it only.
LEMMA BestIsLocal ==
    ASSUME Boxed, bounds' = bounds, NEW B, NEW C, B \subseteq Window, C \subseteq Window,
           NEW c \in Window, c \notin B, c \notin C,
           \A e \in Square(c, 1) \cap Window : e \in B <=> e \in C,
           \A d \in Neighbours(c) : g'[d] = g[d] /\ states'[d] = states[d]
    PROVE  (Best(C, c))' = Best(B, c)
<1>1. c \in Int \X Int
    BY WindowIsGrid DEF Boxed
<1>2. Neighbours(c)' = Neighbours(c)
    BY DEF Neighbours, Inside
<1>3. ASSUME NEW d \in Neighbours(c)
      PROVE  Cost(peerForbidden, B, c, d) = (Cost(peerForbidden, C, c, d))'
    <2>1. d \in Square(c, 1)
        BY DEF Neighbours
    <2>2. Corners(c, d) \subseteq Square(c, 1)
        BY <1>1, <2>1, CornersAreNear
    <2>3. d \in B <=> d \in C
        BY <2>1
    <2>4. Corners(c, d) \cap B = Corners(c, d) \cap C
        BY <2>2
    <2>5. StepCost(c, d)' = StepCost(c, d)
        BY <1>3 DEF StepCost
    <2>6. Cost(peerForbidden, B, c, d) =
            IF d \in B \/ (IsDiagonal(c, d) /\ Corners(c, d) \cap B # {}) THEN Inf
            ELSE StepCost(c, d)
        BY Zenon DEF Cost
    <2>7. (Cost(peerForbidden, C, c, d))' =
            IF d \in C \/ (IsDiagonal(c, d) /\ Corners(c, d) \cap C # {}) THEN Inf
            ELSE StepCost(c, d)'
        BY Zenon DEF Cost
    <2> QED
        BY <2>3, <2>4, <2>5, <2>6, <2>7
<1> DEFINE S == {Plus(Cost(peerForbidden, B, c, d), g[d]) : d \in Neighbours(c)}
<1> DEFINE T == {Plus((Cost(peerForbidden, C, c, d))', g'[d]) : d \in Neighbours(c)}
<1>4. S = T
    BY <1>3, Zenon
<1>5. Best(B, c) = Least({Inf} \cup S)
    BY Zenon DEF Best
<1>6. (Best(C, c))' = Least({Inf} \cup {Plus((Cost(peerForbidden, C, c, d))', g'[d]) :
                                           d \in Neighbours(c)'})
    BY Zenon DEF Best
<1> QED
    BY <1>2, <1>4, <1>5, <1>6, Zenon

-----------------------------------------------------------------------------
(* Updating vertices.                                                         *)

\* The key of a cell is a pair of numbers.
LEMMA KeyIsKey ==
    ASSUME Numbers, start \in Cells, km \in Nat, NEW c \in Cells
    PROVE  Key(c) \in Keys
<1>1. g[c] \in 0 .. Inf /\ rhs[c] \in 0 .. Inf
    BY DEF Numbers
<1>2. Lesser(g[c], rhs[c]) \in 0 .. Inf
    BY <1>1 DEF Lesser
<1>3. Lesser(g[c], rhs[c]) \in Nat
    BY <1>2, InfIsNat
<1>4. Octile(start, c) + km \in Nat
    BY OctileIsNumber
<1>5. Plus(Lesser(g[c], rhs[c]), Octile(start, c) + km) \in 0 .. Inf
    BY <1>3, <1>4, PlusSaturates
<1> QED
    BY <1>3, <1>5, InfIsNat DEF Key, Keys

\* The facts above about a window, its lookahead values and its keys.
WindowFact ==
    Boxed => /\ Limit \in Nat
             /\ Window \subseteq Int \X Int
             /\ \A c \in Int \X Int : Inside(c) <=> c \in Window
             /\ \A c \in Int \X Int : Neighbours(c) = {d \in Square(c, 1) : d # c} \cap Window
BestFact == Boxed /\ g \in [Cells -> 0 .. Inf] /\ Window \subseteq Cells =>
                \A B : \A c \in Cells : Best(B, c) \in 0 .. Inf
KeyFact == Numbers /\ start \in Cells /\ km \in Nat => \A c \in Cells : Key(c) \in Keys
CostFact == \A P, B, c, d : Cost(P, B, c, d) \in Nat
Facts == WindowFact /\ BestFact /\ KeyFact /\ CostFact

\* They hold of the current state.
LEMMA FactsHold == Facts
<1>1. WindowFact
    BY WindowIsFinite, WindowIsGrid, NeighboursAreNear DEF WindowFact, Boxed
<1>2. BestFact
  <2> SUFFICES ASSUME Boxed, g \in [Cells -> 0 .. Inf], Window \subseteq Cells,
                      NEW B, NEW c \in Cells
               PROVE  Best(B, c) \in 0 .. Inf
      BY Zenon DEF BestFact
  <2>1. c \in Int \X Int
      BY CellsAreGrid
  <2>2. Neighbours(c) \subseteq Window
      BY <2>1, NeighboursAreNear DEF Boxed
  <2>3. bounds # None
      BY WorldAssumption DEF Boxed
  <2> QED
      BY <2>2, <2>3, BestIsNumber
<1>3. KeyFact
    BY KeyIsKey DEF KeyFact
<1>4. CostFact
    BY CostsAreNumbers DEF CostFact
<1> QED
    BY <1>1, <1>2, <1>3, <1>4 DEF Facts

\* They hold of the next state too.
LEMMA FactsHoldNext == Facts'
BY FactsHold, PTL

\* An update keeps the queue exact and gives the cells updated their lookahead value.
LEMMA VerticesAreUpdated ==
    ASSUME Numbers, Boxed', Window' \subseteq Cells, g' \in [Cells -> 0 .. Inf],
           start' \in Cells, km' \in Nat,
           NEW A, A \subseteq Window',
           NEW queue, queue \in [DOMAIN queue -> Keys], DOMAIN queue \subseteq Window',
           \A c \in Cells \ A : c \in DOMAIN queue <=> g'[c] # rhs[c],
           UpdateVertices(A, queue)
    PROVE  /\ Numbers' /\ Queued' /\ DOMAIN open' \subseteq Window' /\ QueueIsInconsistent'
           /\ \A c \in Cells : c \notin A \/ c = goal' => rhs'[c] = rhs[c]
           /\ \E B \in {(BlockedCells(peerForbidden))'} :
                  \A c \in A \ {goal'} : rhs'[c] = (Best(B, c))'
           /\ DOMAIN open' \subseteq A \cup DOMAIN queue
           /\ \A c \in DOMAIN open' : open'[c] = IF c \in A THEN (Key(c))' ELSE queue[c]
<1>0. \A f : Evaluated(f) = f
    BY DEF Evaluated
<1>1. PICK B \in {(BlockedCells(peerForbidden))'} :
        /\ rhs' = [c \in Cells |-> IF c \in A \ {goal'} THEN (Best(B, c))' ELSE rhs[c]]
        /\ open' = [c \in {a \in A : g'[a] # rhs'[a]} \cup (DOMAIN queue \ A) |->
                       IF c \in A THEN (Key(c))' ELSE queue[c]]
    BY <1>0, Zenon DEF UpdateVertices
<1>2. \A c \in Cells : rhs'[c] = IF c \in A \ {goal'} THEN (Best(B, c))' ELSE rhs[c]
    BY <1>1, Zenon
<1>3. \A c \in A : (Best(B, c))' \in 0 .. Inf
    BY FactsHoldNext DEF Facts, BestFact
<1>4. rhs' \in [Cells -> 0 .. Inf]
    <2>1. rhs' = [c \in Cells |-> IF c \in A \ {goal'} THEN (Best(B, c))' ELSE rhs[c]]
        BY <1>1
    <2>2. \A c \in Cells : (IF c \in A \ {goal'} THEN (Best(B, c))' ELSE rhs[c]) \in 0 .. Inf
        BY <1>3 DEF Numbers
    <2> QED
        BY <2>1, <2>2
<1>5. Numbers'
    BY <1>4 DEF Numbers
<1>6. DOMAIN open' = {a \in A : g'[a] # rhs'[a]} \cup (DOMAIN queue \ A)
    BY <1>1, Zenon
<1>7. \A c \in DOMAIN open' : open'[c] = IF c \in A THEN (Key(c))' ELSE queue[c]
    BY <1>1, <1>6, Zenon
<1>8. \A c \in A : (Key(c))' \in Keys
    BY <1>5, FactsHoldNext DEF Facts, KeyFact
<1>9. \A c \in DOMAIN open' : open'[c] \in Keys
    BY <1>6, <1>7, <1>8
<1>10. open' = [c \in DOMAIN open' |-> open'[c]]
    BY <1>1, <1>6, Zenon
<1>11. Queued'
    BY <1>9, <1>10 DEF Queued
<1>12. DOMAIN open' \subseteq Window'
    BY <1>6
<1>13. \A c \in Cells : c \notin A \/ c = goal' => rhs'[c] = rhs[c]
    BY <1>2
<1>14. DOMAIN open' = {c \in Cells : g'[c] # rhs'[c]}
    BY <1>6, <1>13
<1>15. \A c \in A \ {goal'} : rhs'[c] = (Best(B, c))'
    BY <1>2
<1> QED
    BY <1>5, <1>6, <1>7, <1>11, <1>12, <1>13, <1>14, <1>15 DEF QueueIsInconsistent

-----------------------------------------------------------------------------
(* What a step leaves of the search.                                          *)

\* Requests and changes are about cells.
LEMMA WorldIsCells == World \subseteq Cells /\ None \notin World
BY DStarLiteAssumption, WorldAssumption DEF World, Cells

\* A cell that cannot be reached differs from the goal.
LEMMA InfIsPositive == Inf # 0
<1>1. Span \in Nat \ {0}
    BY DStarLiteAssumption DEF Span
<1>2. \A a \in Nat \ {0} : \A b \in Nat \ {0} : a * b \in Nat \ {0}
    OBVIOUS
<1>3. 100 * Span \in Nat \ {0}
    BY <1>1
<1>4. (100 * Span) * Span \in Nat \ {0}
    BY <1>1, <1>2, <1>3
<1>5. ((100 * Span) * Span) * UnknownCost \in Nat \ {0}
    BY <1>2, <1>4, DStarLiteAssumption
<1> QED
    BY <1>5 DEF Inf

\* The cells near an unmoved one look to it as they did.
Unmoved(c) ==
    /\ c \notin BlockedCells(peerForbidden) \cup Affected(delta)
    /\ \A e \in Square(c, 1) \cap Window :
           e \in BlockedCells(peerForbidden) <=> e \in (BlockedCells(peerForbidden))'
    /\ \A d \in Neighbours(c) : g'[d] = g[d] /\ states'[d] = states[d]

\* An update is enough when whatever it leaves out is unmoved.
LEMMA UpdateSearches ==
    ASSUME Searched, Lookahead, goal # None,
           bounds' = bounds, goal' = goal, start' \in Starts, km' \in Nat,
           g' \in [Cells -> 0 .. Inf], ~missed' => ~missed,
           NEW A, A \subseteq Window,
           NEW queue, queue \in [DOMAIN queue -> Keys], DOMAIN queue \subseteq Window,
           \A c \in Cells \ A : c \in DOMAIN queue <=> g'[c] # rhs[c],
           UpdateVertices(A, queue),
           \A c \in Window \ ((BlockedCells(peerForbidden))' \cup {goal}
                                \cup (Affected(delta))' \cup A) : Unmoved(c)
    PROVE  Searched' /\ Lookahead'
<1>1. Asked
    BY DEF Searched
<1>2. Window' = Window
    BY DEF Window
<1>3. Numbers /\ Boxed /\ Boxed' /\ Window' \subseteq Cells
    BY <1>1, <1>2 DEF Searched, Asked, Boxed
<1>4. start' \in Cells /\ start' # None /\ start # None
    BY <1>1, WorldIsCells, WorldAssumption DEF Asked
<1>5. /\ Numbers' /\ Queued' /\ DOMAIN open' \subseteq Window' /\ QueueIsInconsistent'
      /\ \A c \in Cells : c \notin A \/ c = goal' => rhs'[c] = rhs[c]
      /\ \E B \in {(BlockedCells(peerForbidden))'} :
             \A c \in A \ {goal'} : rhs'[c] = (Best(B, c))'
    BY <1>2, <1>3, <1>4, VerticesAreUpdated
<1>6. Asked'
    BY <1>1, <1>2, <1>3 DEF Asked
<1>7. Searched'
    BY <1>4, <1>5, <1>6 DEF Searched
<1>8. Lookahead'
  <2> SUFFICES ASSUME ~missed'
               PROVE  \E C \in {(BlockedCells(peerForbidden))'} :
                        \A c \in Window' \ (C \cup {goal'} \cup (Affected(delta))') :
                            rhs'[c] = (Best(C, c))'
      BY Zenon DEF Lookahead
  <2>1. PICK C \in {(BlockedCells(peerForbidden))'} :
             \A c \in A \ {goal'} : rhs'[c] = (Best(C, c))'
      BY <1>5
  <2>2. PICK B \in {BlockedCells(peerForbidden)} :
             \A c \in Window \ (B \cup {goal} \cup Affected(delta)) : rhs[c] = Best(B, c)
      BY Zenon DEF Lookahead
  <2> SUFFICES ASSUME NEW c \in Window' \ (C \cup {goal'} \cup (Affected(delta))')
               PROVE  rhs'[c] = (Best(C, c))'
      BY <2>1
  <2>3. CASE c \in A
      BY <2>1, <2>3
  <2>4. CASE c \notin A
    <3>1. Unmoved(c)
        BY <1>2, <2>1, <2>4
    <3>2. c \notin B /\ c \notin Affected(delta)
        BY <2>2, <3>1 DEF Unmoved
    <3>3. rhs'[c] = rhs[c] /\ rhs[c] = Best(B, c)
        BY <1>2, <1>3, <1>5, <2>2, <2>4, <3>2
    <3>4. B \subseteq Window /\ C \subseteq Window
        BY <1>2, <2>1, <2>2, BlockedIsInside
    <3>5. \A e \in Square(c, 1) \cap Window : e \in B <=> e \in C
        BY <2>1, <2>2, <3>1 DEF Unmoved
    <3>6. \A d \in Neighbours(c) : g'[d] = g[d] /\ states'[d] = states[d]
        BY <3>1 DEF Unmoved
    <3>7. (Best(C, c))' = Best(B, c)
        BY <1>2, <1>3, <3>2, <3>4, <3>5, <3>6, BestIsLocal
    <3> QED
        BY <3>3, <3>7
  <2> QED
      BY <2>3, <2>4
<1> QED
    BY <1>7, <1>8

\* A search started anew: every cell but the goal is as far as can be.
LEMMA ResetSearches ==
    ASSUME NEW s \in Starts, NEW t \in Goals, Reset(s, t)
    PROVE  Searched' /\ Lookahead' /\ start' = s /\ goal' = t /\ t # None
           /\ probe' = None /\ visited' = {}
<1> USE InfIsNat, InfIsPositive
<1>1. s \in World /\ t \in World /\ s \in Cells /\ t \in Cells /\ s # None /\ t # None
    BY WorldAssumption, WorldIsCells
<1>2. /\ bounds' = PlanningBounds(s, t) /\ start' = s /\ goal' = t /\ km' = 0
      /\ g' = [c \in Cells |-> Inf] /\ rhs' = [c \in Cells |-> IF c = t THEN 0 ELSE Inf]
      /\ open' = [c \in {t} |-> <<Octile(s, t), 0>>]
      /\ probe' = None /\ visited' = {}
    BY DEF Reset, CancelProbe
<1>3. s[1] \in 0 .. Width - 1 /\ s[2] \in 0 .. Height - 1
      /\ t[1] \in 0 .. Width - 1 /\ t[2] \in 0 .. Height - 1
      /\ t = <<t[1], t[2]>>
    BY <1>1 DEF World
<1>4. /\ Lesser(s[1], t[1]) \in 0 .. Width - 1 /\ Greater(s[1], t[1]) \in 0 .. Width - 1
      /\ Lesser(s[2], t[2]) \in 0 .. Height - 1 /\ Greater(s[2], t[2]) \in 0 .. Height - 1
      /\ Lesser(s[1], t[1]) <= t[1] /\ t[1] <= Greater(s[1], t[1])
      /\ Lesser(s[2], t[2]) <= t[2] /\ t[2] <= Greater(s[2], t[2])
    BY <1>3 DEF Lesser, Greater
<1>5. Margin \in Nat /\ Width \in Nat /\ Height \in Nat
    BY DStarLiteAssumption
<1>6. /\ bounds'[1] = Lesser(s[1], t[1]) - Margin /\ bounds'[2] = Lesser(s[2], t[2]) - Margin
      /\ bounds'[3] = Greater(s[1], t[1]) + Margin /\ bounds'[4] = Greater(s[2], t[2]) + Margin
      /\ Boxed'
    BY <1>2, <1>4, <1>5 DEF PlanningBounds, Boxed
<1>7. bounds' # None
    BY <1>6, WorldAssumption DEF Boxed
<1>8. Window' = (bounds'[1] .. bounds'[3]) \X (bounds'[2] .. bounds'[4])
    BY <1>7 DEF Window
<1>9. /\ bounds'[1] .. bounds'[3] \subseteq 0 - Margin .. Width - 1 + Margin
      /\ bounds'[2] .. bounds'[4] \subseteq 0 - Margin .. Height - 1 + Margin
      /\ t[1] \in bounds'[1] .. bounds'[3] /\ t[2] \in bounds'[2] .. bounds'[4]
    BY <1>3, <1>4, <1>5, <1>6
<1>10. Window' \subseteq Cells
    BY <1>8, <1>9 DEF Cells
<1>11. t \in Window'
    BY <1>3, <1>8, <1>9
<1>12. Asked'
    BY <1>2, <1>6, <1>10, <1>11 DEF Asked
<1>13. Numbers'
  <2>1. g' \in [Cells -> 0 .. Inf]
      BY <1>2
  <2>2. rhs' \in [Cells -> 0 .. Inf]
      BY <1>2
  <2> QED
      BY <2>1, <2>2 DEF Numbers
<1>14. Queued'
  <2>1. DOMAIN open' = {t} /\ open' = [c \in DOMAIN open' |-> <<Octile(s, t), 0>>]
      BY <1>2
  <2>2. Octile(s, t) \in Nat
      BY <1>1, OctileIsNumber
  <2> QED
      BY <2>1, <2>2 DEF Queued, Keys
<1>15. DOMAIN open' = {t}
    BY <1>2
<1>16. QueueIsInconsistent'
  <2>1. \A c \in Cells : g'[c] # rhs'[c] <=> c = t
      BY <1>2
  <2> QED
      BY <1>1, <1>15, <2>1 DEF QueueIsInconsistent
<1>17. Searched'
    BY <1>1, <1>2, <1>7, <1>11, <1>12, <1>13, <1>14, <1>15, <1>16 DEF Searched
<1>18. Lookahead'
  <2> SUFFICES ASSUME NEW B, NEW c \in Cells, c # t
               PROVE  rhs'[c] = (Best(B, c))'
      BY <1>2, <1>10, Zenon DEF Lookahead
  <2> DEFINE S == {Plus((Cost(peerForbidden, B, c, d))', g'[d]) : d \in Neighbours(c)'}
  <2>1. (Best(B, c))' = Least({Inf} \cup S)
      BY Zenon DEF Best
  <2>2. c \in Int \X Int
      BY CellsAreGrid
  <2>3. Neighbours(c)' \subseteq Window'
      BY <1>6, <2>2, FactsHoldNext DEF Facts, WindowFact
  <2>4. ASSUME NEW d \in Neighbours(c)'
        PROVE  Plus((Cost(peerForbidden, B, c, d))', g'[d]) = Inf
    <3>1. g'[d] = Inf
        BY <1>2, <1>10, <2>3
    <3>2. (Cost(peerForbidden, B, c, d))' \in Nat
        BY FactsHoldNext DEF Facts, CostFact
    <3> QED
        BY <3>1, <3>2, PlusSaturates
  <2>5. {Inf} \cup S = {Inf}
      BY <2>4
  <2> HIDE DEF S
  <2>6. (Best(B, c))' \in {Inf}
      BY <2>1, <2>5, LeastIsElement
  <2> QED
      BY <1>2, <2>6
<1> QED
    BY <1>1, <1>2, <1>17, <1>18

\* A step that leaves the search and what it is about alone.
LEMMA SearchIsLeft ==
    ASSUME Searched, UNCHANGED <<bounds, start, goal, km, g, rhs, open>>
    PROVE  Searched' /\ Limit' = Limit /\ Window' = Window /\ goal' = goal /\ start' = start
BY Zenon DEF Searched, Asked, Boxed, Numbers, Queued, QueueIsInconsistent, Window, Limit

\* A step that neither blocks, frees nor re-values a cell keeps the lookahead values right.
LEMMA LookaheadIsLeft ==
    ASSUME Searched, Lookahead,
           missed' = missed, bounds' = bounds, goal' = goal, g' = g, rhs' = rhs,
           grid' = grid, states' = states, peerForbidden' = peerForbidden,
           Affected(delta) \subseteq (Affected(delta))'
    PROVE  Lookahead'
<1>1. \A c : BaseState(c)' = BaseState(c)
    BY DEF BaseState
<1>2. Obstacles' = Obstacles
    BY <1>1 DEF Obstacles
<1>3. Window' = Window
    BY DEF Window
<1>4. (BlockedCells(peerForbidden))' = BlockedCells(peerForbidden)
    BY <1>2, <1>3, Zenon DEF BlockedCells
<1>5. bounds' = bounds /\ goal' = goal /\ missed' = missed /\ g' = g /\ rhs' = rhs
    OBVIOUS
<1> SUFFICES ASSUME goal' # None, ~missed'
             PROVE  \E C \in {(BlockedCells(peerForbidden))'} :
                      \A c \in Window' \ (C \cup {goal'} \cup (Affected(delta))') :
                          rhs'[c] = (Best(C, c))'
    BY Zenon DEF Lookahead
<1>6. PICK B \in {BlockedCells(peerForbidden)} :
        \A c \in Window \ (B \cup {goal} \cup Affected(delta)) : rhs[c] = Best(B, c)
  <2>1. goal # None /\ ~missed
      BY <1>5
  <2> QED
      BY <2>1, Zenon DEF Lookahead
<1>7. Boxed /\ B \subseteq Window
    BY <1>6, BlockedIsInside DEF Searched, Asked
<1>8. \A c \in Window \ B : (Best(B, c))' = Best(B, c)
    BY <1>5, <1>7, BestIsLocal
<1> QED
    BY <1>3, <1>4, <1>5, <1>6, <1>8

\* A map delta that the planner takes.
LEMMA ChangesSearch ==
    ASSUME Searched, Lookahead, Sighted, goal # None,
           bounds' = bounds, goal' = goal, start' \in Starts, km' \in Nat, g' = g,
           missed' = missed, grid' = grid, peerForbidden' = peerForbidden,
           RecordChanges, delta' = {}, UpdateVertices(Affected(delta), open)
    PROVE  Searched' /\ Lookahead'
<1>1. Asked /\ Boxed /\ Numbers
    BY DEF Searched, Asked
<1>2. delta \subseteq Cells
    BY DEF Sighted
<1>3. \A o \in Cells \ delta : grid'[o] = grid[o] /\ states'[o] = states[o]
    BY DEF RecordChanges
<1>4. ASSUME NEW c \in Window \ Affected(delta), c \notin (BlockedCells(peerForbidden))'
      PROVE  Unmoved(c)
  <2>1. c \in Int \X Int
      BY <1>1, WindowIsGrid DEF Boxed
  <2>2. ASSUME NEW e \in Square(c, 1) \cap Window
        PROVE  /\ \A o \in delta : e \notin Square(o, Reach + 1)
               /\ e \in BlockedCells(peerForbidden) <=> e \in (BlockedCells(peerForbidden))'
    <3>1. \A o \in delta : e \notin Square(o, Reach + 1)
        BY <1>1, <1>2, AwayFromChanges
    <3> QED
        BY <1>1, <1>2, <1>3, <3>1, BlockingIsLocal
  <2>3. \A o \in Cells : o \in Square(o, Reach + 1)
    <3>1. \A o \in Cells : o = <<o[1], o[2]>> /\ o[1] \in Int /\ o[2] \in Int
        BY CellsAreGrid
    <3> QED
        BY <3>1, DStarLiteAssumption DEF Square
  <2>4. ASSUME NEW d \in Neighbours(c) PROVE states'[d] = states[d]
    <3>1. d \in Square(c, 1) \cap Window
        BY <1>1, <2>1, NeighboursAreNear DEF Boxed
    <3>2. d \in Cells
        BY <1>1, <3>1 DEF Asked
    <3> QED
        BY <1>2, <1>3, <2>2, <2>3, <3>1, <3>2
  <2>5. c \in Square(c, 1)
      BY <2>1 DEF Square
  <2> QED
      BY <1>4, <2>2, <2>4, <2>5 DEF Unmoved
<1>5. Affected(delta) \subseteq Window
    BY <1>1, <1>2, AffectedIsInside
<1>6. \A c \in Cells \ Affected(delta) : c \in DOMAIN open <=> g'[c] # rhs[c]
    BY DEF Searched, QueueIsInconsistent
<1>7. open \in [DOMAIN open -> Keys] /\ DOMAIN open \subseteq Window /\ g' \in [Cells -> 0 .. Inf]
    BY <1>1 DEF Searched, Queued, Numbers
<1> QED
    BY <1>4, <1>5, <1>6, <1>7, UpdateSearches

-----------------------------------------------------------------------------
(* The world moves.                                                           *)

\* A planner that was never called.
LEMMA InitHolds == Init => IInv
<1> SUFFICES ASSUME Init PROVE IInv
    OBVIOUS
<1> USE InfIsNat
<1>1. goal = None /\ start = None /\ bounds = None /\ pc = "idle" /\ km = 0
    BY DEF Init
<1>2. Window = {}
    BY <1>1 DEF Window
<1>3. grid \in [Cells -> States] /\ states = grid
    BY WorldAssumption DEF Init
<1>4. Sighted
    BY <1>3, DStarLiteAssumption DEF Sighted, Init
<1>5. open = [c \in {} |-> <<0, 0>>] /\ DOMAIN open = {}
    BY DEF Init
<1>6. Queued
    BY <1>5 DEF Queued
<1>7. Numbers /\ QueueIsInconsistent
    BY <1>5 DEF Init, Numbers, QueueIsInconsistent
<1>8. Searched
    BY <1>1, <1>2, <1>5, <1>6, <1>7 DEF Searched
<1>9. Called
    BY <1>1 DEF Called, Init, Requests
<1>10. Lookahead
    BY <1>1, Zenon DEF Lookahead
<1> QED
    BY <1>4, <1>8, <1>9, <1>10 DEF IInv

\* The planner is not called.
LEMMA CallIsLeft ==
    ASSUME Called, Searched, Outdate, PlannerIdle
    PROVE  Called' /\ Searched' /\ UNCHANGED searchVars
<1>1. UNCHANGED searchVars
    BY DEF PlannerIdle
<1>2. Searched' /\ Limit' = Limit /\ goal' = goal /\ start' = start
    BY <1>1, SearchIsLeft DEF searchVars
<1>3. Called'
    BY <1>2 DEF Called, PlannerIdle, Outdate, probeVars
<1> QED
    BY <1>1, <1>2, <1>3

\* The bound on events.
LEMMA EventCounts ==
    ASSUME NewEvent, events \in 0 .. MaxEvents
    PROVE  events' \in 0 .. MaxEvents
BY DStarLiteAssumption DEF NewEvent

\* A scan changes the map; the cells it concerns become due for an update.
LEMMA ScanStep ==
    ASSUME IInv, NEW n \in Novelties, Scan(n[1], n[2])
    PROVE  IInv'
<1> DEFINE x == n[1]
<1>1. x \in Cells /\ n[2] \in States
    BY WorldAssumption, WorldIsCells
<1>2. grid' = [grid EXCEPT ![x] = n[2]] /\ delta' = delta \cup {x} /\ peers' = peers
      /\ Outdate /\ PlannerIdle /\ NewEvent
    BY DEF Scan
<1>3. Called' /\ Searched' /\ UNCHANGED searchVars
    BY <1>2, CallIsLeft DEF IInv
<1>4. Sighted'
    BY <1>1, <1>2, EventCounts DEF Sighted, IInv, PlannerIdle, mapVars
<1>5. bounds' = bounds /\ goal' = goal /\ missed' = missed /\ g' = g /\ rhs' = rhs
      /\ peerForbidden' = peerForbidden /\ states' = states
    BY <1>2 DEF PlannerIdle, searchVars, mapVars
<1>6. Window' = Window /\ (Affected(delta))' = Affected(delta')
    BY <1>5 DEF Window, Affected, Inside, Neighbours
<1>7. Lookahead'
  <2> SUFFICES ASSUME goal # None, ~missed
               PROVE  \E C \in {(BlockedCells(peerForbidden))'} :
                        \A c \in Window' \ (C \cup {goal'} \cup (Affected(delta))') :
                            rhs'[c] = (Best(C, c))'
      BY <1>5, Zenon DEF Lookahead
  <2>1. PICK B \in {BlockedCells(peerForbidden)} :
          \A c \in Window \ (B \cup {goal} \cup Affected(delta)) : rhs[c] = Best(B, c)
      BY Zenon DEF Lookahead, IInv
  <2>0. PICK C \in {(BlockedCells(peerForbidden))'} : TRUE
      OBVIOUS
  <2>2. Boxed /\ B \subseteq Window /\ C \subseteq Window
      BY <1>6, <2>0, <2>1, BlockedIsInside DEF Searched, Asked, IInv
  <2>3. Affected(delta) \subseteq Affected(delta') /\ Affected({x}) \subseteq Affected(delta')
      BY <1>2, AffectedGrows
  <2>4. \A o \in Cells \ {x} : grid'[o] = grid[o] /\ states'[o] = states[o]
      BY <1>2, <1>5 DEF IInv, Sighted
  <2>5. ASSUME NEW c \in Window \ (C \cup {goal} \cup Affected(delta'))
        PROVE  (Best(C, c))' = Best(B, c) /\ c \notin B
    <3>1. ASSUME NEW e \in Square(c, 1) \cap Window
          PROVE  e \in B <=> e \in C
      <4> DEFINE D == {x}
      <4>1. \A o \in D : e \notin Square(o, Reach + 1)
          BY <1>1, <2>2, <2>3, AwayFromChanges
      <4>2. Boxed /\ bounds' = bounds /\ e \in Window /\ D \subseteq Cells
            /\ peerForbidden' = peerForbidden
            /\ \A o \in Cells \ D : grid'[o] = grid[o] /\ states'[o] = states[o]
          BY <1>1, <1>5, <2>2, <2>4
      <4> HIDE DEF D
      <4>3. e \in BlockedCells(peerForbidden) <=> e \in (BlockedCells(peerForbidden))'
          BY <4>1, <4>2, BlockingIsLocal
      <4> QED
          BY <2>0, <2>1, <4>3
    <3>2. c \in Square(c, 1)
        BY <2>2, WindowIsGrid DEF Boxed, Square
    <3>3. c \notin B
        BY <3>1, <3>2
    <3> QED
        BY <1>5, <2>2, <3>1, <3>3, BestIsLocal
  <2> QED
      BY <1>5, <1>6, <2>0, <2>1, <2>3, <2>5
<1> QED
    BY <1>3, <1>4, <1>7 DEF IInv

\* A change added to the delta takes no cell off the list of updates due.
LEMMA DeltaGrows ==
    ASSUME bounds' = bounds, delta \subseteq delta'
    PROVE  Affected(delta) \subseteq (Affected(delta))'
<1>1. (Affected(delta))' = Affected(delta')
    BY DEF Affected, Inside, Neighbours
<1> QED
    BY <1>1, AffectedGrows

\* Peers move: the same, through the overlay.
LEMMA PeersMoveStep ==
    ASSUME IInv, NEW P \in PeerAreas, PeersMove(P)
    PROVE  IInv'
<1>1. /\ delta' = delta \cup (peers \ P) \cup (P \ peers) /\ peers' = P /\ grid' = grid
      /\ Outdate /\ PlannerIdle /\ NewEvent
    BY DEF PeersMove
<1>2. Called' /\ Searched' /\ UNCHANGED searchVars
    BY <1>1, CallIsLeft DEF IInv
<1>3. P \subseteq Cells
    BY WorldAssumption
<1>4. Sighted'
    BY <1>1, <1>3, EventCounts DEF Sighted, IInv, PlannerIdle, mapVars
<1>5. Affected(delta) \subseteq (Affected(delta))'
    BY <1>1, <1>2, DeltaGrows DEF searchVars
<1>6. Lookahead'
    BY <1>1, <1>2, <1>5, LookaheadIsLeft DEF IInv, PlannerIdle, mapVars, searchVars
<1> QED
    BY <1>2, <1>4, <1>6 DEF IInv

\* A delta is dropped: nothing is claimed until the next reset.
LEMMA MissDeltaStep ==
    ASSUME IInv, MissDelta
    PROVE  IInv'
<1>1. UNCHANGED <<bounds, start, goal, km, g, rhs, open>> /\ missed' = TRUE /\ delta' = {}
    BY DEF MissDelta
<1>2. Searched' /\ Limit' = Limit /\ goal' = goal /\ start' = start
    BY <1>1, SearchIsLeft DEF IInv
<1>3. Called'
    BY <1>2 DEF Called, MissDelta, Outdate, probeVars, IInv
<1>4. Sighted'
    BY DEF Sighted, IInv, MissDelta, mapVars
<1>5. Lookahead'
    BY <1>1, Zenon DEF Lookahead
<1> QED
    BY <1>2, <1>3, <1>4, <1>5 DEF IInv

-----------------------------------------------------------------------------
(* The planner is told.                                                       *)

\* Between two calls a probe may be given up.
LEMMA ProbeIsCancelled ==
    ASSUME Called, pc = "idle", CancelProbe, Outdate, start' = start,
           UNCHANGED <<position, pending, spent, recovery, pc, left>>
    PROVE  Called'
BY DEF Called, CancelProbe, Outdate

\* set_peer_forbidden_cells updates the cells that changed and their neighbours.
LEMMA SetPeerForbiddenCellsStep ==
    ASSUME IInv, SetPeerForbiddenCells
    PROVE  IInv'
<1> DEFINE changed == (peerForbidden \ peers) \cup (peers \ peerForbidden)
<1> DEFINE A == {c \in changed : Inside(c)} \cup UNION {Neighbours(c) : c \in changed}
<1>1. /\ pc = "idle" /\ peerForbidden' = peers /\ CancelProbe /\ Outdate
      /\ UNCHANGED <<worldVars, states, missed, bounds, start, goal, km, g, position,
                     pending, spent, recovery, pc, left>>
      /\ IF bounds = None THEN UNCHANGED <<rhs, open>> ELSE UpdateVertices(A, open)
    BY DEF SetPeerForbiddenCells
<1>2. grid' = grid /\ peers' = peers /\ delta' = delta /\ events' = events
    BY <1>1 DEF worldVars
<1>3. Called'
    BY <1>1, ProbeIsCancelled DEF IInv
<1>4. Sighted'
    BY <1>1, <1>2 DEF Sighted, IInv
<1>5. changed \subseteq Cells
    BY DEF Sighted, IInv
<1>6. CASE bounds = None
  <2>1. Searched'
      BY <1>1, <1>6, SearchIsLeft DEF IInv
  <2>2. goal' = None
      BY <1>1, <1>6 DEF Searched, IInv
  <2>3. Lookahead'
      BY <2>2, Zenon DEF Lookahead
  <2> QED
      BY <1>3, <1>4, <2>1, <2>3 DEF IInv
<1>7. CASE bounds # None
  <2>1. goal # None /\ Asked /\ Boxed /\ Numbers
      BY <1>7 DEF Searched, IInv, Asked
  <2>2. \A c \in changed : c \in Int \X Int
      BY <1>5, CellsAreGrid
  <2>3. A \subseteq Window
      BY <2>1, <2>2, WindowIsGrid, NeighboursAreNear DEF Boxed
  <2>4. \A e \in Window \ changed :
            e \in BlockedCells(peerForbidden) <=> e \in (BlockedCells(peerForbidden))'
    <3> SUFFICES ASSUME NEW e \in Window \ changed
                 PROVE  e \in BlockedCells(peerForbidden) <=> e \in (BlockedCells(peerForbidden))'
        OBVIOUS
    <3>1. (BlockedCells(peerForbidden))' = Window \cap (peers \cup UNION {Footprint(o) : o \in Obstacles})
      <4>1. \A o : BaseState(o)' = BaseState(o)
          BY <1>1, <1>2 DEF BaseState
      <4>2. Obstacles' = Obstacles
          BY <4>1 DEF Obstacles
      <4>3. Window' = Window
          BY <1>1 DEF Window
      <4> QED
          BY <1>1, <4>2, <4>3, Zenon DEF BlockedCells
    <3>2. BlockedCells(peerForbidden) = Window \cap (peerForbidden \cup UNION {Footprint(o) : o \in Obstacles})
        BY Zenon DEF BlockedCells
    <3> QED
        BY <3>1, <3>2
  <2>5. ASSUME NEW c \in Window, c \notin (BlockedCells(peerForbidden))', c \notin A,
               c \notin Affected(delta)
        PROVE  Unmoved(c)
    <3>1. c \in Int \X Int
        BY <2>1, WindowIsGrid DEF Boxed
    <3>2. ASSUME NEW e \in Square(c, 1) \cap Window, e \in changed
          PROVE  FALSE
      <4>1. CASE e = c
          BY <2>1, <2>2, <2>5, <3>1, <3>2, <4>1, WindowIsGrid DEF Boxed
      <4>2. CASE e # c
        <5>1. e \in Neighbours(c)
            BY <2>1, <3>1, <4>2, NeighboursAreNear DEF Boxed
        <5>2. c \in Neighbours(e)
            BY <2>1, <5>1, NeighboursAreMutual DEF Boxed
        <5> QED
            BY <2>5, <3>2, <5>2
      <4> QED
          BY <4>1, <4>2
    <3>3. c \in Square(c, 1)
        BY <3>1 DEF Square
    <3>4. c \notin BlockedCells(peerForbidden)
        BY <2>4, <2>5, <3>2, <3>3
    <3> HIDE DEF changed
    <3> QED
        BY <1>1, <2>4, <2>5, <3>2, <3>4 DEF Unmoved
  <2>6. /\ \A c \in Cells \ A : c \in DOMAIN open <=> g'[c] # rhs[c]
        /\ open \in [DOMAIN open -> Keys] /\ DOMAIN open \subseteq Window
        /\ g' \in [Cells -> 0 .. Inf] /\ start' \in Starts /\ km' \in Nat
      BY <1>1, <2>1 DEF Searched, IInv, QueueIsInconsistent, Queued, Numbers, Asked
  <2>7. UpdateVertices(A, open)
      BY <1>1, <1>7
  <2>8. (Affected(delta))' = Affected(delta)
      BY <1>1, <1>2 DEF Affected, Inside, Neighbours
  <2> HIDE DEF A
  <2>9. Searched' /\ Lookahead'
      BY <1>1, <2>1, <2>3, <2>5, <2>6, <2>7, <2>8, UpdateSearches DEF IInv
  <2> QED
      BY <1>3, <1>4, <2>9 DEF IInv
<1> QED
    BY <1>6, <1>7

\* What the grid reports of a cell is a state.
LEMMA ReportsAreStates ==
    ASSUME Sighted
    PROVE  /\ \A c \in Cells : Reported(c) \in States
           /\ RecordChanges => states' \in [Cells -> States]
<1>1. \A c \in Cells : Reported(c) \in States
    BY DEF Sighted, Reported, States
<1> QED
    BY <1>1 DEF Sighted, RecordChanges

\* observe_changes updates what the delta concerns.
LEMMA ObserveChangesStep ==
    ASSUME IInv, ObserveChanges
    PROVE  IInv'
<1>1. /\ pc = "idle" /\ RecordChanges /\ delta' = {} /\ CancelProbe /\ Outdate
      /\ UNCHANGED <<grid, peers, events, peerForbidden, missed, bounds, start, goal, km, g,
                     position, pending, spent, recovery, pc, left>>
      /\ IF bounds = None THEN UNCHANGED <<rhs, open>>
         ELSE UpdateVertices(Affected(delta), open)
    BY DEF ObserveChanges
<1>2. Called'
    BY <1>1, ProbeIsCancelled DEF IInv
<1>3. Sighted'
    BY <1>1, ReportsAreStates DEF Sighted, IInv
<1>4. CASE bounds = None
  <2>1. Searched'
      BY <1>1, <1>4, SearchIsLeft DEF IInv
  <2>2. goal' = None
      BY <1>1, <1>4 DEF Searched, IInv
  <2>3. Lookahead'
      BY <2>2, Zenon DEF Lookahead
  <2> QED
      BY <1>2, <1>3, <2>1, <2>3 DEF IInv
<1>5. CASE bounds # None
  <2>1. goal # None /\ Asked /\ start' \in Starts /\ km' \in Nat
      BY <1>1, <1>5 DEF Searched, IInv, Asked
  <2>2. Searched' /\ Lookahead'
      BY <1>1, <1>5, <2>1, ChangesSearch DEF IInv
  <2> QED
      BY <1>2, <1>3, <2>2 DEF IInv
<1> QED
    BY <1>4, <1>5

\* restart_plan takes the map as it is and starts anew.
LEMMA RestartPlanStep ==
    ASSUME IInv, NEW s \in Starts, NEW t \in Goals, RestartPlan(s, t)
    PROVE  IInv'
<1>1. /\ pc = "idle" /\ NewEvent /\ states' = [c \in Cells |-> Reported(c)]
      /\ peerForbidden' = peers /\ delta' = {} /\ position' = None /\ Reset(s, t)
      /\ recovery' = None /\ spent' = 0 /\ pending' = TRUE /\ Outdate
      /\ UNCHANGED <<grid, peers, pc, left>>
    BY DEF RestartPlan
<1>2. Searched' /\ Lookahead' /\ probe' = None /\ visited' = {}
    BY <1>1, ResetSearches
<1>3. Sighted'
    BY <1>1, ReportsAreStates, EventCounts DEF Sighted, IInv
<1>4. Called'
    BY <1>1, <1>2 DEF Called, IInv, Outdate, Requests
<1> QED
    BY <1>2, <1>3, <1>4 DEF IInv

\* recover_unusable_plan starts anew for the same request.
LEMMA RecoverUnusablePlanStep ==
    ASSUME IInv, RecoverUnusablePlan
    PROVE  IInv'
<1>1. /\ pc = "idle" /\ goal # None /\ Reset(start, goal)
      /\ recovery' = <<start, goal>> /\ spent' = 0 /\ pending' = TRUE
      /\ Outdate /\ UNCHANGED <<worldVars, mapVars, position, pc, left>>
    BY DEF RecoverUnusablePlan, CanRecover
<1>2. start \in Starts /\ goal \in Goals
    BY <1>1 DEF IInv, Searched, Asked
<1>3. Searched' /\ Lookahead' /\ probe' = None /\ visited' = {} /\ start' = start
    BY <1>1, <1>2, ResetSearches
<1>4. Sighted'
    BY <1>1 DEF Sighted, IInv, worldVars, mapVars
<1>5. Called'
    BY <1>1, <1>2, <1>3 DEF Called, IInv, Outdate, Requests
<1> QED
    BY <1>3, <1>4, <1>5 DEF IInv

\* accept_plan forgets the recovery only.
LEMMA AcceptPlanStep ==
    ASSUME IInv, AcceptPlan
    PROVE  IInv'
<1>1. /\ pc = "idle" /\ recovery' = None /\ Outdate
      /\ UNCHANGED <<worldVars, mapVars, searchVars, position, pending, spent, probeVars,
                     pc, left>>
    BY DEF AcceptPlan
<1>2. Searched' /\ Limit' = Limit /\ goal' = goal /\ start' = start
    BY <1>1, SearchIsLeft DEF searchVars, IInv
<1>3. Sighted'
    BY <1>1 DEF Sighted, IInv, worldVars, mapVars
<1>4. Called'
    BY <1>1, <1>2 DEF Called, IInv, Outdate, Requests, probeVars
<1>5. Affected(delta) \subseteq (Affected(delta))'
    BY <1>1, DeltaGrows DEF searchVars, worldVars
<1>6. Lookahead'
    BY <1>1, <1>5, LookaheadIsLeft DEF IInv, worldVars, mapVars, searchVars
<1> QED
    BY <1>2, <1>3, <1>4, <1>6 DEF IInv

-----------------------------------------------------------------------------
(* A call begins.                                                             *)

\* The call gives up.
Failed == /\ byPeer' \in BOOLEAN /\ result' = "unreachable" /\ recovery' = None
          /\ pending' = FALSE /\ pc' = "idle" /\ left' = 0

\* A failing call, without its reason.
LEMMA FailFails ==
    ASSUME NEW why, NEW peer, peer \in BOOLEAN, Fail(why, peer)
    PROVE  Failed
BY Zenon DEF Fail, Failed

\* After it no call is under way.
LEMMA FailedCalls ==
    ASSUME Failed, spent' \in Nat, position' \in {None, start'}, probe' = None <=> visited' = {},
           probe' # None => goal' # None /\ probe' = <<start', goal', start'>>
    PROVE  Called'
BY DEF Failed, Called, Requests

\* A call takes the delta.
LEMMA AskingSees ==
    ASSUME Sighted, NEW s, NEW t, Asks(s, t)
    PROVE  Sighted'
<1>1. events' \in 0 .. MaxEvents
    BY EventCounts DEF Asks, Sighted
<1> QED
    BY <1>1, ReportsAreStates DEF Asks, Sighted

\* The search that a call continues or starts anew.
LEMMA BeginSearches ==
    ASSUME IInv, NEW s \in Starts, NEW t \in Goals, NEW budget, BeginSearch(s, t, budget)
    PROVE  /\ Searched' /\ Lookahead' /\ start' = s /\ goal' = t /\ t # None
           /\ probe' = None /\ visited' = {}
<1>1. RecordChanges /\ delta' = {} /\ UNCHANGED <<grid, peers, peerForbidden>>
    BY DEF BeginSearch, Asks
<1>2. CASE ~(goal = t /\ Inside(s))
  <2>1. Reset(s, t)
      BY <1>2, Zenon DEF BeginSearch
  <2> QED
      BY <2>1, ResetSearches
<1>3. CASE goal = t /\ Inside(s)
  <2>1. /\ km' = km + Octile(start, s) /\ start' = s
        /\ UNCHANGED <<missed, bounds, goal, g>>
        /\ CASE delta # {} -> UpdateVertices(Affected(delta), open)
             [] delta = {} /\ position # s /\ s \in BlockedCells(peerForbidden) ->
                    UpdateVertices({s}, open)
             [] OTHER -> UNCHANGED <<rhs, open>>
        /\ CancelProbe
      BY <1>3, Zenon DEF BeginSearch
  <2>2. t # None /\ s \in Cells /\ s # None
      BY WorldAssumption, WorldIsCells
  <2>3. goal # None /\ Asked /\ Boxed /\ Numbers /\ start \in Cells /\ start # None
      BY <1>3, <2>2, WorldAssumption, WorldIsCells DEF IInv, Searched, Asked
  <2>4. s \in Window
      BY <1>3, <2>2, <2>3, CellsAreGrid, WindowIsGrid DEF Boxed
  <2>5. km' \in Nat
      BY <2>1, <2>2, <2>3, OctileIsNumber DEF IInv, Searched
  <2>6. Searched' /\ Lookahead'
    <3>1. CASE delta # {}
      <4>1. UpdateVertices(Affected(delta), open)
          BY <2>1, <3>1, Zenon
      <4> QED
          BY <1>1, <2>1, <2>3, <2>5, <4>1, ChangesSearch DEF IInv
    <3>2. CASE delta = {}
      <4>1. states' = states
        <5>1. states' = [c \in Cells |-> states[c]]
            BY <1>1, <3>2 DEF RecordChanges
        <5> QED
            BY <5>1 DEF IInv, Sighted
      <4>2. bounds' = bounds /\ delta' = delta
          BY <1>1, <2>1, <3>2
      <4>3. Affected(delta) \subseteq (Affected(delta))' /\ (Affected(delta))' = Affected(delta)
        <5>1. (Affected(delta))' = Affected(delta)
            BY <4>2 DEF Affected, Inside, Neighbours
        <5> QED
            BY <5>1
      <4>4. CASE UNCHANGED <<rhs, open>>
        <5>1. Window' = Window
            BY <2>1 DEF Window
        <5>2. Searched'
            BY <2>1, <2>2, <2>3, <2>5, <4>4, <5>1
            DEF IInv, Searched, Asked, Boxed, Numbers, Queued, QueueIsInconsistent
        <5>3. Lookahead'
            BY <1>1, <2>1, <4>1, <4>3, <4>4, LookaheadIsLeft DEF IInv
        <5> QED
            BY <5>2, <5>3
      <4>5. CASE UpdateVertices({s}, open)
        <5> DEFINE A == {s}
        <5>1. (BlockedCells(peerForbidden))' = BlockedCells(peerForbidden)
          <6>1. \A c : BaseState(c)' = BaseState(c)
              BY <1>1, <4>1 DEF BaseState
          <6>2. Obstacles' = Obstacles
              BY <6>1 DEF Obstacles
          <6>3. Window' = Window
              BY <2>1 DEF Window
          <6> QED
              BY <1>1, <6>2, <6>3, Zenon DEF BlockedCells
        <5>2. \A c \in Window \ ((BlockedCells(peerForbidden))' \cup {goal}
                                   \cup (Affected(delta))' \cup A) : Unmoved(c)
            BY <2>1, <4>1, <4>3, <5>1 DEF Unmoved
        <5>3. /\ \A c \in Cells \ A : c \in DOMAIN open <=> g'[c] # rhs[c]
              /\ open \in [DOMAIN open -> Keys] /\ DOMAIN open \subseteq Window
              /\ g' \in [Cells -> 0 .. Inf] /\ start' \in Starts /\ A \subseteq Window
              /\ UpdateVertices(A, open)
            BY <2>1, <2>3, <2>4, <4>5 DEF IInv, Searched, QueueIsInconsistent, Queued, Numbers
        <5> HIDE DEF A
        <5> QED
            BY <2>1, <2>3, <2>5, <5>2, <5>3, UpdateSearches DEF IInv
      <4> QED
          BY <2>1, <3>2, <4>4, <4>5, Zenon
    <3> QED
        BY <3>1, <3>2
  <2> QED
      BY <1>3, <2>1, <2>2, <2>6 DEF CancelProbe
<1> QED
    BY <1>2, <1>3

\* The first part of advance_plan: it gives up at once or the search begins within its limit.
LEMMA BeginSearchStep ==
    ASSUME IInv, NEW s \in Starts, NEW t \in Goals, NEW budget \in Budgets,
           BeginSearch(s, t, budget)
    PROVE  IInv'
<1>1. Searched' /\ Lookahead' /\ start' = s /\ goal' = t /\ t # None
      /\ probe' = None /\ visited' = {}
    BY BeginSearches
<1>2. Asks(s, t) /\ position' = s
    BY DEF BeginSearch, Asks
<1>3. Sighted'
    BY <1>2, AskingSees DEF IInv
<1>4. spent' = SpentSoFar(t) /\ spent' \in Nat
  <2>1. spent' = SpentSoFar(t)
      BY Zenon DEF BeginSearch
  <2> QED
      BY <2>1 DEF SpentSoFar, IInv, Called
<1>5. Limit' \in Nat
  <2>1. Boxed'
      BY <1>1 DEF Searched, Asked
  <2> QED
      BY <2>1, FactsHoldNext DEF Facts, WindowFact
<1>6. CASE Failed
  <2>1. Called'
      BY <1>1, <1>2, <1>4, <1>6, FailedCalls
  <2> QED
      BY <1>1, <1>3, <2>1 DEF IInv
<1>7. CASE /\ spent' < Limit' /\ pc' = "search" /\ left' = budget /\ recovery' \in {None, recovery}
           /\ byPeer' = FALSE /\ result' = None /\ pending' = pending
  <2>1. budget \in Nat
      BY DStarLiteAssumption
  <2>2. recovery' \in Requests
      BY <1>7 DEF IInv, Called, Requests
  <2>3. pending \in BOOLEAN
      BY DEF IInv, Called
  <2>4. spent' <= Limit'
      BY <1>4, <1>5, <1>7
  <2>5. Called'
      BY <1>1, <1>2, <1>4, <1>7, <2>1, <2>2, <2>3, <2>4 DEF Called
  <2> QED
      BY <1>1, <1>3, <2>5 DEF IInv
<1>8. (CASE (StartBlocked(peerForbidden))' ->
             Fail("start_blocked", ~(StartBlocked({}))')
        [] ~(StartBlocked(peerForbidden))' /\ (t \in BlockedCells(peerForbidden))' ->
             Fail("goal_blocked", (t \notin BlockedCells({}))')
        [] ~(StartBlocked(peerForbidden))' /\ ~(t \in BlockedCells(peerForbidden))'
               /\ SpentSoFar(t) >= Limit' ->
             Fail("expansion_limit", FALSE)
        [] OTHER -> /\ pc' = "search" /\ left' = budget
                    /\ recovery' = IF goal = t /\ Inside(s) THEN recovery ELSE None
                    /\ failure' = None /\ byPeer' = FALSE
                    /\ result' = None /\ path' = <<>>
                    /\ UNCHANGED pending)
    BY Zenon DEF BeginSearch
<1>9. CASE (StartBlocked(peerForbidden))'
  <2>1. Fail("start_blocked", ~(StartBlocked({}))')
      BY <1>8, <1>9, Zenon
  <2>2. Failed
      BY <2>1, Zenon DEF Fail, Failed
  <2> QED
      BY <1>6, <2>2
<1>10. CASE ~(StartBlocked(peerForbidden))' /\ (t \in BlockedCells(peerForbidden))'
  <2>1. Fail("goal_blocked", (t \notin BlockedCells({}))')
      BY <1>8, <1>10, Zenon
  <2>2. Failed
      BY <2>1, Zenon DEF Fail, Failed
  <2> QED
      BY <1>6, <2>2
<1>11. CASE /\ ~(StartBlocked(peerForbidden))' /\ ~(t \in BlockedCells(peerForbidden))'
            /\ SpentSoFar(t) >= Limit'
  <2>1. Fail("expansion_limit", FALSE)
      BY <1>8, <1>11, Zenon
  <2>2. Failed
      BY <2>1, Zenon DEF Fail, Failed
  <2> QED
      BY <1>6, <2>2
<1>12. CASE /\ ~(StartBlocked(peerForbidden))' /\ ~(t \in BlockedCells(peerForbidden))'
            /\ ~(SpentSoFar(t) >= Limit')
  <2>1. /\ pc' = "search" /\ left' = budget
        /\ recovery' = IF goal = t /\ Inside(s) THEN recovery ELSE None
        /\ byPeer' = FALSE /\ result' = None /\ UNCHANGED pending
      BY <1>8, <1>12, Zenon
  <2>2. recovery' \in {None, recovery}
      BY <2>1
  <2>3. spent' < Limit'
      BY <1>4, <1>5, <1>12
  <2>4. pending' = pending
      BY <2>1
  <2> QED
      BY <1>7, <2>1, <2>2, <2>3, <2>4, Zenon
<1> QED
    BY <1>9, <1>10, <1>11, <1>12, Zenon

\* advance_plan goes on with the probe of the same request.
LEMMA BeginProbeStep ==
    ASSUME IInv, NEW s \in Starts, NEW t \in Goals, NEW budget \in Budgets,
           BeginProbe(s, t, budget)
    PROVE  IInv'
<1>1. /\ Asks(s, t) /\ delta = {} /\ delta' = {} /\ probe = <<s, t, s>> /\ position' = s
      /\ pc' = "probe" /\ left' = budget /\ byPeer' = FALSE /\ result' = None
      /\ UNCHANGED <<searchVars, pending, spent, probeVars, recovery>>
      /\ RecordChanges /\ UNCHANGED <<grid, peers, peerForbidden>>
    BY DEF BeginProbe, Asks, Probes
<1>2. Sighted'
    BY <1>1, AskingSees DEF IInv
<1>3. Searched' /\ Limit' = Limit /\ goal' = goal /\ start' = start
    BY <1>1, SearchIsLeft DEF searchVars, IInv
<1>4. probe # None
    BY <1>1, WorldAssumption, WorldIsCells
<1>5. start = s /\ goal = t /\ goal # None
    BY <1>1, <1>4 DEF IInv, Called
<1>6. budget \in Nat
    BY DStarLiteAssumption
<1>7. Called'
    BY <1>1, <1>3, <1>4, <1>5, <1>6 DEF Called, IInv, probeVars
<1>8. states' = states
  <2>1. states' = [c \in Cells |-> states[c]]
      BY <1>1 DEF RecordChanges
  <2> QED
      BY <2>1 DEF IInv, Sighted
<1>9. Affected(delta) \subseteq (Affected(delta))'
    BY <1>1, DeltaGrows DEF searchVars
<1>10. Lookahead'
    BY <1>1, <1>8, <1>9, LookaheadIsLeft DEF IInv, searchVars
<1> QED
    BY <1>2, <1>3, <1>7, <1>10 DEF IInv

-----------------------------------------------------------------------------
(* The search.                                                                *)

\* The heap has a first entry: keys and cells are ordered.
LEMMA TopIsQueued ==
    ASSUME Searched, DOMAIN open # {}
    PROVE  Top \in DOMAIN open /\ \A d \in DOMAIN open \ {Top} : Before(Top, d)
<1> DEFINE D == DOMAIN open
<1>1. CASE goal = None
    BY <1>1 DEF Searched, Window
<1>2. CASE goal # None
  <2>1. Asked /\ D \subseteq Cells /\ D # {}
      BY <1>2 DEF Searched, Asked
  <2>2. \A c \in D : open[c] \in Keys
      BY DEF Searched, Queued
  <2> DEFINE X == {open[c][1] : c \in D}
  <2>3. X \subseteq Nat /\ X # {}
      BY <2>1, <2>2 DEF Keys
  <2>4. PICK x \in X : \A y \in X : x <= y
      BY <2>3, LeastExists
  <2> DEFINE D1 == {c \in D : open[c][1] = x}
  <2> DEFINE X2 == {open[c][2] : c \in D1}
  <2>5. X2 \subseteq Nat /\ X2 # {}
      BY <2>2, <2>4 DEF Keys
  <2>6. PICK x2 \in X2 : \A y \in X2 : x2 <= y
      BY <2>5, LeastExists
  <2> DEFINE D2 == {c \in D1 : open[c][2] = x2}
  <2> DEFINE X3 == {c[1] + Margin : c \in D2}
  <2>7. \A c \in Cells : c[1] + Margin \in Nat /\ c[2] + Margin \in Nat /\ c = <<c[1], c[2]>>
      BY DStarLiteAssumption DEF Cells
  <2>8. X3 \subseteq Nat /\ X3 # {}
      BY <2>1, <2>6, <2>7
  <2>9. PICK x3 \in X3 : \A y \in X3 : x3 <= y
      BY <2>8, LeastExists
  <2> DEFINE D3 == {c \in D2 : c[1] + Margin = x3}
  <2> DEFINE X4 == {c[2] + Margin : c \in D3}
  <2>10. X4 \subseteq Nat /\ X4 # {}
      BY <2>1, <2>7, <2>9
  <2>11. PICK x4 \in X4 : \A y \in X4 : x4 <= y
      BY <2>10, LeastExists
  <2>12. PICK c \in D3 : c[2] + Margin = x4
      BY <2>11
  <2>13. ASSUME NEW d \in D \ {c} PROVE Before(c, d)
    <3>0. c \in D /\ open[c][1] = x /\ open[c][2] = x2 /\ c[1] + Margin = x3
        BY <2>12
    <3>1. open[c] \in Nat \X Nat /\ open[d] \in Nat \X Nat
        BY <2>2, <3>0 DEF Keys
    <3>2. open[c][1] <= open[d][1]
        BY <2>4, <3>0
    <3>3. open[c][1] = open[d][1] => open[c][2] <= open[d][2]
        BY <2>6, <3>0
    <3>4. open[c] = open[d] => c[1] + Margin <= d[1] + Margin
        BY <2>9, <3>0
    <3>5. open[c] = open[d] /\ c[1] + Margin = d[1] + Margin => c[2] + Margin <= d[2] + Margin
        BY <2>11, <2>12, <3>0
    <3>6. /\ c[1] \in Int /\ c[2] \in Int /\ d[1] \in Int /\ d[2] \in Int /\ Margin \in Nat
          /\ c = <<c[1], c[2]>> /\ d = <<d[1], d[2]>> /\ c # d
        BY <2>1, <3>0, CellsAreGrid, DStarLiteAssumption
    <3>7. c[1] <= d[1] /\ c[1] = d[1] => c[2] # d[2]
        BY <3>6
    <3>8. open[c] # open[d] => open[c][1] # open[d][1] \/ open[c][2] # open[d][2]
        BY <3>1
    <3>9. open[c] # open[d] => KeyLess(open[c], open[d])
        BY <3>1, <3>2, <3>3, <3>8 DEF KeyLess
    <3>10. open[c] = open[d] => c[1] < d[1] \/ (c[1] = d[1] /\ c[2] < d[2])
        BY <3>4, <3>5, <3>6
    <3> QED
        BY <3>9, <3>10 DEF Before
  <2>14. \E e \in D : \A d \in D \ {e} : Before(e, d)
      BY <2>12, <2>13
  <2> QED
      BY <2>14, Zenon DEF Top
<1> QED
    BY <1>1, <1>2

\* Expanding a cell changes what its neighbours see, and nothing else.
LEMMA ExpansionSearches ==
    ASSUME IInv, goal # None, NEW c \in DOMAIN open, NEW v \in 0 .. Inf,
           UNCHANGED <<worldVars, mapVars, missed, bounds, start, goal, km>>,
           g' = [g EXCEPT ![c] = v],
           NEW A, (A = Neighbours(c) /\ v = rhs[c]) \/ A = {c} \cup Neighbours(c),
           UpdateVertices(A, Without(open, {c}))
    PROVE  Searched' /\ Lookahead'
<1>1. Asked /\ Boxed /\ Numbers /\ Queued /\ c \in Window /\ c \in Cells /\ km \in Nat
      /\ Window \subseteq Cells
    BY DEF IInv, Searched, Asked
<1>2. c \in Int \X Int
    BY <1>1, CellsAreGrid
<1>3. Neighbours(c) \subseteq Window /\ c \notin Neighbours(c)
    BY <1>1, <1>2, NeighboursAreNear DEF Boxed
<1>4. A \subseteq Window
    BY <1>1, <1>3
<1>5. grid' = grid /\ delta' = delta /\ states' = states /\ peerForbidden' = peerForbidden
      /\ missed' = missed /\ bounds' = bounds /\ start' = start /\ goal' = goal /\ km' = km
    BY DEF worldVars, mapVars
<1>6. /\ g' \in [Cells -> 0 .. Inf]
      /\ \A d \in Cells : d # c => g'[d] = g[d]
      /\ g'[c] = v
    BY <1>1 DEF Numbers
<1>7. (BlockedCells(peerForbidden))' = BlockedCells(peerForbidden)
  <2>1. \A o : BaseState(o)' = BaseState(o)
      BY <1>5 DEF BaseState
  <2>2. Obstacles' = Obstacles
      BY <2>1 DEF Obstacles
  <2>3. Window' = Window
      BY <1>5 DEF Window
  <2> QED
      BY <1>5, <2>2, <2>3, Zenon DEF BlockedCells
<1>8. (Affected(delta))' = Affected(delta)
    BY <1>5 DEF Affected, Inside, Neighbours
<1>9. ASSUME NEW d \in Window \ ((BlockedCells(peerForbidden))' \cup {goal}
                                   \cup (Affected(delta))' \cup A)
      PROVE  Unmoved(d)
  <2>1. c \notin Neighbours(d)
    <3>1. d \notin Neighbours(c)
        BY <1>9
    <3> QED
        BY <1>1, <3>1, NeighboursAreMutual DEF Boxed
  <2>2. d \in Int \X Int
      BY <1>1, CellsAreGrid
  <2>3. Neighbours(d) \subseteq Cells
      BY <1>1, <2>2, NeighboursAreNear DEF Boxed
  <2>4. \A e \in Neighbours(d) : g'[e] = g[e] /\ states'[e] = states[e]
      BY <1>5, <1>6, <2>1, <2>3
  <2> QED
      BY <1>7, <1>8, <1>9, <2>4 DEF Unmoved
<1> DEFINE queue == Without(open, {c})
<1>10. DOMAIN queue = DOMAIN open \ {c} /\ \A d \in DOMAIN open \ {c} : queue[d] = open[d]
    BY DEF Without
<1>11. queue \in [DOMAIN queue -> Keys]
  <2>1. queue = [d \in DOMAIN open \ {c} |-> open[d]]
      BY DEF Without
  <2>2. \A d \in DOMAIN open : open[d] \in Keys
      BY <1>1 DEF Queued
  <2> HIDE DEF queue
  <2> QED
      BY <1>10, <2>1, <2>2
<1>12. \A d \in Cells \ A : d \in DOMAIN queue <=> g'[d] # rhs[d]
    BY <1>1, <1>3, <1>6, <1>10 DEF IInv, Searched, QueueIsInconsistent
<1>13. DOMAIN queue \subseteq Window
    BY <1>10 DEF IInv, Searched
<1>14. start' \in Starts /\ km' \in Nat
    BY <1>1, <1>5 DEF Asked
<1>15. UpdateVertices(A, queue)
    OBVIOUS
<1> HIDE DEF queue
<1> QED
    BY <1>4, <1>5, <1>6, <1>9, <1>11, <1>12, <1>13, <1>14, <1>15, UpdateSearches DEF IInv

\* An expansion of _advance_shortest_path: a key brought up to date, a cell lowered, a cell raised.
LEMMA ExpandStep ==
    ASSUME IInv, Expand
    PROVE  IInv'
<1> DEFINE c == Top
<1>1. /\ pc = "search" /\ left > 0 /\ spent < Limit /\ DOMAIN open # {}
      /\ left' = left - 1 /\ spent' = spent + 1
      /\ UNCHANGED <<worldVars, mapVars, missed, bounds, start, goal, km, position, pending,
                     probeVars, recovery, answerVars, pc>>
    BY DEF Expand, Searching, MayExpand
<1>2. Sighted'
    BY <1>1 DEF Sighted, IInv, worldVars, mapVars
<1>3. goal # None /\ Asked /\ Boxed /\ Limit \in Nat
    BY <1>1, FactsHold DEF IInv, Called, Searched, Asked, Facts, WindowFact
<1>4. Limit' = Limit
    BY <1>1 DEF Limit, Window
<1>5. Called'
    BY <1>1, <1>3, <1>4 DEF IInv, Called, probeVars, answerVars
<1>6. Top \in DOMAIN open /\ Top \in Cells
    BY <1>1, <1>3, TopIsQueued DEF IInv, Searched, Asked
<1>7. CASE KeyLess(open[Top], Key(Top))
  <2>1. open' = [open EXCEPT ![Top] = Key(Top)] /\ g' = g /\ rhs' = rhs
      BY <1>7 DEF Expand
  <2>2. start \in Cells /\ km \in Nat /\ Numbers /\ Queued
      BY <1>3, WorldAssumption, WorldIsCells DEF IInv, Searched, Asked
  <2>3. Key(Top) \in Keys
      BY <1>6, <2>2, KeyIsKey
  <2>4. open' \in [DOMAIN open -> Keys] /\ DOMAIN open' = DOMAIN open
      BY <2>1, <2>2, <2>3 DEF Queued
  <2>5. Queued' /\ Numbers' /\ Window' = Window /\ QueueIsInconsistent' /\ Asked' /\ km' = km
      BY <1>1, <1>3, <2>1, <2>2, <2>4
      DEF Queued, Numbers, Window, QueueIsInconsistent, IInv, Searched, Asked, Boxed
  <2>6. Searched'
      BY <1>1, <2>2, <2>4, <2>5 DEF IInv, Searched
  <2>7. Affected(delta) \subseteq (Affected(delta))'
      BY <1>1, DeltaGrows DEF worldVars
  <2>8. Lookahead'
      BY <1>1, <2>1, <2>7, LookaheadIsLeft DEF IInv, worldVars, mapVars
  <2> QED
      BY <1>2, <1>5, <2>6, <2>8 DEF IInv
<1>8. CASE ~KeyLess(open[Top], Key(Top)) /\ g[Top] > rhs[Top]
  <2>1. g' = [g EXCEPT ![Top] = rhs[Top]] /\ UpdateVertices(Neighbours(Top), Without(open, {Top}))
      BY <1>8, Zenon DEF Expand
  <2>2. rhs[Top] \in 0 .. Inf
      BY <1>6 DEF IInv, Searched, Numbers
  <2>3. Searched' /\ Lookahead'
      BY <1>1, <1>3, <1>6, <2>1, <2>2, ExpansionSearches
  <2> QED
      BY <1>2, <1>5, <2>3 DEF IInv
<1>9. CASE ~KeyLess(open[Top], Key(Top)) /\ ~(g[Top] > rhs[Top])
  <2>1. g' = [g EXCEPT ![Top] = Inf]
        /\ UpdateVertices({Top} \cup Neighbours(Top), Without(open, {Top}))
      BY <1>9, Zenon DEF Expand
  <2>2. Inf \in 0 .. Inf
      BY InfIsNat
  <2>3. Searched' /\ Lookahead'
      BY <1>1, <1>3, <1>6, <2>1, <2>2, ExpansionSearches
  <2> QED
      BY <1>2, <1>5, <2>3 DEF IInv
<1> QED
    BY <1>7, <1>8, <1>9

\* A step that changes neither the map nor the search.
LEMMA AllIsLeft ==
    ASSUME IInv, UNCHANGED <<worldVars, mapVars, searchVars>>
    PROVE  /\ Sighted' /\ Searched' /\ Lookahead'
           /\ Limit' = Limit /\ goal' = goal /\ start' = start
<1>1. Sighted'
    BY DEF Sighted, IInv, worldVars, mapVars
<1>2. Searched' /\ Limit' = Limit /\ goal' = goal /\ start' = start
    BY SearchIsLeft DEF searchVars, IInv
<1>3. Affected(delta) \subseteq (Affected(delta))'
    BY DeltaGrows DEF searchVars, worldVars
<1>4. Lookahead'
    BY <1>3, LookaheadIsLeft DEF IInv, worldVars, mapVars, searchVars
<1> QED
    BY <1>1, <1>2, <1>4

\* The budget or the limit is spent.
LEMMA SuspendSearchStep ==
    ASSUME IInv, SuspendSearch
    PROVE  IInv'
<1>1. /\ UNCHANGED <<worldVars, mapVars, searchVars, position, spent, probeVars>>
      /\ IF spent < Limit THEN Suspend /\ UNCHANGED recovery ELSE Fail("expansion_limit", FALSE)
    BY DEF SuspendSearch
<1>2. /\ Sighted' /\ Searched' /\ Lookahead'
      /\ Limit' = Limit /\ goal' = goal /\ start' = start
    BY <1>1, AllIsLeft
<1>3. CASE spent < Limit
  <2>1. Suspend /\ UNCHANGED <<position, spent, probeVars, recovery>>
      BY <1>1, <1>3
  <2>2. Called'
      BY <1>2, <2>1 DEF Called, IInv, Suspend, probeVars
  <2> QED
      BY <1>2, <2>2 DEF IInv
<1>4. CASE ~(spent < Limit)
  <2>1. Failed
      BY <1>1, <1>4, FailFails
  <2>2. Called'
      BY <1>1, <1>2, <2>1, FailedCalls DEF Called, IInv, probeVars
  <2> QED
      BY <1>2, <2>2 DEF IInv
<1> QED
    BY <1>3, <1>4

\* The search is over.
LEMMA ConcludeStep ==
    ASSUME IInv, Conclude
    PROVE  IInv'
<1>1. pc = "search" /\ UNCHANGED <<worldVars, mapVars, position>>
    BY DEF Conclude
<1>2. goal # None /\ Asked /\ position = start
    BY <1>1 DEF IInv, Called, Searched
<1>3. start \in Cells /\ goal \in Cells
    BY <1>2, WorldAssumption, WorldIsCells DEF Asked
<1>4. Sighted'
    BY <1>1 DEF Sighted, IInv, worldVars, mapVars
<1>5. CASE ExtractPath # <<>>
  <2>1. /\ result' = "ready" /\ pending' = FALSE /\ pc' = "idle" /\ left' = 0
        /\ UNCHANGED <<searchVars, spent, probeVars, recovery, failure, byPeer>>
      BY <1>5, Zenon DEF Conclude
  <2>2. Searched' /\ Lookahead' /\ goal' = goal /\ start' = start
      BY <1>1, <2>1, AllIsLeft
  <2>3. Called'
      BY <1>1, <2>1, <2>2 DEF Called, IInv, probeVars
  <2> QED
      BY <1>4, <2>2, <2>3 DEF IInv
<1>6. CASE ExtractPath = <<>> /\ CanRecover
  <2>1. Reset(start, goal) /\ recovery' = <<start, goal>> /\ spent' = 0 /\ Suspend
      BY <1>6, Zenon DEF Conclude
  <2>2. /\ Searched' /\ Lookahead' /\ start' = start /\ goal' = goal
        /\ probe' = None /\ visited' = {}
      BY <1>2, <2>1, ResetSearches DEF Asked
  <2>3. recovery' \in Requests
      BY <1>2, <2>1 DEF Asked, Requests
  <2>4. Called'
      BY <1>1, <1>2, <2>1, <2>2, <2>3 DEF Called, IInv, Suspend
  <2> QED
      BY <1>4, <2>2, <2>4 DEF IInv
<1>7. CASE ExtractPath = <<>> /\ ~CanRecover /\ g[start] >= Inf /\ peerForbidden # {}
  <2>1. /\ recovery' = None /\ pending' = FALSE /\ probe' = <<start, goal, position>>
        /\ visited' = {start} /\ pc' = "probe"
        /\ UNCHANGED <<searchVars, spent, answerVars, left>>
      BY <1>7, Zenon DEF Conclude
  <2>2. Searched' /\ Lookahead' /\ goal' = goal /\ start' = start
      BY <1>1, <2>1, AllIsLeft
  <2>3. probe' # None /\ probe' = <<start', goal', start'>>
      BY <1>2, <1>3, <2>1, <2>2, WorldAssumption
  <2>4. Called'
      BY <1>1, <1>2, <2>1, <2>2, <2>3 DEF Called, IInv, answerVars, Requests
  <2> QED
      BY <1>4, <2>2, <2>4 DEF IInv
<1>8. CASE ExtractPath = <<>> /\ ~CanRecover /\ ~(g[start] >= Inf /\ peerForbidden # {})
  <2>1. /\ Fail(IF g[start] >= Inf THEN "search_exhausted" ELSE "path_extraction", FALSE)
        /\ UNCHANGED <<searchVars, spent, probeVars>>
      BY <1>8, Zenon DEF Conclude
  <2>2. Failed
      BY <2>1, FailFails
  <2>3. Searched' /\ Lookahead' /\ goal' = goal /\ start' = start
      BY <1>1, <2>1, AllIsLeft
  <2>4. Called'
      BY <1>1, <2>1, <2>2, <2>3, FailedCalls DEF Called, IInv, probeVars
  <2> QED
      BY <1>4, <2>3, <2>4 DEF IInv
<1> QED
    BY <1>5, <1>6, <1>7, <1>8

-----------------------------------------------------------------------------
(* The probe.                                                                 *)

\* The probe is over.
LEMMA BlamedStep ==
    ASSUME IInv, NEW peer \in BOOLEAN, Blamed(peer),
           UNCHANGED <<worldVars, mapVars, searchVars, position>>
    PROVE  IInv'
<1>1. CancelProbe /\ Fail("search_exhausted", peer) /\ spent' = spent
    BY DEF Blamed
<1>2. Failed
    BY <1>1, FailFails
<1>3. Sighted' /\ Searched' /\ Lookahead' /\ goal' = goal /\ start' = start
    BY AllIsLeft
<1>4. Called'
    BY <1>1, <1>2, <1>3, FailedCalls DEF Called, IInv, CancelProbe
<1> QED
    BY <1>3, <1>4 DEF IInv

\* The probe visits a cell.
LEMMA ProbeStepStep ==
    ASSUME IInv, ProbeStep
    PROVE  IInv'
<1>1. pc = "probe" /\ left > 0 /\ UNCHANGED <<worldVars, mapVars, searchVars, position>>
    BY DEF ProbeStep
<1>2. CASE Head(frontier) = goal
  <2>1. Blamed(TRUE)
      BY <1>2, Zenon DEF ProbeStep
  <2> QED
      BY <1>1, <2>1, BlamedStep
<1>3. CASE Head(frontier) # goal
  <2>1. /\ \E S : visited' = visited \cup S
        /\ left' = left - 1
        /\ UNCHANGED <<probe, pending, spent, recovery, answerVars, pc>>
      BY <1>3, Zenon DEF ProbeStep
  <2>2. Sighted' /\ Searched' /\ Lookahead' /\ Limit' = Limit /\ goal' = goal /\ start' = start
      BY <1>1, AllIsLeft
  <2>3. probe' # None /\ visited' # {}
      BY <1>1, <2>1 DEF IInv, Called
  <2>4. Called'
      BY <1>1, <2>1, <2>2, <2>3 DEF IInv, Called, answerVars
  <2> QED
      BY <2>2, <2>4 DEF IInv
<1> QED
    BY <1>2, <1>3

\* The budget of the probe is spent.
LEMMA SuspendProbeStep ==
    ASSUME IInv, SuspendProbe
    PROVE  IInv'
<1>1. Suspend
      /\ UNCHANGED <<worldVars, mapVars, searchVars, position, spent, probeVars, recovery>>
    BY DEF SuspendProbe
<1>2. Sighted' /\ Searched' /\ Lookahead' /\ Limit' = Limit /\ goal' = goal /\ start' = start
    BY <1>1, AllIsLeft
<1>3. Called'
    BY <1>1, <1>2 DEF IInv, Called, Suspend, probeVars
<1> QED
    BY <1>2, <1>3 DEF IInv

-----------------------------------------------------------------------------
(* The search is consistent.                                                  *)

\* Every action keeps the invariant.
LEMMA NextKeeps == IInv /\ [Next]_vars => IInv'
<1> SUFFICES ASSUME IInv, [Next]_vars PROVE IInv'
    OBVIOUS
<1>1. ASSUME NEW n \in Novelties, Scan(n[1], n[2]) PROVE IInv'
    BY <1>1, ScanStep
<1>2. ASSUME NEW P \in PeerAreas, PeersMove(P) PROVE IInv'
    BY <1>2, PeersMoveStep
<1>3. CASE MissDelta
    BY <1>3, MissDeltaStep
<1>4. CASE Call
  <2>1. CASE SetPeerForbiddenCells
      BY <2>1, SetPeerForbiddenCellsStep
  <2>2. CASE ObserveChanges
      BY <2>2, ObserveChangesStep
  <2>3. CASE RecoverUnusablePlan
      BY <2>3, RecoverUnusablePlanStep
  <2>4. CASE AcceptPlan
      BY <2>4, AcceptPlanStep
  <2>5. ASSUME NEW s \in Starts, NEW t \in Goals, RestartPlan(s, t) PROVE IInv'
      BY <2>5, RestartPlanStep
  <2>6. ASSUME NEW s \in Starts, NEW t \in Goals, NEW n \in Budgets, BeginSearch(s, t, n)
        PROVE  IInv'
      BY <2>6, BeginSearchStep
  <2>7. ASSUME NEW s \in Starts, NEW t \in Goals, NEW n \in Budgets, BeginProbe(s, t, n)
        PROVE  IInv'
      BY <2>7, BeginProbeStep
  <2> QED
      BY <1>4, <2>1, <2>2, <2>3, <2>4, <2>5, <2>6, <2>7 DEF Call, Advance
<1>5. CASE Run
  <2>1. CASE Expand
      BY <2>1, ExpandStep
  <2>2. CASE SuspendSearch
      BY <2>2, SuspendSearchStep
  <2>3. CASE Conclude
      BY <2>3, ConcludeStep
  <2>4. CASE ProbeFails
      BY <2>4, BlamedStep DEF ProbeFails
  <2>5. CASE ProbeStep
      BY <2>5, ProbeStepStep
  <2>6. CASE SuspendProbe
      BY <2>6, SuspendProbeStep
  <2> QED
      BY <1>5, <2>1, <2>2, <2>3, <2>4, <2>5, <2>6 DEF Run
<1>6. CASE UNCHANGED vars
  <2>1. Sighted' /\ Searched' /\ Lookahead' /\ Limit' = Limit /\ goal' = goal /\ start' = start
      BY <1>6, AllIsLeft DEF vars, worldVars
  <2>2. UNCHANGED <<position, pending, spent, probeVars, recovery, answerVars, pc, left>>
      BY <1>6 DEF vars
  <2>3. Called'
      BY <2>1, <2>2 DEF IInv, Called, probeVars, answerVars
  <2> QED
      BY <2>1, <2>3 DEF IInv
<1> QED
    BY <1>1, <1>2, <1>3, <1>4, <1>5, <1>6 DEF Next

\* The invariant holds of every session.
THEOREM Invariance == Spec => []IInv
<1>1. Init => IInv
    BY InitHolds
<1>2. IInv /\ [Next]_vars => IInv'
    BY NextKeeps
<1> QED
    BY <1>1, <1>2, PTL DEF Spec

\* The planner's dictionaries, queue, window and session counters stay well formed.
THEOREM TypeCorrect == Spec => []TypeOK
<1>1. IInv => TypeOK
  <2> SUFFICES ASSUME IInv PROVE TypeOK
      OBVIOUS
  <2>1. start \in Cells \cup {None} /\ goal \in Cells \cup {None}
      BY WorldAssumption, WorldIsCells DEF IInv, Searched, Asked
  <2>2. DOMAIN open \subseteq Window /\ g \in [Cells -> 0 .. Inf] /\ rhs \in [Cells -> 0 .. Inf]
        /\ km \in Nat /\ (bounds = None <=> goal = None)
      BY DEF IInv, Searched, Numbers
  <2>3. /\ position \in {None, start} /\ spent \in Nat /\ left \in Nat
        /\ pc = "search" => spent <= Limit
        /\ pending \in BOOLEAN /\ byPeer \in BOOLEAN
        /\ (probe = None <=> visited = {}) /\ recovery \in Requests
        /\ pc \in {"idle", "search", "probe"}
        /\ result \in {None, "pending", "ready", "unreachable"}
      BY DEF IInv, Called
  <2>4. Sighted
      BY DEF IInv
  <2> QED
      BY <2>1, <2>2, <2>3, <2>4 DEF TypeOK, Sighted
<1> QED
    BY <1>1, Invariance, PTL

\* On every grid, with every margin and footprint, and whatever scans, peer moves, start
\* moves, restarts and suspensions come between two expansions: the queue holds exactly
\* the cells whose two values differ, and unless the planner was kept from a change the
\* lookahead values are those of the map and the peers of today.
THEOREM SearchStaysConsistent == Spec => []SearchIsConsistent
<1>1. IInv => SearchIsConsistent
  <2> SUFFICES ASSUME IInv PROVE SearchIsConsistent
      OBVIOUS
  <2>1. QueueIsInconsistent
      BY DEF IInv, Searched
  <2>2. RhsIsCurrent
    <3> SUFFICES ASSUME goal # None, delta = {}, ~missed,
                        NEW c \in Window \ (BlockedCells(peerForbidden) \cup {goal})
                 PROVE  rhs[c] = Best(BlockedCells(peerForbidden), c)
        BY Zenon DEF RhsIsCurrent
    <3>1. Boxed
        BY DEF IInv, Searched, Asked
    <3>2. Affected(delta) = {}
        BY <3>1, AffectedIsInside
    <3>3. PICK B \in {BlockedCells(peerForbidden)} :
            \A d \in Window \ (B \cup {goal} \cup Affected(delta)) : rhs[d] = Best(B, d)
        BY Zenon DEF IInv, Lookahead
    <3> QED
        BY <3>2, <3>3
  <2> QED
      BY <2>1, <2>2 DEF SearchIsConsistent
<1> QED
    BY <1>1, Invariance, PTL

-----------------------------------------------------------------------------
(* Counting up and iterating.                                                 *)

\* A product grows by a factor with the other.
LEMMA OneMore == ASSUME NEW a \in Nat, NEW b \in Nat PROVE a * (b + 1) = a * b + a
OBVIOUS

\* What holds of 0, and of the number after each that it holds of, holds up to n.
LEMMA CountingUp ==
    ASSUME NEW n \in Nat, NEW S, 0 \in S, \A k \in 0 .. n - 1 : k \in S => k + 1 \in S
    PROVE  0 .. n \subseteq S
<1> DEFINE rest == (0 .. n) \ S
<1> SUFFICES ASSUME rest # {} PROVE FALSE
    OBVIOUS
<1>1. rest \subseteq Nat
    OBVIOUS
<1>2. PICK k \in rest : \A j \in rest : k <= j
    BY <1>1, LeastExists
<1>3. k \in 0 .. n /\ k \notin S /\ k # 0
    OBVIOUS
<1>4. k - 1 \in 0 .. n - 1 /\ k - 1 \in S
    BY <1>2, <1>3
<1> QED
    BY <1>3, <1>4

\* A recursion over numbers defines a function.
Iterating(f, X, a, n, G) ==
    /\ G \in [Nat \X X -> X]
    /\ f \in [0 .. n -> X] /\ f[0] = a /\ \A k \in 1 .. n : f[k] = G[<<k, f[k - 1]>>]

\* There is such a function.
LEMMA Iterates ==
    ASSUME NEW X, NEW a \in X, NEW n \in Nat, NEW G \in [Nat \X X -> X]
    PROVE  \E f : Iterating(f, X, a, n, G)
<1> DEFINE Upto(m) == \E f \in [0 .. m -> X] : f[0] = a /\ \A k \in 1 .. m : f[k] = G[<<k, f[k - 1]>>]
           S == {m \in 0 .. n : Upto(m)}
<1>1. 0 \in S
  <2> DEFINE f == [k \in 0 .. 0 |-> a]
  <2>1. f \in [0 .. 0 -> X] /\ f[0] = a /\ \A k \in 1 .. 0 : f[k] = G[<<k, f[k - 1]>>]
      OBVIOUS
  <2>2. Upto(0)
      BY <2>1
  <2> QED
      BY <2>2
<1>2. ASSUME NEW m \in 0 .. n - 1, m \in S PROVE m + 1 \in S
  <2>1. PICK f \in [0 .. m -> X] : f[0] = a /\ \A k \in 1 .. m : f[k] = G[<<k, f[k - 1]>>]
      BY <1>2
  <2> DEFINE h == [k \in 0 .. m + 1 |-> IF k <= m THEN f[k] ELSE G[<<m + 1, f[m]>>]]
  <2>2. f[m] \in X
      BY <2>1
  <2>3. G[<<m + 1, f[m]>>] \in X
      BY <2>2
  <2>4. h \in [0 .. m + 1 -> X]
      BY <2>1, <2>3
  <2>5. h[0] = a
      BY <2>1
  <2>6. ASSUME NEW k \in 1 .. m + 1 PROVE h[k] = G[<<k, h[k - 1]>>]
    <3>1. CASE k <= m
        BY <2>1, <3>1
    <3>2. CASE k = m + 1
        BY <3>2
    <3> QED
        BY <3>1, <3>2
  <2>7. Upto(m + 1)
      BY <2>4, <2>5, <2>6
  <2> QED
      BY <2>7
<1>3. 0 .. n \subseteq S
    BY <1>1, <1>2, CountingUp
<1>4. n \in S
    BY <1>3
<1> QED
    BY <1>4 DEF Iterating

-----------------------------------------------------------------------------
(* The reference search.                                                      *)

\* Costs of moves between the cells of a finite window, back as well as forth.  A move
\* costs most at the most, or cannot be made.
IsCostMap(C) ==
    /\ IsFiniteSet(DOMAIN C)
    /\ \A c \in DOMAIN C : DOMAIN C[c] \subseteq DOMAIN C
    /\ \A c \in DOMAIN C : \A d \in DOMAIN C[c] :
          c \in DOMAIN C[d] /\ C[c][d] \in Nat

Bounded(C, most) ==
    /\ most \in Nat /\ most * (Cardinality(DOMAIN C) + 1) < Inf
    /\ \A c \in DOMAIN C : \A d \in DOMAIN C[c] : C[c][d] <= most \/ C[c][d] >= Inf

Pairs(C) == Nat \X DOMAIN C
Done(S) == {s[2] : s \in S}

\* S and a step of the search from it.
LEMMA NearestAre ==
    ASSUME NEW C, IsCostMap(C), NEW S \in SUBSET Pairs(C), NEW e \in Nearest(C, S)
    PROVE  /\ e \in Pairs(C) /\ e[1] < Inf /\ e[2] \notin Done(S)
           /\ \E s \in S : e[2] \in DOMAIN C[s[2]] /\ e = <<s[1] + C[e[2]][s[2]], e[2]>>
           /\ \A s \in S : \A d \in DOMAIN C[s[2]] \ Done(S) : e[1] <= s[1] + C[d][s[2]]
<1> DEFINE edge == UNION {{<<s[1] + C[d][s[2]], d>> : d \in DOMAIN C[s[2]] \ Done(S)} : s \in S}
           finite == {f \in edge : f[1] < Inf}
<1>1. Nearest(C, S) = {f \in finite : \A h \in finite : f[1] <= h[1]}
    BY DEF Nearest, Done
<1>2. e \in edge /\ e[1] < Inf /\ \A h \in finite : e[1] <= h[1]
    BY <1>1
<1>3. PICK s \in S : \E d \in DOMAIN C[s[2]] \ Done(S) : e = <<s[1] + C[d][s[2]], d>>
    BY <1>2
<1>7. PICK d \in DOMAIN C[s[2]] \ Done(S) : e = <<s[1] + C[d][s[2]], d>>
    BY <1>3
<1>4. s[1] \in Nat /\ s[2] \in DOMAIN C /\ d \in DOMAIN C /\ C[d][s[2]] \in Nat
    BY DEF IsCostMap, Pairs
<1>5. e \in Pairs(C) /\ e[2] = d /\ e[1] = s[1] + C[d][s[2]]
    BY <1>7, <1>4 DEF Pairs
<1>6. ASSUME NEW r \in S, NEW c \in DOMAIN C[r[2]] \ Done(S) PROVE e[1] <= r[1] + C[c][r[2]]
  <2>1. r[1] \in Nat /\ r[2] \in DOMAIN C /\ C[c][r[2]] \in Nat
      BY DEF IsCostMap, Pairs
  <2>2. <<r[1] + C[c][r[2]], c>> \in edge
      OBVIOUS
  <2>3. CASE r[1] + C[c][r[2]] < Inf
    <3>1. <<r[1] + C[c][r[2]], c>> \in finite
        BY <2>2, <2>3
    <3>2. e[1] <= <<r[1] + C[c][r[2]], c>>[1]
        BY <1>2, <3>1
    <3> QED
        BY <3>2
  <2>4. CASE ~(r[1] + C[c][r[2]] < Inf)
      BY <1>2, <1>5, <1>4, <2>1, <2>4, InfIsNat
  <2> QED
      BY <2>3, <2>4
<1> QED
    BY <1>2, <1>7, <1>5, <1>6

\* It goes on while there is a move left.
LEMMA NearestExists ==
    ASSUME NEW C, IsCostMap(C), NEW S \in SUBSET Pairs(C),
           NEW s \in S, NEW d \in DOMAIN C[s[2]] \ Done(S), s[1] + C[d][s[2]] < Inf
    PROVE  Nearest(C, S) # {}
<1> DEFINE edge == UNION {{<<r[1] + C[c][r[2]], c>> : c \in DOMAIN C[r[2]] \ Done(S)} : r \in S}
           finite == {f \in edge : f[1] < Inf}
           costs == {f[1] : f \in finite}
<1>1. Nearest(C, S) = {f \in finite : \A h \in finite : f[1] <= h[1]}
    BY DEF Nearest, Done
<1>2. ASSUME NEW f \in finite PROVE f[1] \in Nat
  <2>0. PICK r \in S : \E c \in DOMAIN C[r[2]] \ Done(S) : f = <<r[1] + C[c][r[2]], c>>
      OBVIOUS
  <2>1. PICK c \in DOMAIN C[r[2]] \ Done(S) : f = <<r[1] + C[c][r[2]], c>>
      BY <2>0
  <2>2. r[1] \in Nat /\ r[2] \in DOMAIN C /\ C[c][r[2]] \in Nat
      BY DEF IsCostMap, Pairs
  <2> QED
      BY <2>1, <2>2
<1>3. <<s[1] + C[d][s[2]], d>> \in edge
    OBVIOUS
<1>4. <<s[1] + C[d][s[2]], d>> \in finite
    BY <1>3
<1>5. costs \subseteq Nat /\ costs # {}
    BY <1>2, <1>4
<1> HIDE DEF finite
<1>6. PICK m \in costs : \A n \in costs : m <= n
    BY <1>5, LeastExists
<1>7. PICK f \in finite : f[1] = m
    BY <1>6
<1> QED
    BY <1>1, <1>6, <1>7

\* How the reference is found.
Stages(C, t, f) ==
    /\ f \in [0 .. Cardinality(DOMAIN C) -> SUBSET Pairs(C)]
    /\ f[0] = {<<0, t>>}
    /\ \A n \in 1 .. Cardinality(DOMAIN C) : f[n] = f[n - 1] \cup Nearest(C, f[n - 1])

\* The reference is the last of its stages.
LEMMA ReferenceIsStaged ==
    ASSUME NEW C, IsCostMap(C), NEW t \in DOMAIN C
    PROVE  \E f : Stages(C, t, f) /\ Reference(C, t) = f[Cardinality(DOMAIN C)]
<1> DEFINE a == {<<0, t>>}
           N == Cardinality(DOMAIN C)
           X == SUBSET Pairs(C)
           G == [p \in Nat \X X |-> p[2] \cup Nearest(C, p[2])]
           Def(f) == f = [n \in 0 .. N |-> IF n = 0 THEN a
                                           ELSE f[n - 1] \cup Nearest(C, f[n - 1])]
<1>1. N \in Nat
    BY FS_CardinalityType DEF IsCostMap
<1>2. a \in X
    BY DEF Pairs
<1>3. \A S \in X : Nearest(C, S) \subseteq Pairs(C)
    BY NearestAre
<1>4. G \in [Nat \X X -> X]
  <2> SUFFICES ASSUME NEW p \in Nat \X X PROVE p[2] \cup Nearest(C, p[2]) \in X
      OBVIOUS
  <2> QED
      BY <1>3
<1>5. \E h : Iterating(h, X, a, N, G)
  <2> HIDE DEF N, X, G, a
  <2> QED
      BY <1>1, <1>2, <1>4, Iterates
<1> HIDE DEF N, X, a
<1>6. PICK h \in [0 .. N -> X] : h[0] = a /\ \A k \in 1 .. N : h[k] = G[<<k, h[k - 1]>>]
    BY <1>5 DEF Iterating
<1>7. \A k \in 1 .. N : h[k] = h[k - 1] \cup Nearest(C, h[k - 1])
  <2> SUFFICES ASSUME NEW k \in 1 .. N PROVE h[k] = h[k - 1] \cup Nearest(C, h[k - 1])
      OBVIOUS
  <2>1. h[k - 1] \in X /\ k \in Nat
      BY <1>1, <1>6
  <2> QED
      BY <1>6, <2>1
<1>13. h[0] = a
    BY <1>6
<1>8. Def(h)
    BY <1>1, <1>6, <1>7
<1>9. PICK f : Def(f) /\ Reference(C, t) = f[N]
  <2>1. Def(CHOOSE f : Def(f))
      BY <1>8
  <2> QED
      BY <2>1 DEF Reference, N, a
<1>10. f[0] = a /\ \A k \in 1 .. N : f[k] = f[k - 1] \cup Nearest(C, f[k - 1])
  <2>1. \A k \in 0 .. N : f[k] = IF k = 0 THEN a ELSE f[k - 1] \cup Nearest(C, f[k - 1])
      BY <1>9
  <2>2. f[0] = a
    <3>1. 0 \in 0 .. N
        BY <1>1
    <3> QED
        BY <2>1, <3>1
  <2>3. ASSUME NEW k \in 1 .. N PROVE f[k] = f[k - 1] \cup Nearest(C, f[k - 1])
    <3>1. k \in 0 .. N /\ k # 0
        BY <1>1
    <3> QED
        BY <2>1, <3>1
  <2> QED
      BY <2>2, <2>3
<1>11. f = h
  <2> DEFINE S == {k \in 0 .. N : f[k] = h[k]}
  <2>1. 0 \in S
      BY <1>1, <1>13, <1>10
  <2>2. ASSUME NEW k \in 0 .. N - 1, k \in S PROVE k + 1 \in S
    <3>1. k + 1 \in 1 .. N /\ (k + 1) - 1 = k /\ f[k] = h[k]
        BY <1>1, <2>2
    <3>2. f[k + 1] = h[k + 1]
        BY <3>1, <1>7, <1>10
    <3> QED
        BY <3>1, <3>2, <1>1
  <2>3. 0 .. N \subseteq S
      BY <1>1, <2>1, <2>2, CountingUp
  <2>4. DOMAIN f = 0 .. N /\ DOMAIN h = 0 .. N /\ h = [k \in 0 .. N |-> h[k]] /\ f = [k \in 0 .. N |-> f[k]]
      BY <1>6, <1>9
  <2> QED
      BY <2>3, <2>4
<1>12. Stages(C, t, h)
    BY <1>6, <1>7 DEF Stages, N, X, a
<1> QED
    BY <1>9, <1>11, <1>12 DEF N

\* What a stage is like: every cell once, in the order that the moves allow.
Ordered(C, S) ==
    /\ \A s \in S, r \in S : s[2] = r[2] => s = r
    /\ \A s \in S, r \in S : \A d \in DOMAIN C[r[2]] :
          d = s[2] \/ d \notin Done(S) => s[1] <= r[1] + C[d][r[2]]

\* A step of the search keeps the order.
LEMMA NearestAreOrdered ==
    ASSUME NEW C, IsCostMap(C), NEW S \in SUBSET Pairs(C), Ordered(C, S)
    PROVE  Ordered(C, S \cup Nearest(C, S))
<1> DEFINE T == Nearest(C, S)
<1>1. \A e \in T : /\ e \in Pairs(C) /\ e[2] \notin Done(S)
                   /\ \E s \in S : e[2] \in DOMAIN C[s[2]] /\ e = <<s[1] + C[e[2]][s[2]], e[2]>>
                   /\ \A s \in S : \A d \in DOMAIN C[s[2]] \ Done(S) : e[1] <= s[1] + C[d][s[2]]
    BY NearestAre
<1> HIDE DEF T
<1>2. \A s \in S \cup T : s[1] \in Nat /\ s[2] \in DOMAIN C /\ s = <<s[1], s[2]>>
    BY <1>1 DEF Pairs
<1>3. \A s \in S \cup T : \A d \in DOMAIN C[s[2]] : C[d][s[2]] \in Nat
    BY <1>2 DEF IsCostMap
<1>4. \A e \in T, f \in T : e[1] <= f[1]
  <2> SUFFICES ASSUME NEW e \in T, NEW f \in T PROVE e[1] <= f[1]
      OBVIOUS
  <2>1. PICK s \in S : f[2] \in DOMAIN C[s[2]] /\ f = <<s[1] + C[f[2]][s[2]], f[2]>>
      BY <1>1
  <2>2. f[1] = s[1] + C[f[2]][s[2]] /\ f[2] \in DOMAIN C[s[2]] \ Done(S)
      BY <2>1, <1>1
  <2> QED
      BY <2>2, <1>1
<1>5. \A s \in S, f \in T : s[1] <= f[1]
  <2> SUFFICES ASSUME NEW s \in S, NEW f \in T PROVE s[1] <= f[1]
      OBVIOUS
  <2>1. PICK r \in S : f[2] \in DOMAIN C[r[2]] /\ f = <<r[1] + C[f[2]][r[2]], f[2]>>
      BY <1>1
  <2>2. f[1] = r[1] + C[f[2]][r[2]] /\ f[2] \notin Done(S)
      BY <2>1, <1>1
  <2> QED
      BY <2>1, <2>2 DEF Ordered
<1>6. ASSUME NEW s \in S \cup T, NEW r \in S \cup T, s[2] = r[2] PROVE s = r
  <2>1. CASE s \in S /\ r \in S
      BY <1>6, <2>1 DEF Ordered
  <2>2. CASE s \in T /\ r \in T
    <3>1. s[1] = r[1]
        BY <1>2, <1>4, <2>2
    <3> QED
        BY <1>2, <1>6, <3>1
  <2>3. CASE s \in S /\ r \in T
      BY <1>1, <1>6, <2>3 DEF Done
  <2>4. CASE s \in T /\ r \in S
      BY <1>1, <1>6, <2>4 DEF Done
  <2> QED
      BY <2>1, <2>2, <2>3, <2>4
<1>7. ASSUME NEW s \in S \cup T, NEW r \in S \cup T, NEW d \in DOMAIN C[r[2]],
             d = s[2] \/ d \notin Done(S \cup T)
      PROVE  s[1] <= r[1] + C[d][r[2]]
  <2>1. s[1] \in Nat /\ r[1] \in Nat /\ C[d][r[2]] \in Nat
      BY <1>2, <1>3
  <2>2. CASE r \in T
    <3>1. s[1] <= r[1]
        BY <1>4, <1>5, <2>2
    <3> QED
        BY <2>1, <3>1
  <2>3. CASE r \in S /\ s \in S
    <3>1. d = s[2] \/ d \notin Done(S)
        BY <1>7 DEF Done
    <3> QED
        BY <2>3, <3>1 DEF Ordered
  <2>4. CASE r \in S /\ s \in T
    <3>1. d \notin Done(S)
        BY <1>1, <1>7, <2>4 DEF Done
    <3> QED
        BY <1>1, <2>4, <3>1
  <2> QED
      BY <2>2, <2>3, <2>4
<1> QED
    BY <1>6, <1>7 DEF Ordered, T

\* An invariant of a step of the search holds of the reference.
LEMMA ReferenceKeeps ==
    ASSUME NEW C, IsCostMap(C), NEW t \in DOMAIN C, NEW H,
           {<<0, t>>} \in H,
           \A S \in SUBSET Pairs(C) : S \in H => S \cup Nearest(C, S) \in H
    PROVE  Reference(C, t) \in SUBSET Pairs(C) /\ Reference(C, t) \in H
<1> DEFINE N == Cardinality(DOMAIN C)
<1>1. PICK f : Stages(C, t, f) /\ Reference(C, t) = f[N]
    BY ReferenceIsStaged
<1>2. N \in Nat
    BY FS_CardinalityType DEF IsCostMap
<1> DEFINE K == {k \in 0 .. N : f[k] \in H}
<1>3. /\ f \in [0 .. N -> SUBSET Pairs(C)]
      /\ f[0] \in H
      /\ \A n \in 1 .. N : f[n] = f[n - 1] \cup Nearest(C, f[n - 1])
    BY <1>1 DEF Stages
<1> HIDE DEF N
<1>4. 0 \in K
    BY <1>2, <1>3
<1>5. ASSUME NEW k \in 0 .. N - 1, k \in K PROVE k + 1 \in K
  <2>1. k + 1 \in 1 .. N /\ (k + 1) - 1 = k /\ k \in 0 .. N
      BY <1>2
  <2>2. f[k + 1] = f[k] \cup Nearest(C, f[k])
      BY <1>3, <2>1
  <2>3. f[k] \in SUBSET Pairs(C)
      BY <1>3, <2>1
  <2>4. f[k + 1] \in H
      BY <2>2, <2>3, <1>5
  <2> QED
      BY <2>1, <2>4, <1>2
<1>6. 0 .. N \subseteq K
    BY <1>2, <1>4, <1>5, CountingUp
<1>7. N \in 0 .. N
    BY <1>2
<1> QED
    BY <1>1, <1>3, <1>6, <1>7

\* The reference has every cell once, in the order that the moves allow, the target at 0.
LEMMA ReferenceIsOrdered ==
    ASSUME NEW C, IsCostMap(C), NEW t \in DOMAIN C
    PROVE  /\ Reference(C, t) \in SUBSET Pairs(C) /\ Ordered(C, Reference(C, t))
           /\ <<0, t>> \in Reference(C, t)
           /\ \A e \in Reference(C, t) : e[1] < Inf
<1> DEFINE H == {S \in SUBSET Pairs(C) : Ordered(C, S) /\ <<0, t>> \in S /\ \A e \in S : e[1] < Inf}
<1>1. {<<0, t>>} \in H
  <2>1. {<<0, t>>} \in SUBSET Pairs(C)
      BY DEF Pairs
  <2>2. Ordered(C, {<<0, t>>})
    <3> SUFFICES ASSUME NEW s \in {<<0, t>>}, NEW r \in {<<0, t>>}, NEW d \in DOMAIN C[r[2]]
                 PROVE  s[1] <= r[1] + C[d][r[2]]
        BY DEF Ordered
    <3>1. s[1] = 0 /\ r[1] = 0 /\ C[d][r[2]] \in Nat
        BY DEF IsCostMap
    <3> QED
        BY <3>1
  <2> QED
      BY <2>1, <2>2, InfIsPositive, InfIsNat
<1>2. \A S \in SUBSET Pairs(C) : S \in H => S \cup Nearest(C, S) \in H
  <2> SUFFICES ASSUME NEW S \in SUBSET Pairs(C), S \in H PROVE S \cup Nearest(C, S) \in H
      OBVIOUS
  <2>1. Ordered(C, S \cup Nearest(C, S))
      BY NearestAreOrdered
  <2>2. \A e \in Nearest(C, S) : e \in Pairs(C) /\ e[1] < Inf
      BY NearestAre
  <2> HIDE DEF H
  <2> QED
      BY <2>1, <2>2 DEF H
<1> HIDE DEF H
<1>3. Reference(C, t) \in H
    BY <1>1, <1>2, ReferenceKeeps
<1> QED
    BY <1>3 DEF H

\* What holds of the target, and of a cell whose distance goes over one that it holds of.
LEMMA ReferenceIsTree ==
    ASSUME NEW C, IsCostMap(C), NEW t \in DOMAIN C, NEW Q, <<0, t>> \in Q,
           \A s \in Reference(C, t) \cap Q : \A d \in DOMAIN C[s[2]] :
              \A e \in Reference(C, t) : e = <<s[1] + C[d][s[2]], d>> => e \in Q
    PROVE  Reference(C, t) \subseteq Q
<1> DEFINE R == Reference(C, t)
           H == {S \in SUBSET Pairs(C) : S \subseteq R => S \subseteq Q}
<1>1. {<<0, t>>} \in H
    BY DEF Pairs
<1>2. \A S \in SUBSET Pairs(C) : S \in H => S \cup Nearest(C, S) \in H
  <2> SUFFICES ASSUME NEW S \in SUBSET Pairs(C), S \in H PROVE S \cup Nearest(C, S) \in H
      OBVIOUS
  <2>1. \A e \in Nearest(C, S) : /\ e \in Pairs(C)
                                 /\ \E s \in S : e[2] \in DOMAIN C[s[2]] /\ e = <<s[1] + C[e[2]][s[2]], e[2]>>
      BY NearestAre
  <2> HIDE DEF R
  <2>2. ASSUME S \cup Nearest(C, S) \subseteq R, NEW e \in Nearest(C, S) PROVE e \in Q
    <3>1. PICK s \in S : e[2] \in DOMAIN C[s[2]] /\ e = <<s[1] + C[e[2]][s[2]], e[2]>>
        BY <2>1
    <3>2. s \in R \cap Q /\ e \in R
        BY <2>2
    <3> QED
        BY <3>1, <3>2 DEF R
  <2>3. S \cup Nearest(C, S) \in SUBSET Pairs(C)
      BY <2>1
  <2> QED
      BY <2>2, <2>3
<1> HIDE DEF H
<1>3. Reference(C, t) \in H
    BY <1>1, <1>2, ReferenceKeeps
<1> QED
    BY <1>3 DEF H

\* Every cell that can move to one of the reference is in the reference.
LEMMA ReferenceIsClosed ==
    ASSUME NEW C, IsCostMap(C), NEW t \in DOMAIN C, NEW most, Bounded(C, most),
           NEW s \in Reference(C, t), NEW d \in DOMAIN C[s[2]], C[d][s[2]] < Inf
    PROVE  d \in Done(Reference(C, t))
<1> DEFINE N == Cardinality(DOMAIN C)
<1>1. PICK f : Stages(C, t, f) /\ Reference(C, t) = f[N]
    BY ReferenceIsStaged
<1>2. N \in Nat
    BY FS_CardinalityType DEF IsCostMap
<1>3. /\ f \in [0 .. N -> SUBSET Pairs(C)]
      /\ f[0] = {<<0, t>>}
      /\ \A n \in 1 .. N : f[n] = f[n - 1] \cup Nearest(C, f[n - 1])
    BY <1>1 DEF Stages
<1>4. most \in Nat /\ most * (N + 1) < Inf
    BY DEF Bounded
<1>5. \A S \in SUBSET Pairs(C) : Done(S) \subseteq DOMAIN C /\ IsFiniteSet(Done(S)) /\ Cardinality(Done(S)) \in 0 .. N
  <2> SUFFICES ASSUME NEW S \in SUBSET Pairs(C)
               PROVE  Done(S) \subseteq DOMAIN C /\ IsFiniteSet(Done(S)) /\ Cardinality(Done(S)) \in 0 .. N
      OBVIOUS
  <2>1. Done(S) \subseteq DOMAIN C
      BY DEF Done, Pairs
  <2>2. IsFiniteSet(Done(S)) /\ Cardinality(Done(S)) <= N
      BY <2>1, FS_Subset DEF IsCostMap
  <2> QED
      BY <2>1, <2>2, FS_CardinalityType
<1> HIDE DEF N
<1> DEFINE Long(k) == Nearest(C, f[k]) = {} \/ Cardinality(Done(f[k])) >= k + 1
           Short(k) == \A e \in f[k] : e[1] <= most * k
           K == {k \in 0 .. N : Long(k)}
           L == {k \in 0 .. N : Short(k)}
<1>6. 0 \in K
  <2>1. Done(f[0]) = {t}
      BY <1>3 DEF Done
  <2>2. Cardinality({t}) = 1
      BY FS_Singleton
  <2> QED
      BY <2>1, <2>2, <1>2
<1>7. ASSUME NEW k \in 0 .. N - 1, k \in K PROVE k + 1 \in K
  <2>1. k + 1 \in 1 .. N /\ (k + 1) - 1 = k /\ k \in 0 .. N
      BY <1>2
  <2>2. f[k + 1] = f[k] \cup Nearest(C, f[k])
      BY <1>3, <2>1
  <2>3. f[k] \in SUBSET Pairs(C) /\ f[k + 1] \in SUBSET Pairs(C)
      BY <1>3, <2>1
  <2>4. CASE Nearest(C, f[k]) = {}
    <3>1. f[k + 1] = f[k]
        BY <2>2, <2>4
    <3> QED
        BY <3>1, <2>4, <2>1, <1>2
  <2>5. CASE Nearest(C, f[k]) # {}
    <3>1. PICK e \in Nearest(C, f[k]) : TRUE
        BY <2>5
    <3>2. e[2] \notin Done(f[k])
        BY <2>3, NearestAre
    <3>3. Done(f[k]) \cup {e[2]} \subseteq Done(f[k + 1])
        BY <2>2 DEF Done
    <3>4. Cardinality(Done(f[k]) \cup {e[2]}) = Cardinality(Done(f[k])) + 1
        BY <3>2, <1>5, <2>3, FS_AddElement
    <3>5. Cardinality(Done(f[k]) \cup {e[2]}) <= Cardinality(Done(f[k + 1]))
        BY <3>3, <1>5, <2>3, FS_Subset
    <3>6. Cardinality(Done(f[k])) >= k + 1 /\ Cardinality(Done(f[k])) \in Nat /\ Cardinality(Done(f[k + 1])) \in Nat
        BY <1>7, <2>5, <1>5, <2>3
    <3>7. Cardinality(Done(f[k + 1])) >= (k + 1) + 1
        BY <3>4, <3>5, <3>6
    <3> QED
        BY <3>7, <2>1, <1>2
  <2> QED
      BY <2>4, <2>5
<1>8. 0 .. N \subseteq K
    BY <1>2, <1>6, <1>7, CountingUp
<1>9. Nearest(C, f[N]) = {}
  <2>1. N \in 0 .. N
      BY <1>2
  <2>2. f[N] \in SUBSET Pairs(C)
      BY <1>3, <2>1
  <2>3. Cardinality(Done(f[N])) \in 0 .. N
      BY <1>5, <2>2
  <2>4. ~(Cardinality(Done(f[N])) >= N + 1)
      BY <2>3, <1>2
  <2> QED
      BY <1>8, <2>1, <2>4
<1>10. 0 \in L
  <2>1. \A e \in f[0] : e[1] = 0
      BY <1>3
  <2> QED
      BY <2>1, <1>2, <1>4
<1>11. ASSUME NEW k \in 0 .. N - 1, k \in L PROVE k + 1 \in L
  <2>1. k + 1 \in 1 .. N /\ (k + 1) - 1 = k /\ k \in 0 .. N
      BY <1>2
  <2>2. f[k + 1] = f[k] \cup Nearest(C, f[k])
      BY <1>3, <2>1
  <2>3. f[k] \in SUBSET Pairs(C)
      BY <1>3, <2>1
  <2>4. most * k \in Nat /\ most * (k + 1) = most * k + most
      BY <1>4, <2>1, Times
  <2>5. ASSUME NEW e \in f[k + 1] PROVE e[1] <= most * (k + 1)
    <3>1. CASE e \in f[k]
      <4>1. e[1] \in Nat /\ e[1] <= most * k
          BY <3>1, <2>3, <1>11 DEF Pairs
      <4> QED
          BY <4>1, <2>4, <1>4
    <3>2. CASE e \in Nearest(C, f[k])
      <4>1. e[1] < Inf
          BY <3>2, <2>3, NearestAre
      <4>2. PICK r \in f[k] : e[2] \in DOMAIN C[r[2]] /\ e = <<r[1] + C[e[2]][r[2]], e[2]>>
          BY <3>2, <2>3, NearestAre
      <4>3. e[1] = r[1] + C[e[2]][r[2]]
          BY <4>2
      <4>4. r[1] \in Nat /\ r[1] <= most * k /\ r[2] \in DOMAIN C
          BY <2>3, <1>11 DEF Pairs
      <4>5. e[2] \in DOMAIN C /\ r[2] \in DOMAIN C[e[2]] /\ C[e[2]][r[2]] \in Nat
          BY <4>2, <4>4 DEF IsCostMap
      <4>6. C[e[2]][r[2]] <= most \/ C[e[2]][r[2]] >= Inf
          BY <4>5 DEF Bounded
      <4> HIDE DEF L
      <4> QED
          BY <4>1, <4>3, <4>4, <4>5, <4>6, <2>4, <1>4, InfIsNat
    <3> QED
        BY <3>1, <3>2, <2>2
  <2> QED
      BY <2>5, <2>1, <1>2
<1>12. 0 .. N \subseteq L
    BY <1>2, <1>10, <1>11, CountingUp
<1>13. s[1] <= most * N /\ s \in Pairs(C)
  <2>1. N \in 0 .. N
      BY <1>2
  <2>2. f[N] \in SUBSET Pairs(C) /\ s \in f[N]
      BY <1>1, <1>3, <2>1 DEF N
  <2> QED
      BY <1>12, <2>1, <2>2
<1>14. s[1] \in Nat /\ s[2] \in DOMAIN C /\ d \in DOMAIN C /\ s[2] \in DOMAIN C[d] /\ C[d][s[2]] \in Nat
    BY <1>13 DEF Pairs, IsCostMap
<1>15. C[d][s[2]] <= most
  <2>1. C[d][s[2]] <= most \/ C[d][s[2]] >= Inf
      BY <1>14 DEF Bounded
  <2> QED
      BY <1>14, <2>1, InfIsNat
<1>16. most * N \in Nat /\ most * (N + 1) = most * N + most
  <2>1. most \in Nat
      BY <1>4
  <2>2. most * N \in Nat
      BY <2>1, <1>2, Times
  <2>3. most * (N + 1) = most * N + most
      BY <2>1, <1>2, OneMore
  <2> QED
      BY <2>2, <2>3
<1>17. s[1] + C[d][s[2]] < Inf
    BY <1>13, <1>14, <1>15, <1>16, <1>4, InfIsNat
<1> SUFFICES ASSUME d \notin Done(f[N]) PROVE FALSE
    BY <1>1 DEF N
<1> QED
  <2>1. N \in 0 .. N /\ s \in f[N]
      BY <1>1, <1>2 DEF N
  <2>2. f[N] \in SUBSET Pairs(C)
      BY <1>3, <2>1
  <2> QED
      BY <2>1, <2>2, <1>9, <1>17, NearestExists

\* What a distance is.
LEMMA DistanceIsNumber ==
    ASSUME NEW C, IsCostMap(C), NEW t \in DOMAIN C, NEW c
    PROVE  /\ DistanceIn(C, c, t) \in 0 .. Inf
           /\ DistanceIn(C, c, t) < Inf => <<DistanceIn(C, c, t), c>> \in Reference(C, t)
           /\ \A e \in Reference(C, t) : e[2] = c => DistanceIn(C, c, t) = e[1]
<1> DEFINE found == {e \in Reference(C, t) : e[2] = c}
<1>1. DistanceIn(C, c, t) = IF found = {} THEN Inf ELSE (CHOOSE e \in found : TRUE)[1]
    BY DEF DistanceIn
<1>2. \A e \in Reference(C, t) : e \in Pairs(C) /\ e[1] < Inf
    BY ReferenceIsOrdered
<1>3. \A e \in Reference(C, t) : e[1] \in 0 .. Inf /\ e = <<e[1], e[2]>>
    BY <1>2, InfIsNat DEF Pairs
<1>4. CASE found = {}
    BY <1>1, <1>4, InfIsNat
<1>5. CASE found # {}
  <2>1. PICK e \in found : DistanceIn(C, c, t) = e[1]
      BY <1>1, <1>5
  <2>2. \A f \in found : f = e
      BY ReferenceIsOrdered DEF Ordered
  <2> QED
      BY <2>1, <2>2, <1>3
<1> QED
    BY <1>4, <1>5

\* The target is at no distance from itself.
LEMMA DistanceOfTarget ==
    ASSUME NEW C, IsCostMap(C), NEW t \in DOMAIN C
    PROVE  DistanceIn(C, t, t) = 0
<1>1. <<0, t>> \in Reference(C, t)
    BY ReferenceIsOrdered
<1> DEFINE e == <<0, t>>
<1>2. e \in Reference(C, t) /\ e[2] = t /\ e[1] = 0
    BY <1>1
<1> HIDE DEF e
<1>3. \A f \in Reference(C, t) : f[2] = t => DistanceIn(C, t, t) = f[1]
    BY DistanceIsNumber
<1> QED
    BY <1>2, <1>3

\* The triangle inequality.
LEMMA DistanceIsLeast ==
    ASSUME NEW C, IsCostMap(C), NEW t \in DOMAIN C, NEW most, Bounded(C, most),
           NEW c \in DOMAIN C, NEW d \in DOMAIN C[c], C[c][d] < Inf, DistanceIn(C, d, t) < Inf
    PROVE  DistanceIn(C, c, t) < Inf /\ DistanceIn(C, c, t) <= C[c][d] + DistanceIn(C, d, t)
<1> DEFINE R == Reference(C, t)
           s == <<DistanceIn(C, d, t), d>>
<1>1. s \in R /\ s[2] = d /\ s[1] = DistanceIn(C, d, t)
    BY DistanceIsNumber
<1>2. d \in DOMAIN C /\ c \in DOMAIN C[d] /\ C[c][d] \in Nat
    BY DEF IsCostMap
<1> HIDE DEF s, R
<1>3. c \in Done(R)
    BY <1>1, <1>2, ReferenceIsClosed DEF R
<1>4. PICK e \in R : e[2] = c
    BY <1>3 DEF Done
<1>5. e[1] < Inf /\ e[1] <= s[1] + C[c][d]
    BY <1>1, <1>2, <1>4, ReferenceIsOrdered DEF Ordered, R
<1>6. DistanceIn(C, c, t) = e[1] /\ e[1] \in Nat /\ s[1] \in Nat
  <2>1. \A f \in R : f[2] = c => DistanceIn(C, c, t) = f[1]
      BY DistanceIsNumber DEF R
  <2>2. R \in SUBSET Pairs(C)
      BY ReferenceIsOrdered DEF R
  <2> QED
      BY <1>1, <1>4, <2>1, <2>2 DEF Pairs
<1> QED
    BY <1>1, <1>2, <1>5, <1>6

\* What holds of the target, and of a cell whose distance is that over one that it holds
\* of, holds of every cell that leads to the target.
LEMMA DistanceIsTree ==
    ASSUME NEW C, IsCostMap(C), NEW t \in DOMAIN C, NEW Q, t \in Q,
           \A c \in Q \cap DOMAIN C : \A d \in DOMAIN C[c] :
              (/\ DistanceIn(C, c, t) < Inf /\ DistanceIn(C, d, t) < Inf
               /\ DistanceIn(C, d, t) = C[d][c] + DistanceIn(C, c, t)) => d \in Q,
           NEW c, DistanceIn(C, c, t) < Inf
    PROVE  c \in Q
<1> DEFINE R == Reference(C, t)
           H == {e \in R : e[2] \in Q}
<1>1. \A e \in R : /\ e \in Pairs(C) /\ e[1] < Inf /\ e[1] \in Nat /\ e[2] \in DOMAIN C
                   /\ e[1] = DistanceIn(C, e[2], t)
  <2> HIDE DEF H
  <2>1. R \in SUBSET Pairs(C) /\ \A e \in R : e[1] < Inf
      BY ReferenceIsOrdered, Zenon
  <2>2. \A e \in R : e[1] = DistanceIn(C, e[2], t)
    <3> HIDE DEF R
    <3>1. ASSUME NEW x, NEW e \in R, e[2] = x PROVE DistanceIn(C, x, t) = e[1]
      <4>1. \A f \in Reference(C, t) : f[2] = x => DistanceIn(C, x, t) = f[1]
          BY DistanceIsNumber
      <4> QED
          BY <3>1, <4>1 DEF R
    <3> QED
        BY <3>1
  <2> QED
      BY <2>1, <2>2 DEF Pairs
<1>2. <<0, t>> \in H
    BY ReferenceIsOrdered
<1>3. ASSUME NEW s \in R \cap H, NEW d \in DOMAIN C[s[2]], NEW e \in R, e = <<s[1] + C[d][s[2]], d>>
      PROVE  e \in H
  <2>1. e[2] = d /\ e[1] = s[1] + C[d][s[2]]
      BY <1>3
  <2>2. s[2] \in Q \cap DOMAIN C /\ s[1] = DistanceIn(C, s[2], t) /\ s[1] < Inf /\ s[1] \in Nat
      BY <1>1
  <2>3. C[d][s[2]] \in Nat
      BY <2>2 DEF IsCostMap
  <2>4. DistanceIn(C, d, t) = C[d][s[2]] + DistanceIn(C, s[2], t) /\ DistanceIn(C, d, t) < Inf
      BY <1>1, <2>1, <2>2, <2>3
  <2>5. d \in Q
      BY <2>2, <2>4
  <2> QED
      BY <2>1, <2>5
<1> HIDE DEF H
<1>4. R \subseteq H
    BY <1>2, <1>3, ReferenceIsTree
<1> DEFINE s == <<DistanceIn(C, c, t), c>>
<1>5. s \in R /\ s[2] = c
    BY DistanceIsNumber
<1> QED
    BY <1>4, <1>5 DEF H

-----------------------------------------------------------------------------
(* The costs of moves as a map.                                               *)

\* Costs between the cells of the window.
LEMMA CostsAreMap ==
    ASSUME Boxed, NEW P
    PROVE  /\ IsCostMap(Costs(P)) /\ DOMAIN Costs(P) = Window
           /\ \A c \in Window : DOMAIN Costs(P)[c] = Neighbours(c)
           /\ \A c \in Window : \A d \in Neighbours(c) :
                 Costs(P)[c][d] = Cost(P, BlockedCells(P), c, d)
<1> DEFINE B == BlockedCells(P)
<1>1. Costs(P) = [c \in Window |-> [d \in Neighbours(c) |-> Cost(P, B, c, d)]]
    BY Zenon DEF Costs
<1> HIDE DEF B
<1>2. DOMAIN Costs(P) = Window
    BY <1>1
<1>3. \A c \in Window : Costs(P)[c] = [d \in Neighbours(c) |-> Cost(P, B, c, d)]
    BY <1>1
<1>4. \A c \in Window : DOMAIN Costs(P)[c] = Neighbours(c)
    BY <1>3
<1>5. \A c \in Window : \A d \in Neighbours(c) : Costs(P)[c][d] = Cost(P, B, c, d)
    BY <1>3
<1>6. \A c \in Window : \A d \in Neighbours(c) : d \in Window /\ c \in Neighbours(d)
    BY NeighboursAreMutual DEF Boxed
<1>7. IsFiniteSet(Window)
    BY WindowIsFinite DEF Boxed
<1>8. IsCostMap(Costs(P))
  <2> SUFFICES ASSUME NEW c \in Window, NEW d \in Neighbours(c)
               PROVE  Costs(P)[c][d] \in Nat
      BY <1>2, <1>4, <1>6, <1>7, Zenon DEF IsCostMap
  <2> QED
      BY <1>5, CostsAreNumbers
<1> QED
    BY <1>2, <1>4, <1>5, <1>8 DEF B

\* A product grows with a factor.
LEMMA Grows == ASSUME NEW a \in Nat, NEW b \in Nat, NEW c \in Nat, a <= b PROVE c * a <= c * b
OBVIOUS

\* The window has at most Span * Span cells.
LEMMA WindowIsSmall ==
    ASSUME Boxed, Window \subseteq Cells
    PROVE  Cardinality(Window) <= Span * Span /\ Cardinality(Window) \in Nat
<1> DEFINE X == 0 - Margin .. Width - 1 + Margin
           Y == 0 - Margin .. Height - 1 + Margin
           w == Width + 2 * Margin
           h == Height + 2 * Margin
<1>1. Margin \in Nat /\ Width \in Nat \ {0} /\ Height \in Nat \ {0}
    BY DStarLiteAssumption
<1>2. IsFiniteSet(X) /\ Cardinality(X) = w
  <2>1. 0 - Margin \in Int /\ Width - 1 + Margin \in Int /\ 0 - Margin <= Width - 1 + Margin
      BY <1>1
  <2>2. Cardinality(X) = (Width - 1 + Margin) - (0 - Margin) + 1 /\ IsFiniteSet(X)
      BY <2>1, FS_Interval
  <2> QED
      BY <2>2, <1>1
<1>3. IsFiniteSet(Y) /\ Cardinality(Y) = h
  <2>1. 0 - Margin \in Int /\ Height - 1 + Margin \in Int /\ 0 - Margin <= Height - 1 + Margin
      BY <1>1
  <2>2. Cardinality(Y) = (Height - 1 + Margin) - (0 - Margin) + 1 /\ IsFiniteSet(Y)
      BY <2>1, FS_Interval
  <2> QED
      BY <2>2, <1>1
<1>4. w \in Nat /\ h \in Nat /\ w <= Span /\ h <= Span /\ Span \in Nat
    BY <1>1 DEF Span
<1> HIDE DEF X, Y, w, h
<1>5. IsFiniteSet(X \X Y) /\ Cardinality(X \X Y) = w * h
    BY <1>2, <1>3, FS_Product
<1>6. Cells = X \X Y
    BY DEF Cells, X, Y
<1>7. Cardinality(Window) <= w * h /\ Cardinality(Window) \in Nat
    BY <1>5, <1>6, FS_Subset, FS_CardinalityType
<1>8. w * h <= w * Span
    BY <1>4, Grows
<1>9. w * Span = Span * w /\ Span * w <= Span * Span
    BY <1>4, Grows
<1>10. w * h \in Nat /\ w * Span \in Nat /\ Span * Span \in Nat
    BY <1>4, Times
<1> QED
    BY <1>7, <1>8, <1>9, <1>10

\* No path through the window costs Inf.
LEMMA CostsAreBounded ==
    ASSUME Boxed, Window \subseteq Cells, NEW P
    PROVE  Bounded(Costs(P), Diagonal * UnknownCost)
<1> DEFINE n == Cardinality(Window)
           s == Span * Span
           u == UnknownCost
<1>1. n \in Nat /\ n <= s /\ s \in Nat \ {0} /\ u \in Nat \ {0}
  <2>1. Span \in Nat \ {0}
      BY DStarLiteAssumption DEF Span
  <2>2. s \in Nat \ {0}
      BY <2>1
  <2> QED
      BY <2>2, WindowIsSmall, DStarLiteAssumption
<1>2. Inf = 100 * (s * u)
  <2>1. Span \in Nat
      BY InfIsNat
  <2>2. \A a \in Nat, b \in Nat : 100 * a * a * b = 100 * ((a * a) * b)
      OBVIOUS
  <2> QED
      BY <2>1, <2>2, <1>1 DEF Inf
<1> HIDE DEF n, s, u
<1>3. Diagonal * u * (n + 1) = 17 * (u * n) + 17 * u
    BY <1>1 DEF Diagonal
<1>4. u * n <= u * s /\ u * s = s * u /\ u * n \in Nat
    BY <1>1, Grows, Times
<1>5. u <= u * s
    BY <1>1
<1>6. s * u \in Nat \ {0}
    BY <1>1
<1>7. Diagonal * u * (n + 1) < Inf
    BY <1>1, <1>2, <1>3, <1>4, <1>5, <1>6
<1>8. Diagonal * u \in Nat
    BY <1>1 DEF Diagonal
<1>9. ASSUME NEW c \in Window, NEW d \in Neighbours(c)
      PROVE  Costs(P)[c][d] <= Diagonal * u \/ Costs(P)[c][d] >= Inf
  <2>1. StepCost(c, d) <= Diagonal * u
      BY <1>1 DEF StepCost, Step, Diagonal, Straight, u
  <2>2. Costs(P)[c][d] \in {Inf, StepCost(c, d)}
      BY CostsAreMap DEF Cost, StartConnectionCost
  <2> QED
      BY <2>1, <2>2, InfIsNat
<1> QED
    BY <1>7, <1>8, <1>9, CostsAreMap DEF Bounded, n, u

-----------------------------------------------------------------------------
(* The octile distance.                                                       *)

\* A metric that no move undercuts.
LEMMA OctileIsMetric ==
    ASSUME NEW a \in Int \X Int, NEW b \in Int \X Int, NEW c \in Int \X Int
    PROVE  /\ Octile(a, b) \in Nat /\ Octile(a, a) = 0
           /\ Octile(a, b) = Octile(b, a)
           /\ Octile(a, c) <= Octile(a, b) + Octile(b, c)
<1>1. \A i \in Int, j \in Int, k \in Int :
         /\ Distance(i, j) \in Nat /\ Distance(i, i) = 0 /\ Distance(i, j) = Distance(j, i)
         /\ Distance(i, k) <= Distance(i, j) + Distance(j, k)
    BY DEF Distance
<1> DEFINE O(x, y) == Straight * Greater(x, y) + (Diagonal - Straight) * Lesser(x, y)
<1>2. \A x \in Nat, y \in Nat : O(x, y) \in Nat /\ O(0, 0) = 0
    BY DEF Straight, Diagonal, Greater, Lesser
<1>3. \A x \in Nat, y \in Nat, u \in Nat, v \in Nat, p \in Nat, q \in Nat :
         p <= x + u /\ q <= y + v => O(p, q) <= O(x, y) + O(u, v)
    BY DEF Straight, Diagonal, Greater, Lesser
<1>4. \A x, y : Octile(x, y) = O(Distance(x[1], y[1]), Distance(x[2], y[2]))
    BY DEF Octile
<1>5. a[1] \in Int /\ a[2] \in Int /\ b[1] \in Int /\ b[2] \in Int /\ c[1] \in Int /\ c[2] \in Int
    OBVIOUS
<1> HIDE DEF O
<1>6. Octile(a, b) \in Nat
    BY <1>1, <1>2, <1>4, <1>5
<1>7. Octile(a, a) = 0
    BY <1>1, <1>2, <1>4, <1>5
<1>8. Octile(a, b) = Octile(b, a)
    BY <1>1, <1>4, <1>5
<1>9. Octile(a, c) <= Octile(a, b) + Octile(b, c)
    BY <1>1, <1>3, <1>4, <1>5
<1> QED
    BY <1>6, <1>7, <1>8, <1>9

\* What a step costs at least.
LEMMA StepsCost ==
    ASSUME NEW c \in Int \X Int, NEW d \in Square(c, 1), d # c
    PROVE  StepCost(c, d) \in Nat \ {0} /\ Octile(c, d) <= StepCost(c, d)
<1>1. c[1] \in Int /\ c[2] \in Int /\ d[1] \in c[1] - 1 .. c[1] + 1 /\ d[2] \in c[2] - 1 .. c[2] + 1
      /\ d = <<d[1], d[2]>> /\ c = <<c[1], c[2]>>
    BY DEF Square
<1>2. Distance(c[1], d[1]) \in {0, 1} /\ Distance(c[2], d[2]) \in {0, 1}
      /\ (Distance(c[1], d[1]) = 0 <=> c[1] = d[1]) /\ (Distance(c[2], d[2]) = 0 <=> c[2] = d[2])
    BY <1>1 DEF Distance
<1>3. Octile(c, d) = Step(c, d)
    BY <1>1, <1>2 DEF Octile, Step, IsDiagonal, Straight, Diagonal, Greater, Lesser
<1>4. Step(c, d) \in {12, 17}
    BY DEF Step, Straight, Diagonal
<1>5. UnknownCost \in Nat /\ UnknownCost >= 1
    BY DStarLiteAssumption
<1>6. 12 * UnknownCost >= 12 /\ 17 * UnknownCost >= 17
    BY <1>5
<1> QED
    BY <1>3, <1>4, <1>5, <1>6 DEF StepCost

-----------------------------------------------------------------------------
(* What a search has prepared when it is over.                                *)

\* What leaving a blocked cell costs a vehicle that stands in its centre.
EgressCost(P, B, c, d) ==
    IF \/ d \in B \/ ({c, d} \cup Corners(c, d)) \cap P # {}
       \/ Reach = 1 /\ \E o \in Footprint(c) \cap Obstacles : ~LeavesBehind(c, d, o)
    THEN Inf
    ELSE StepCost(c, d)

BestEgress(B, c) ==
    Least({Inf} \cup {Plus(EgressCost(peerForbidden, B, c, d), g[d]) : d \in Neighbours(c)})

\* A blocked cell is left by a vehicle that stood there when it was updated, or not at all.
Egress ==
    goal # None /\ ~missed =>
        \E B \in {BlockedCells(peerForbidden)} :
            \A c \in (Window \cap B) \ ({goal} \cup Affected(delta)) :
                rhs[c] = Inf \/ rhs[c] = BestEgress(B, c)

\* The key of a cell in the queue is a lower bound, by the way the start has moved.
KeysAreLow ==
    goal # None =>
        \A c \in DOMAIN open : open[c][1] <= Key(c)[1] /\ open[c][2] = Key(c)[2]

\* The ends of a request.
Ends == goal # None => rhs[goal] = 0 /\ start \in Window

\* What a search has prepared for its conclusion.
Prepared == Egress /\ KeysAreLow /\ Ends

-----------------------------------------------------------------------------
(* A search that is over.                                                     *)

\* The facts that a conclusion rests on.
Concluding ==
    /\ IInv /\ Prepared
    /\ goal # None /\ delta = {} /\ ~missed /\ position = start
    /\ goal \notin BlockedCells(peerForbidden)
    /\ ~Unsettled \/ DOMAIN open = {}

\* The lesser of two values.
Value(c) == Lesser(g[c], rhs[c])

\* Every cell that matters to the start is consistent.
LEMMA FinishedIsConsistent ==
    ASSUME Concluding
    PROVE  /\ g[start] = rhs[start]
           /\ \A c \in Cells : Value(c) < g[start] /\ Value(c) + Octile(start, c) <= g[start]
                                  => g[c] = rhs[c]
<1>1. start \in Cells /\ Searched /\ Numbers /\ Asked /\ km \in Nat
    BY WorldIsCells, WorldAssumption DEF Concluding, IInv, Searched, Asked
<1>2. DOMAIN open = {c \in Cells : g[c] # rhs[c]} /\ DOMAIN open \subseteq Cells
    BY <1>1 DEF Searched, QueueIsInconsistent
<1>3. CASE DOMAIN open = {}
    BY <1>1, <1>2, <1>3
<1>4. CASE DOMAIN open # {} /\ ~Unsettled
  <2>1. rhs[start] = g[start] /\ ~KeyLess(TopKey, Key(start))
      BY <1>4 DEF Unsettled
  <2>2. Top \in DOMAIN open /\ (\A d \in DOMAIN open \ {Top} : Before(Top, d)) /\ TopKey = open[Top]
      BY <1>1, <1>4, TopIsQueued DEF TopKey
  <2> SUFFICES ASSUME NEW c \in Cells, g[c] # rhs[c], Value(c) < g[start],
                      Value(c) + Octile(start, c) <= g[start]
               PROVE  FALSE
      BY <2>1
  <2>3. c \in DOMAIN open
      BY <1>2
  <2>4. /\ Value(c) \in Nat /\ Octile(start, c) \in Nat /\ Octile(start, start) = 0
        /\ g[start] \in 0 .. Inf
    <3>1. c \in Int \X Int /\ start \in Int \X Int
        BY <1>1, CellsAreGrid
    <3> QED
        BY <1>1, <3>1, OctileIsMetric, InfIsNat DEF Numbers, Value, Lesser
  <2>5. /\ open[c][1] <= Key(c)[1] /\ open[c][2] = Value(c)
        /\ Key(c)[1] = Plus(Value(c), Octile(start, c) + km)
      BY <2>3 DEF Concluding, Prepared, KeysAreLow, Key, Value
  <2>6. Key(start) = <<Plus(g[start], km), g[start]>>
    <3>1. Lesser(g[start], rhs[start]) = g[start]
        BY <2>1 DEF Lesser
    <3>2. Octile(start, start) + km = km
        BY <1>1, <2>4
    <3> QED
        BY <3>1, <3>2 DEF Key
  <2>7. open[c] \in Nat \X Nat /\ open[Top] \in Nat \X Nat
      BY <1>1, <2>2, <2>3 DEF Searched, Queued, Keys
  <2>10. Plus(Value(c), Octile(start, c) + km) \in Nat /\ Plus(g[start], km) \in Nat /\ g[start] \in Nat
    <3>1. g[start] \in Nat /\ Octile(start, c) + km \in Nat
        BY <1>1, <2>4, InfIsNat
    <3>2. Plus(Value(c), Octile(start, c) + km) \in 0 .. Inf /\ Plus(g[start], km) \in 0 .. Inf
        BY <1>1, <2>4, <3>1, PlusSaturates
    <3> QED
        BY <3>1, <3>2, InfIsNat
  <2>8. ~KeyLess(open[c], Key(start))
    <3>1. open[c] = open[Top] \/ KeyLess(open[Top], open[c])
        BY <2>2, <2>3 DEF Before
    <3> QED
        BY <2>1, <2>2, <2>6, <2>7, <2>10, <3>1 DEF KeyLess
  <2>9. Plus(Value(c), Octile(start, c) + km) <= Plus(g[start], km)
      BY <1>1, <2>4, InfIsNat DEF Plus, Lesser
  <2> QED
      BY <2>4, <2>5, <2>6, <2>7, <2>8, <2>9, <2>10 DEF KeyLess
<1> QED
    BY <1>3, <1>4 DEF Concluding

\* A move that can be made leads to a free cell, from a free one or from the start.
LEMMA MovesAreFree ==
    ASSUME Boxed, NEW P, NEW B, NEW c \in Window, NEW d \in Neighbours(c), Cost(P, B, c, d) < Inf
    PROVE  /\ d \in Window /\ d \notin B /\ (c \in B => c = start)
           /\ Cost(P, B, c, d) = StepCost(c, d)
           /\ Cost(P, B, c, d) \in Nat \ {0} /\ Octile(c, d) <= Cost(P, B, c, d)
<1>1. d \in Window /\ c \in Int \X Int
    BY NeighboursAreMutual, WindowIsGrid DEF Boxed
<1>2. ~(Inf < Inf)
    BY InfIsNat
<1>3. d \notin B /\ (c \in B => c = start) /\ Cost(P, B, c, d) = StepCost(c, d)
    BY <1>2 DEF Cost, StartConnectionCost
<1>4. d \in Square(c, 1) /\ d # c
    BY DEF Neighbours
<1> QED
    BY <1>1, <1>3, <1>4, StepsCost

\* The lookahead value is the least over the neighbours.
LEMMA BestIsLeast ==
    ASSUME Boxed, g \in [Cells -> 0 .. Inf], Window \subseteq Cells, NEW B, NEW c \in Window
    PROVE  /\ \A d \in Neighbours(c) : Best(B, c) <= Plus(Cost(peerForbidden, B, c, d), g[d])
           /\ Best(B, c) = Inf \/ \E d \in Neighbours(c) :
                                    Best(B, c) = Plus(Cost(peerForbidden, B, c, d), g[d])
<1> DEFINE S == {Plus(Cost(peerForbidden, B, c, d), g[d]) : d \in Neighbours(c)}
<1>1. S \subseteq Nat
  <2> SUFFICES ASSUME NEW d \in Neighbours(c)
               PROVE  Plus(Cost(peerForbidden, B, c, d), g[d]) \in Nat
      OBVIOUS
  <2>1. d \in Cells
      BY NeighboursAreMutual DEF Boxed
  <2>2. g[d] \in Nat
      BY <2>1, InfIsNat
  <2>3. Plus(Cost(peerForbidden, B, c, d), g[d]) \in 0 .. Inf
      BY <2>2, CostsAreNumbers, PlusSaturates
  <2> QED
      BY <2>3, InfIsNat
<1>2. Best(B, c) = Least({Inf} \cup S)
    BY Zenon DEF Best
<1>3. {Inf} \cup S \subseteq Nat /\ {Inf} \cup S # {}
    BY <1>1, InfIsNat
<1>4. Best(B, c) \in {Inf} \cup S /\ \A x \in {Inf} \cup S : Best(B, c) <= x
    BY <1>2, <1>3, LeastIsElement
<1> QED
    BY <1>4

\* What every cell but the goal has looked ahead to.
LEMMA ConcludingLooksAhead ==
    ASSUME Concluding
    PROVE  \E B \in {BlockedCells(peerForbidden)} :
              /\ \A c \in Window \ (B \cup {goal}) : rhs[c] = Best(B, c)
              /\ start \in B => rhs[start] = Inf \/ rhs[start] = Best(B, start)
<1>1. Boxed /\ start # None /\ start \in Window
    BY WorldIsCells, WorldAssumption DEF Concluding, IInv, Searched, Asked, Prepared, Ends
<1>2. Affected(delta) = {}
    BY <1>1, AffectedIsInside DEF Concluding
<1>3. PICK B \in {BlockedCells(peerForbidden)} :
        \A c \in Window \ (B \cup {goal} \cup Affected(delta)) : rhs[c] = Best(B, c)
    BY Zenon DEF Concluding, IInv, Lookahead
<1>4. PICK C \in {BlockedCells(peerForbidden)} :
        \A c \in (Window \cap C) \ ({goal} \cup Affected(delta)) : rhs[c] = Inf \/ rhs[c] = BestEgress(C, c)
    BY Zenon DEF Concluding, Prepared, Egress
<1>5. ASSUME start \in B PROVE rhs[start] = Inf \/ rhs[start] = Best(B, start)
  <2>1. goal \notin B
      BY <1>3 DEF Concluding
  <2>2. rhs[start] = Inf \/ rhs[start] = BestEgress(B, start)
      BY <1>1, <1>2, <1>3, <1>4, <1>5, <2>1
  <2>3. \A d : Cost(peerForbidden, B, start, d) = EgressCost(peerForbidden, B, start, d)
    <3>1. position = start
        BY DEF Concluding
    <3> QED
        BY <1>1, <1>5, <3>1 DEF Cost, StartConnectionCost, EgressCost
  <2>4. Best(B, start) = BestEgress(B, start)
    <3> DEFINE S == {Plus(Cost(peerForbidden, B, start, d), g[d]) : d \in Neighbours(start)}
               T == {Plus(EgressCost(peerForbidden, B, start, d), g[d]) : d \in Neighbours(start)}
    <3>1. S = T
        BY <2>3
    <3> QED
        BY <3>1, Zenon DEF Best, BestEgress
  <2> QED
      BY <2>2, <2>4
<1> QED
    BY <1>2, <1>3, <1>5

\* The start is not farther than the goal is.
LEMMA StartIsNear ==
    ASSUME Concluding, start \notin BlockedCells(peerForbidden) \/ g[start] < Inf
    PROVE  g[start] <= DistanceToGoal(peerForbidden)
<1> DEFINE C == Costs(peerForbidden)
           D(c) == DistanceIn(C, c, goal)
           near == {c \in Window : D(c) + Octile(start, c) <= D(start) => g[c] <= D(c)}
<1>1. /\ Boxed /\ Numbers /\ Window \subseteq Cells /\ goal \in Window /\ start \in Window
      /\ start # None /\ rhs[goal] = 0
    BY WorldIsCells, WorldAssumption DEF Concluding, IInv, Searched, Asked, Prepared, Ends
<1>2. IsCostMap(C) /\ DOMAIN C = Window /\ \A c \in Window : DOMAIN C[c] = Neighbours(c)
    BY <1>1, CostsAreMap
<1>3. PICK B \in {BlockedCells(peerForbidden)} :
              /\ \A c \in Window \ (B \cup {goal}) : rhs[c] = Best(B, c)
              /\ start \in B => rhs[start] = Inf \/ rhs[start] = Best(B, start)
    BY ConcludingLooksAhead
<1>4. \A c \in Window : \A d \in Neighbours(c) : C[c][d] = Cost(peerForbidden, B, c, d)
    BY <1>1, <1>3, CostsAreMap
<1> HIDE DEF C
<1>5. \A c : D(c) \in 0 .. Inf /\ D(c) \in Nat
  <2> SUFFICES ASSUME NEW c PROVE D(c) \in 0 .. Inf
      BY InfIsNat
  <2> QED
      BY <1>1, <1>2, DistanceIsNumber
<1>6. D(goal) = 0
    BY <1>1, <1>2, DistanceOfTarget
<1>7. \A c \in Window : /\ g[c] \in 0 .. Inf /\ rhs[c] \in 0 .. Inf /\ c \in Cells
                        /\ g[c] \in Nat /\ rhs[c] \in Nat
    BY <1>1, InfIsNat DEF Numbers
<1>8. \A a \in Window, b \in Window, c \in Window :
        /\ Octile(a, b) \in Nat /\ Octile(a, a) = 0 /\ Octile(a, b) = Octile(b, a)
        /\ Octile(a, c) <= Octile(a, b) + Octile(b, c)
  <2>1. Window \subseteq Int \X Int
      BY <1>1, CellsAreGrid
  <2> QED
      BY <2>1, OctileIsMetric
<1> HIDE DEF D
<1> SUFFICES ASSUME D(start) < g[start] PROVE FALSE
    BY <1>1, <1>5, <1>7 DEF DistanceToGoal, C, D
<1>9. ASSUME NEW c \in Window, rhs[c] <= D(c), D(c) + Octile(start, c) <= D(start)
      PROVE  g[c] <= D(c)
  <2>1. Value(c) <= D(c) /\ Value(c) \in Nat
      BY <1>5, <1>7, <1>9 DEF Value, Lesser
  <2>2. Octile(start, c) \in Nat /\ D(c) \in Nat /\ D(start) \in Nat /\ g[start] \in Nat
      BY <1>1, <1>5, <1>7, <1>8
  <2>3. Value(c) < g[start] /\ Value(c) + Octile(start, c) <= g[start]
      BY <1>9, <2>1, <2>2
  <2>4. g[c] = rhs[c]
      BY <1>7, <2>3, FinishedIsConsistent
  <2> QED
      BY <1>9, <2>4
<1>10. goal \in near
    BY <1>1, <1>6, <1>9
<1>11. ASSUME NEW c \in near, NEW d \in Neighbours(c), D(c) < Inf, D(d) < Inf, D(d) = C[d][c] + D(c)
       PROVE  d \in near
  <2>1. c \in Window /\ d \in Window /\ c \in Neighbours(d)
      BY <1>1, NeighboursAreMutual DEF Boxed
  <2>2. C[d][c] = Cost(peerForbidden, B, d, c)
      BY <1>4, <2>1
  <2>3. C[d][c] \in Nat /\ C[d][c] < Inf
      BY <1>5, <1>11, <2>2, CostsAreNumbers, InfIsNat
  <2>4. Octile(d, c) <= C[d][c] /\ (d \in B => d = start)
      BY <1>1, <2>1, <2>2, <2>3, MovesAreFree
  <2> SUFFICES ASSUME D(d) + Octile(start, d) <= D(start) PROVE g[d] <= D(d)
      BY <2>1
  <2>5. g[c] <= D(c)
    <3>1. Octile(start, c) <= Octile(start, d) + Octile(d, c)
        BY <1>1, <1>8, <2>1
    <3>2. Octile(start, c) \in Nat /\ Octile(start, d) \in Nat /\ Octile(d, c) \in Nat
        BY <1>1, <1>8, <2>1
    <3>3. D(c) + Octile(start, c) <= D(start)
        BY <1>5, <1>11, <2>3, <2>4, <3>1, <3>2
    <3> QED
        BY <3>3
  <2>6. CASE d = goal
      BY <1>1, <1>5, <1>6, <1>9, <2>6
  <2>7. CASE d # goal
    <3>1. rhs[d] = Best(B, d) \/ (d = start /\ rhs[d] = Inf)
        BY <1>3, <2>1, <2>4, <2>7
    <3>2. CASE rhs[d] = Best(B, d)
      <4>1. rhs[d] <= Plus(C[d][c], g[c])
          BY <1>1, <2>1, <2>2, <3>2, BestIsLeast DEF Numbers
      <4>2. Plus(C[d][c], g[c]) <= D(d)
          BY <1>5, <1>7, <1>11, <2>1, <2>3, <2>5, InfIsNat DEF Plus, Lesser
      <4>3. Plus(C[d][c], g[c]) \in Nat
          BY <1>7, <2>1, <2>3, InfIsNat DEF Plus, Lesser
      <4>4. rhs[d] <= D(d)
          BY <1>5, <1>7, <2>1, <4>1, <4>2, <4>3
      <4> QED
          BY <1>9, <2>1, <4>4
    <3>3. CASE d = start /\ rhs[d] = Inf /\ rhs[d] # Best(B, d)
      <4>1. start \in B
          BY <1>3, <2>1, <2>7, <3>3
      <4>2. g[start] = Inf
          BY <3>3, FinishedIsConsistent
      <4> QED
          BY <1>3, <4>1, <4>2, InfIsNat
    <3> QED
        BY <3>1, <3>2, <3>3
  <2> QED
      BY <2>6, <2>7
<1> HIDE DEF near
<1>12. start \in near
  <2>1. D(start) < Inf
      BY <1>1, <1>5, <1>7, InfIsNat
  <2>2. \A c \in near \cap DOMAIN C : \A d \in DOMAIN C[c] :
            (/\ DistanceIn(C, c, goal) < Inf /\ DistanceIn(C, d, goal) < Inf
             /\ DistanceIn(C, d, goal) = C[d][c] + DistanceIn(C, c, goal)) => d \in near
    <3> SUFFICES ASSUME NEW c \in near, c \in Window, NEW d \in Neighbours(c),
                        D(c) < Inf, D(d) < Inf, D(d) = C[d][c] + D(c)
                 PROVE  d \in near
        BY <1>2 DEF D
    <3> QED
        BY <1>11
  <2>3. DistanceIn(C, start, goal) < Inf
      BY <2>1 DEF D
  <2> QED
      BY <1>1, <1>2, <1>10, <2>2, <2>3, DistanceIsTree
<1>13. g[start] <= D(start)
    BY <1>1, <1>5, <1>8, <1>12 DEF near
<1> QED
    BY <1>1, <1>5, <1>7, <1>13

-----------------------------------------------------------------------------
(* The path.                                                                  *)

\* Tuples of numbers that are bounded below have a first one.
LEMMA FirstExists ==
    ASSUME NEW S, S # {}, S \subseteq Nat \X Nat \X Int \X Int,
           \A a \in S : a[3] + Margin \in Nat /\ a[4] + Margin \in Nat
    PROVE  \E a \in S : \A b \in S \ {a} : Precedes(a, b)
<1> DEFINE X1 == {a[1] : a \in S}
<1>1. X1 \subseteq Nat /\ X1 # {}
    OBVIOUS
<1>2. PICK x1 \in X1 : \A y \in X1 : x1 <= y
    BY <1>1, LeastExists
<1> DEFINE S1 == {a \in S : a[1] = x1}
           X2 == {a[2] : a \in S1}
<1>3. X2 \subseteq Nat /\ X2 # {}
    BY <1>2
<1>4. PICK x2 \in X2 : \A y \in X2 : x2 <= y
    BY <1>3, LeastExists
<1> DEFINE S2 == {a \in S1 : a[2] = x2}
           X3 == {a[3] + Margin : a \in S2}
<1>5. X3 \subseteq Nat /\ X3 # {}
    BY <1>4
<1>6. PICK x3 \in X3 : \A y \in X3 : x3 <= y
    BY <1>5, LeastExists
<1> DEFINE S3 == {a \in S2 : a[3] + Margin = x3}
           X4 == {a[4] + Margin : a \in S3}
<1>7. X4 \subseteq Nat /\ X4 # {}
    BY <1>6
<1>8. PICK x4 \in X4 : \A y \in X4 : x4 <= y
    BY <1>7, LeastExists
<1>9. PICK a \in S3 : a[4] + Margin = x4
    BY <1>8
<1>10. ASSUME NEW b \in S \ {a} PROVE Precedes(a, b)
  <2>0. a \in S /\ a[1] = x1 /\ a[2] = x2 /\ a[3] + Margin = x3
      BY <1>9
  <2>1. /\ a[1] \in Nat /\ a[2] \in Nat /\ a[3] \in Int /\ a[4] \in Int /\ Margin \in Nat
        /\ b[1] \in Nat /\ b[2] \in Nat /\ b[3] \in Int /\ b[4] \in Int
        /\ a = <<a[1], a[2], a[3], a[4]>> /\ b = <<b[1], b[2], b[3], b[4]>>
      BY <2>0, DStarLiteAssumption
  <2>2. a[1] <= b[1]
      BY <1>2, <2>0
  <2>3. a[1] = b[1] => a[2] <= b[2]
      BY <1>4, <2>0
  <2>4. a[1] = b[1] /\ a[2] = b[2] => a[3] <= b[3]
    <3>1. a[1] = b[1] /\ a[2] = b[2] => a[3] + Margin <= b[3] + Margin
        BY <1>6, <2>0
    <3> QED
        BY <3>1, <2>1
  <2>5. a[1] = b[1] /\ a[2] = b[2] /\ a[3] = b[3] => a[4] <= b[4]
    <3>1. a[1] = b[1] /\ a[2] = b[2] /\ a[3] = b[3] => a[4] + Margin <= b[4] + Margin
        BY <1>8, <1>9, <2>0
    <3> QED
        BY <3>1, <2>1
  <2>6. a[1] # b[1] \/ a[2] # b[2] \/ a[3] # b[3] \/ a[4] # b[4]
      BY <2>1
  <2>7. CASE a[1] # b[1]
    <3>1. a[1] < b[1] /\ 1 \in 1 .. 4 /\ \A j \in 1 .. 1 - 1 : a[j] = b[j]
        BY <2>1, <2>2, <2>7
    <3> QED
        BY <3>1, Zenon DEF Precedes
  <2>8. CASE a[1] = b[1] /\ a[2] # b[2]
    <3>1. a[2] < b[2] /\ 2 \in 1 .. 4 /\ \A j \in 1 .. 2 - 1 : a[j] = b[j]
        BY <2>1, <2>3, <2>8
    <3> QED
        BY <3>1, Zenon DEF Precedes
  <2>9. CASE a[1] = b[1] /\ a[2] = b[2] /\ a[3] # b[3]
    <3>1. a[3] < b[3] /\ 3 \in 1 .. 4 /\ \A j \in 1 .. 3 - 1 : a[j] = b[j]
        BY <2>1, <2>4, <2>9
    <3> QED
        BY <3>1, Zenon DEF Precedes
  <2>10. CASE a[1] = b[1] /\ a[2] = b[2] /\ a[3] = b[3]
    <3>1. a[4] < b[4] /\ 4 \in 1 .. 4 /\ \A j \in 1 .. 4 - 1 : a[j] = b[j]
        BY <2>1, <2>5, <2>6, <2>10
    <3> QED
        BY <3>1, Zenon DEF Precedes
  <2> QED
      BY <2>7, <2>8, <2>9, <2>10
<1>11. a \in S
    BY <1>9
<1> QED
    BY <1>10, <1>11

\* The cell that follows another is one that its lookahead value comes from.
LEMMA FollowingIsBest ==
    ASSUME IInv, goal # None, NEW B \in {BlockedCells(peerForbidden)}, NEW c \in Window, Best(B, c) < Inf
    PROVE  \E d \in Neighbours(c) :
              /\ Following(c) = d /\ d # None
              /\ Best(B, c) = Plus(Cost(peerForbidden, B, c, d), g[d])
<1> DEFINE finite == {a \in Choices(c) : a[1] < Inf}
           value(d) == Plus(Cost(peerForbidden, B, c, d), g[d])
           choice(d) == <<value(d), Octile(d, goal), d[1], d[2]>>
<1>1. Boxed /\ Numbers /\ Window \subseteq Cells /\ goal \in Cells
    BY DEF IInv, Searched, Asked
<1>2. Choices(c) = {choice(d) : d \in Neighbours(c)}
    BY DEF Choices
<1>3. ASSUME NEW d \in Neighbours(c)
      PROVE  /\ d \in Cells /\ d = <<d[1], d[2]>> /\ value(d) \in Nat
             /\ choice(d) \in Nat \X Nat \X Int \X Int
             /\ d[1] + Margin \in Nat /\ d[2] + Margin \in Nat
  <2>1. d \in Cells
      BY <1>1, NeighboursAreMutual DEF Boxed
  <2>2. d = <<d[1], d[2]>> /\ d[1] + Margin \in Nat /\ d[2] + Margin \in Nat /\ d[1] \in Int /\ d[2] \in Int
      BY <2>1, DStarLiteAssumption DEF Cells
  <2>3. g[d] \in Nat
      BY <1>1, <2>1, InfIsNat DEF Numbers
  <2>4. value(d) \in 0 .. Inf
      BY <2>3, CostsAreNumbers, PlusSaturates
  <2>5. value(d) \in Nat /\ Octile(d, goal) \in Nat
      BY <1>1, <2>1, <2>4, InfIsNat, OctileIsNumber
  <2> QED
      BY <2>1, <2>2, <2>5
<1>4. /\ \A d \in Neighbours(c) : Best(B, c) <= value(d)
      /\ \E d \in Neighbours(c) : Best(B, c) = value(d)
    BY <1>1, BestIsLeast, InfIsNat DEF Numbers
<1> HIDE DEF value
<1>5. PICK e \in Neighbours(c) : Best(B, c) = value(e)
    BY <1>4
<1>6. choice(e) \in finite
    BY <1>2, <1>5
<1>7. \A a \in finite : \E d \in Neighbours(c) : a = choice(d)
    BY <1>2
<1>8. /\ finite \subseteq Nat \X Nat \X Int \X Int
      /\ \A a \in finite : a[3] + Margin \in Nat /\ a[4] + Margin \in Nat
    BY <1>3, <1>7
<1>9. \E a \in finite : \A b \in finite \ {a} : Precedes(a, b)
    BY <1>6, <1>8, FirstExists
<1> DEFINE first == CHOOSE a \in finite : \A b \in finite \ {a} : Precedes(a, b)
<1>10. first \in finite /\ \A b \in finite \ {first} : Precedes(first, b)
    BY <1>9
<1>11. Following(c) = <<first[3], first[4]>>
    BY <1>6 DEF Following
<1> HIDE DEF first, finite
<1>12. PICK d \in Neighbours(c) : first = choice(d)
    BY <1>7, <1>10
<1>13. Following(c) = d /\ d # None
    BY <1>3, <1>11, <1>12, WorldAssumption
<1>14. first[1] <= value(e)
  <2>1. CASE choice(e) = first
      BY <1>3, <2>1
  <2>2. CASE choice(e) # first
    <3>1. Precedes(first, choice(e))
        BY <1>6, <1>10, <2>2
    <3>2. PICK i \in 1 .. 4 : first[i] < choice(e)[i] /\ \A j \in 1 .. i - 1 : first[j] = choice(e)[j]
        BY <3>1 DEF Precedes
    <3>3. first[1] \in Nat /\ choice(e)[1] = value(e) /\ value(e) \in Nat
        BY <1>3, <1>12
    <3>4. CASE i = 1
        BY <3>2, <3>3, <3>4
    <3>5. CASE i # 1
      <4>1. 1 \in 1 .. i - 1
          BY <3>5
      <4>2. first[1] = choice(e)[1]
          BY <3>2, <4>1
      <4> QED
          BY <3>3, <4>2
    <3> QED
        BY <3>4, <3>5
  <2> QED
      BY <2>1, <2>2
<1>15. value(d) = Best(B, c)
  <2>1. first[1] = value(d) /\ value(d) \in Nat /\ value(e) \in Nat
      BY <1>3, <1>12
  <2>2. value(e) <= value(d)
      BY <1>4, <1>5
  <2> QED
      BY <1>5, <1>14, <2>1, <2>2
<1> QED
    BY <1>13, <1>15 DEF value

\* A cell that the path may pass.
Passed(c) ==
    /\ c \in Window /\ g[c] = rhs[c] /\ g[c] + Octile(start, c) <= g[start]
    /\ c \in BlockedCells(peerForbidden) => c = start

\* The facts that the lemmas on the path use.
LEMMA ConcludingFacts ==
    ASSUME Concluding
    PROVE  /\ IInv /\ goal # None /\ Boxed /\ Numbers /\ Window \subseteq Cells
           /\ goal \in Window /\ start \in Window /\ start # None /\ rhs[goal] = 0
           /\ IsCostMap(Costs(peerForbidden)) /\ DOMAIN Costs(peerForbidden) = Window
           /\ \A c \in Window : /\ DOMAIN Costs(peerForbidden)[c] = Neighbours(c)
                                /\ g[c] \in 0 .. Inf /\ rhs[c] \in 0 .. Inf /\ c \in Cells
                                /\ g[c] \in Nat /\ rhs[c] \in Nat
           /\ \A c \in Window : \A d \in Neighbours(c) :
                 /\ Costs(peerForbidden)[c][d] = Cost(peerForbidden, BlockedCells(peerForbidden), c, d)
                 /\ d \in Window
           /\ \A a \in Window, b \in Window, c \in Window :
                 /\ Octile(a, b) \in Nat /\ Octile(a, a) = 0 /\ Octile(a, b) = Octile(b, a)
                 /\ Octile(a, c) <= Octile(a, b) + Octile(b, c)
<1>1. /\ IInv /\ goal # None /\ Boxed /\ Numbers /\ Window \subseteq Cells /\ goal \in Window
      /\ start \in Window /\ start # None /\ rhs[goal] = 0
    BY WorldIsCells, WorldAssumption DEF Concluding, IInv, Searched, Asked, Prepared, Ends
<1>2. /\ IsCostMap(Costs(peerForbidden)) /\ DOMAIN Costs(peerForbidden) = Window
      /\ \A c \in Window : DOMAIN Costs(peerForbidden)[c] = Neighbours(c)
      /\ \A c \in Window : \A d \in Neighbours(c) :
            Costs(peerForbidden)[c][d] = Cost(peerForbidden, BlockedCells(peerForbidden), c, d)
    BY <1>1, CostsAreMap
<1>3. \A c \in Window : /\ g[c] \in 0 .. Inf /\ rhs[c] \in 0 .. Inf /\ c \in Cells
                        /\ g[c] \in Nat /\ rhs[c] \in Nat
    BY <1>1, InfIsNat DEF Numbers
<1>4. \A a \in Window, b \in Window, c \in Window :
        /\ Octile(a, b) \in Nat /\ Octile(a, a) = 0 /\ Octile(a, b) = Octile(b, a)
        /\ Octile(a, c) <= Octile(a, b) + Octile(b, c)
  <2>1. Window \subseteq Int \X Int
      BY <1>1, CellsAreGrid
  <2> QED
      BY <2>1, OctileIsMetric
<1>5. \A c \in Window : \A d \in Neighbours(c) : d \in Window
    BY <1>1, NeighboursAreMutual DEF Boxed
<1> QED
    BY <1>1, <1>2, <1>3, <1>4, <1>5

\* The path goes down from one cell to the next by what the move costs.
LEMMA PathGoesDown ==
    ASSUME Concluding, g[start] < Inf, NEW c, Passed(c), c # goal
    PROVE  \E d \in Neighbours(c) :
              /\ Following(c) = d /\ d # None /\ Passed(d)
              /\ Costs(peerForbidden)[c][d] \in Nat /\ Costs(peerForbidden)[c][d] < Inf
              /\ g[c] = Costs(peerForbidden)[c][d] + g[d] /\ g[d] < g[c]
<1> DEFINE C == Costs(peerForbidden)
<1>1. /\ IInv /\ goal # None /\ Boxed /\ Numbers /\ Window \subseteq Cells /\ start \in Window
      /\ \A b \in Window : /\ g[b] \in 0 .. Inf /\ rhs[b] \in 0 .. Inf /\ b \in Cells
                            /\ g[b] \in Nat /\ rhs[b] \in Nat
      /\ \A b \in Window : \A d \in Neighbours(b) :
            C[b][d] = Cost(peerForbidden, BlockedCells(peerForbidden), b, d) /\ d \in Window
      /\ \A a \in Window, b \in Window, d \in Window :
            Octile(a, b) \in Nat /\ Octile(a, d) <= Octile(a, b) + Octile(b, d)
    BY ConcludingFacts
<1> HIDE DEF C
<1>2. PICK B \in {BlockedCells(peerForbidden)} :
              /\ \A b \in Window \ (B \cup {goal}) : rhs[b] = Best(B, b)
              /\ start \in B => rhs[start] = Inf \/ rhs[start] = Best(B, start)
    BY ConcludingLooksAhead
<1>3. c \in Window /\ g[c] = rhs[c] /\ g[c] \in Nat /\ Octile(start, c) \in Nat /\ g[start] \in Nat
      /\ g[c] + Octile(start, c) <= g[start] /\ g[c] < Inf /\ Inf \in Nat
  <2>1. c \in Window /\ g[c] = rhs[c] /\ g[c] + Octile(start, c) <= g[start]
      BY DEF Passed
  <2>2. g[c] \in Nat /\ Octile(start, c) \in Nat /\ g[start] \in Nat /\ Inf \in Nat
      BY <1>1, <2>1, InfIsNat
  <2> QED
      BY <2>1, <2>2
<1>4. rhs[c] = Best(B, c)
  <2>1. CASE c \in B
    <3>1. c = start
        BY <1>2, <2>1 DEF Passed
    <3> QED
        BY <1>2, <1>3, <2>1, <3>1
  <2>2. CASE c \notin B
      BY <1>2, <1>3, <2>2
  <2> QED
      BY <2>1, <2>2
<1>5. PICK d \in Neighbours(c) :
              /\ Following(c) = d /\ d # None
              /\ Best(B, c) = Plus(Cost(peerForbidden, B, c, d), g[d])
    BY <1>1, <1>3, <1>4, FollowingIsBest
<1>6. d \in Window /\ C[c][d] = Cost(peerForbidden, B, c, d) /\ g[d] \in Nat /\ C[c][d] \in Nat
    BY <1>1, <1>2, <1>3, <1>5, CostsAreNumbers
<1>7. g[c] = Plus(C[c][d], g[d])
    BY <1>3, <1>4, <1>5, <1>6
<1>8. g[c] = C[c][d] + g[d] /\ C[c][d] < Inf
    BY <1>3, <1>6, <1>7 DEF Plus, Lesser
<1>9. d \notin B /\ C[c][d] \in Nat \ {0} /\ Octile(c, d) <= C[c][d]
    BY <1>1, <1>3, <1>6, <1>8, MovesAreFree
<1>10. g[d] < g[c]
    BY <1>3, <1>6, <1>8, <1>9
<1>11. g[d] + Octile(start, d) <= g[start]
  <2>1. Octile(start, d) <= Octile(start, c) + Octile(c, d) /\ Octile(start, d) \in Nat /\ Octile(c, d) \in Nat
      BY <1>1, <1>3, <1>6
  <2> QED
      BY <1>3, <1>6, <1>8, <1>9, <2>1
<1>12. g[d] = rhs[d]
  <2>1. Value(d) <= g[d] /\ Value(d) \in Nat
      BY <1>1, <1>6 DEF Value, Lesser
  <2>2. Octile(start, d) \in Nat
      BY <1>1, <1>6
  <2>3. Value(d) < g[start] /\ Value(d) + Octile(start, d) <= g[start]
      BY <1>3, <1>6, <1>10, <1>11, <2>1, <2>2
  <2> QED
      BY <1>1, <1>6, <2>3, FinishedIsConsistent
<1>13. Passed(d)
    BY <1>2, <1>6, <1>9, <1>11, <1>12 DEF Passed
<1> QED
    BY <1>5, <1>6, <1>8, <1>10, <1>13 DEF C

\* It begins at the start.
LEMMA StartIsPassed ==
    ASSUME Concluding
    PROVE  Passed(start)
<1>1. start \in Window /\ Octile(start, start) = 0 /\ g[start] \in Nat
    BY ConcludingFacts
<1>2. g[start] = rhs[start]
    BY FinishedIsConsistent
<1> QED
    BY <1>1, <1>2 DEF Passed

\* The goal costs nothing.
LEMMA GoalIsConsistent ==
    ASSUME Concluding, g[start] < Inf, Passed(goal)
    PROVE  g[goal] = 0
BY ConcludingFacts DEF Passed

\* No passed cell is farther from the goal than its value says.
LEMMA PassedAreNear ==
    ASSUME Concluding, g[start] < Inf, NEW c, Passed(c)
    PROVE  DistanceIn(Costs(peerForbidden), c, goal) <= g[c]
<1> DEFINE C == Costs(peerForbidden)
           D(b) == DistanceIn(C, b, goal)
           far == {b \in Window : Passed(b) /\ ~(D(b) <= g[b])}
           S == {g[b] : b \in far}
<1>1. /\ IsCostMap(C) /\ DOMAIN C = Window /\ goal \in Window /\ Boxed /\ Window \subseteq Cells
      /\ \A b \in Window : /\ g[b] \in 0 .. Inf /\ g[b] \in Nat /\ DOMAIN C[b] = Neighbours(b)
      /\ \A b \in Window : \A d \in Neighbours(b) : d \in Window
    BY ConcludingFacts
<1>2. Bounded(C, Diagonal * UnknownCost)
    BY <1>1, CostsAreBounded
<1> HIDE DEF C
<1>3. \A b : D(b) \in 0 .. Inf
  <2> SUFFICES ASSUME NEW b PROVE D(b) \in 0 .. Inf
      OBVIOUS
  <2> QED
      BY <1>1, DistanceIsNumber
<1>4. D(goal) = 0
    BY <1>1, DistanceOfTarget
<1>5. \A b \in Window : \A d \in Neighbours(b) :
         C[b][d] < Inf /\ D(d) < Inf => D(b) <= C[b][d] + D(d)
    BY <1>1, <1>2, DistanceIsLeast
<1> HIDE DEF D
<1> SUFFICES ASSUME ~(D(c) <= g[c]) PROVE FALSE
    BY DEF D, C
<1>6. c \in far
    BY DEF Passed
<1>7. S \subseteq Nat /\ S # {}
    BY <1>1, <1>6
<1>8. PICK m \in S : \A n \in S : m <= n
    BY <1>7, LeastExists
<1>9. PICK b \in far : g[b] = m
    BY <1>8
<1>10. b \in Window /\ Passed(b) /\ ~(D(b) <= g[b])
    OBVIOUS
<1>11. b # goal
    BY <1>1, <1>4, <1>10
<1>12. PICK d \in Neighbours(b) :
              /\ Passed(d) /\ C[b][d] \in Nat /\ C[b][d] < Inf
              /\ g[b] = C[b][d] + g[d] /\ g[d] < g[b]
    BY <1>10, <1>11, PathGoesDown DEF C
<1>13. d \in Window /\ g[d] \in Nat /\ g[b] \in Nat /\ g[b] <= Inf /\ D(d) \in Nat /\ D(b) \in Nat
    BY <1>1, <1>3, <1>10, <1>12, InfIsNat
<1>14. D(d) <= g[d]
  <2> SUFFICES ASSUME ~(D(d) <= g[d]) PROVE FALSE
      OBVIOUS
  <2>1. d \in far
      BY <1>12, <1>13
  <2>2. m <= g[d]
      BY <1>8, <2>1
  <2> QED
      BY <1>9, <1>12, <1>13, <2>2
<1>15. D(b) <= C[b][d] + D(d)
    BY <1>5, <1>10, <1>12, <1>13, <1>14, InfIsNat
<1> QED
    BY <1>10, <1>12, <1>13, <1>14, <1>15

\* Paths from the start, as far as they have been extracted.
Partial ==
    {r \in Seq(Window) :
        /\ r # <<>> /\ r[1] = start
        /\ \A i \in 1 .. Len(r) : Passed(r[i])
        /\ \A i \in 1 .. Len(r) - 1 :
              /\ r[i + 1] \in Neighbours(r[i])
              /\ g[r[i]] = Costs(peerForbidden)[r[i]][r[i + 1]] + g[r[i + 1]]
        /\ \A i \in 1 .. Len(r) : \A j \in 1 .. i - 1 : g[r[i]] < g[r[j]]}

\* The last of some numbers.
LEMMA LastOr ==
    ASSUME NEW n \in Nat, NEW i \in 1 .. n
    PROVE  i = n \/ i \in 1 .. n - 1
OBVIOUS

\* They are extended to the goal.
LEMMA PathsAreExtended ==
    ASSUME Concluding, g[start] < Inf, NEW r \in Partial
    PROVE  /\ Extended(r) \in Partial
           /\ r[Len(r)] = goal => Extended(r) = r
           /\ r[Len(r)] # goal => Len(Extended(r)) = Len(r) + 1
<1> DEFINE C == Costs(peerForbidden)
           last == r[Len(r)]
           next == Following(last)
<1>1. /\ r \in Seq(Window) /\ r # <<>> /\ r[1] = start
      /\ \A i \in 1 .. Len(r) : Passed(r[i])
      /\ \A i \in 1 .. Len(r) - 1 :
            r[i + 1] \in Neighbours(r[i]) /\ g[r[i]] = C[r[i]][r[i + 1]] + g[r[i + 1]]
      /\ \A i \in 1 .. Len(r) : \A j \in 1 .. i - 1 : g[r[i]] < g[r[j]]
    BY DEF Partial
<1> HIDE DEF C
<1>2. Len(r) \in Nat \ {0} /\ DOMAIN r = 1 .. Len(r) /\ \A i \in 1 .. Len(r) : r[i] \in Window
    BY <1>1
<1>3. Extended(r) = IF last = goal THEN r
                    ELSE IF next = None \/ \E i \in DOMAIN r : r[i] = next THEN <<>>
                    ELSE Append(r, next)
    BY DEF Extended
<1> HIDE DEF last, next
<1>4. CASE last = goal
    BY <1>3, <1>4 DEF last
<1>5. CASE last # goal
  <2>1. Passed(last) /\ Len(r) \in 1 .. Len(r)
      BY <1>1, <1>2 DEF last
  <2>2. PICK d \in Neighbours(last) :
              /\ next = d /\ d # None /\ Passed(d)
              /\ C[last][d] \in Nat /\ C[last][d] < Inf
              /\ g[last] = C[last][d] + g[d] /\ g[d] < g[last]
      BY <1>5, <2>1, PathGoesDown DEF C, next
  <2>3. \A b \in Window : g[b] \in Nat
      BY ConcludingFacts
  <2>4. d \in Window
      BY <2>2 DEF Passed
  <2>5. \A i \in 1 .. Len(r) : g[d] < g[r[i]]
    <3> SUFFICES ASSUME NEW i \in 1 .. Len(r) PROVE g[d] < g[r[i]]
        OBVIOUS
    <3>1. CASE i = Len(r)
        BY <2>2, <3>1 DEF last
    <3>2. CASE i # Len(r)
      <4>1. i \in 1 .. Len(r) - 1
          BY <1>2, <3>2, LastOr
      <4>2. g[last] < g[r[i]]
          BY <1>1, <2>1, <4>1 DEF last
      <4>3. g[last] \in Nat /\ g[r[i]] \in Nat /\ g[d] \in Nat
          BY <1>2, <2>1, <2>3, <2>4 DEF last
      <4> QED
          BY <2>2, <4>2, <4>3
    <3> QED
        BY <3>1, <3>2
  <2>6. ~(\E i \in DOMAIN r : r[i] = next)
      BY <1>2, <2>2, <2>3, <2>4, <2>5
  <2> DEFINE s == Append(r, d)
  <2>7. Extended(r) = s
      BY <1>3, <1>5, <2>2, <2>6
  <2>8. /\ s \in Seq(Window) /\ Len(s) = Len(r) + 1 /\ s # <<>>
        /\ \A i \in 1 .. Len(r) : s[i] = r[i]
        /\ s[Len(r) + 1] = d
      BY <1>1, <1>2, <2>4
  <2> HIDE DEF s
  <2>9. s[1] = start
      BY <1>1, <1>2, <2>8
  <2>10. \A i \in 1 .. Len(s) : Passed(s[i])
    <3> SUFFICES ASSUME NEW i \in 1 .. Len(s) PROVE Passed(s[i])
        OBVIOUS
    <3>1. i \in 1 .. Len(r) \/ i = Len(r) + 1
        BY <1>2, <2>8
    <3> QED
        BY <1>1, <2>2, <2>8, <3>1
  <2>11. ASSUME NEW i \in 1 .. Len(s) - 1
         PROVE  s[i + 1] \in Neighbours(s[i]) /\ g[s[i]] = C[s[i]][s[i + 1]] + g[s[i + 1]]
    <3>1. i \in 1 .. Len(r) - 1 \/ i = Len(r)
      <4>1. Len(s) - 1 = Len(r)
          BY <1>2, <2>8
      <4> QED
          BY <1>2, <4>1, LastOr
    <3>2. CASE i \in 1 .. Len(r) - 1
      <4>1. i + 1 \in 1 .. Len(r) /\ i \in 1 .. Len(r)
          BY <1>2, <3>2
      <4>2. s[i] = r[i] /\ s[i + 1] = r[i + 1]
          BY <2>8, <4>1
      <4> QED
          BY <1>1, <3>2, <4>2
    <3>3. CASE i = Len(r)
      <4>1. s[i] = last /\ s[i + 1] = d
          BY <2>1, <2>8, <3>3 DEF last
      <4> QED
          BY <2>2, <4>1
    <3> QED
        BY <3>1, <3>2, <3>3
  <2>12. ASSUME NEW i \in 1 .. Len(s), NEW j \in 1 .. i - 1 PROVE g[s[i]] < g[s[j]]
    <3>1. i \in 1 .. Len(r) \/ i = Len(r) + 1
        BY <1>2, <2>8
    <3>2. CASE i \in 1 .. Len(r)
      <4>1. j \in 1 .. Len(r)
          BY <1>2, <3>2
      <4>2. s[i] = r[i] /\ s[j] = r[j]
          BY <2>8, <3>2, <4>1
      <4> QED
          BY <1>1, <3>2, <4>2
    <3>3. CASE i = Len(r) + 1
      <4>1. j \in 1 .. Len(r)
          BY <1>2, <3>3
      <4> QED
          BY <2>5, <2>8, <3>3, <4>1
    <3> QED
        BY <3>1, <3>2, <3>3
  <2>13. s \in Partial
      BY <2>8, <2>9, <2>10, <2>11, <2>12 DEF Partial, C
  <2> QED
      BY <1>5, <2>7, <2>8, <2>13 DEF last
<1> QED
    BY <1>4, <1>5

\* The path of the start alone.
LEMMA PathBegins ==
    ASSUME Concluding
    PROVE  <<start>> \in Partial
<1>1. start \in Window /\ Passed(start)
    BY ConcludingFacts, StartIsPassed
<1> DEFINE r == <<start>>
<1>2. r \in Seq(Window) /\ r # <<>> /\ Len(r) = 1 /\ r[1] = start
    BY <1>1
<1> HIDE DEF r
<1>3. \A i \in 1 .. Len(r) : i = 1
    BY <1>2
<1> QED
    BY <1>1, <1>2, <1>3 DEF Partial, r

\* No path is longer than the window is large.
LEMMA PathsAreShort ==
    ASSUME Concluding, NEW r \in Partial
    PROVE  Len(r) <= Cardinality(Window)
<1>1. /\ r \in Seq(Window)
      /\ \A i \in 1 .. Len(r) : \A j \in 1 .. i - 1 : g[r[i]] < g[r[j]]
    BY DEF Partial
<1>2. Boxed /\ \A b \in Window : g[b] \in Nat
    BY ConcludingFacts
<1>3. IsFiniteSet(Window) /\ Cardinality(Window) \in Nat
    BY <1>2, WindowIsFinite, FS_CardinalityType DEF Boxed
<1>4. Len(r) \in Nat /\ r \in [1 .. Len(r) -> Window]
    BY <1>1
<1>5. IsFiniteSet(1 .. Len(r)) /\ Cardinality(1 .. Len(r)) = Len(r)
    BY <1>4, FS_Interval
<1> SUFFICES ASSUME Cardinality(Window) < Len(r) PROVE FALSE
    BY <1>3, <1>4
<1>6. PICK x \in 1 .. Len(r), y \in 1 .. Len(r) : x # y /\ r[x] = r[y]
    BY <1>3, <1>4, <1>5, FS_PigeonHole
<1>7. x \in 1 .. y - 1 \/ y \in 1 .. x - 1
    BY <1>4, <1>6
<1>8. g[r[x]] < g[r[y]] \/ g[r[y]] < g[r[x]]
    BY <1>1, <1>7
<1>9. g[r[x]] \in Nat /\ g[r[x]] = g[r[y]]
    BY <1>2, <1>4, <1>6
<1> QED
    BY <1>8, <1>9

\* The extraction ends at the goal.
LEMMA PathIsExtracted ==
    ASSUME Concluding, g[start] < Inf
    PROVE  ExtractPath \in Partial /\ ExtractPath[Len(ExtractPath)] = goal
<1> DEFINE N == Cardinality(Window)
           a == <<start>>
           X == Partial
           G == [p \in Nat \X X |-> Extended(p[2])]
           E(f, n) == LET route == f[n - 1] IN IF route = <<>> THEN <<>> ELSE Extended(route)
           Def(f) == f = [n \in 0 .. N |-> IF n = 0 THEN a ELSE E(f, n)]
<1>1. N \in Nat
    BY ConcludingFacts, WindowIsFinite, FS_CardinalityType DEF Boxed
<1>2. a \in X
    BY PathBegins
<1>3. \A r \in X : /\ Extended(r) \in X /\ r # <<>> /\ Len(r) \in Nat
                   /\ r[Len(r)] = goal => Extended(r) = r
                   /\ r[Len(r)] # goal => Len(Extended(r)) = Len(r) + 1
    BY PathsAreExtended DEF Partial
<1>4. G \in [Nat \X X -> X]
    BY <1>3
<1>5. \E h : Iterating(h, X, a, N, G)
  <2> HIDE DEF N, X, G, a
  <2> QED
      BY <1>1, <1>2, <1>4, Iterates
<1>0. Len(a) = 1
    OBVIOUS
<1> HIDE DEF N, X, a
<1>6. PICK h \in [0 .. N -> X] : h[0] = a /\ \A k \in 1 .. N : h[k] = G[<<k, h[k - 1]>>]
    BY <1>5 DEF Iterating
<1>7. \A k \in 1 .. N : h[k] = Extended(h[k - 1]) /\ h[k - 1] \in X
  <2> SUFFICES ASSUME NEW k \in 1 .. N PROVE h[k] = Extended(h[k - 1]) /\ h[k - 1] \in X
      OBVIOUS
  <2>1. h[k - 1] \in X /\ k \in Nat
      BY <1>1, <1>6
  <2> QED
      BY <1>6, <2>1
<1>13. h[0] = a
    BY <1>6
<1> HIDE DEF G
<1>8. Def(h)
  <2>1. \A k \in 1 .. N : h[k] = E(h, k)
      BY <1>3, <1>7
  <2> HIDE DEF E
  <2>2. \A k \in 0 .. N : h[k] = IF k = 0 THEN a ELSE E(h, k)
    <3> SUFFICES ASSUME NEW k \in 0 .. N, k # 0 PROVE k \in 1 .. N
        BY <1>13, <2>1
    <3> QED
        BY <1>1
  <2>3. h = [k \in 0 .. N |-> h[k]]
      BY <1>6
  <2>4. [k \in 0 .. N |-> h[k]] = [k \in 0 .. N |-> IF k = 0 THEN a ELSE E(h, k)]
      BY <2>2, Zenon
  <2> QED
      BY <2>3, <2>4, Zenon
<1>9. PICK f : Def(f) /\ ExtractPath = f[N]
  <2>1. Def(CHOOSE f : Def(f))
      BY <1>8
  <2>2. ~(g[start] >= Inf)
    <3>1. g[start] \in Nat
        BY ConcludingFacts
    <3> QED
        BY <3>1, InfIsNat
  <2> QED
      BY <2>1, <2>2 DEF ExtractPath, N, a
<1> HIDE DEF E
<1>10. f[0] = a /\ \A k \in 1 .. N : f[k] = E(f, k)
  <2>1. \A k \in 0 .. N : f[k] = IF k = 0 THEN a ELSE E(f, k)
      BY <1>9
  <2>2. 0 \in 0 .. N /\ \A k \in 1 .. N : k \in 0 .. N /\ k # 0
      BY <1>1
  <2> QED
      BY <2>1, <2>2
<1> HIDE DEF Def
<1>11. \A k \in 0 .. N : f[k] = h[k]
  <2> DEFINE S == {k \in 0 .. N : f[k] = h[k]}
  <2>1. 0 \in S
      BY <1>1, <1>13, <1>10
  <2>2. ASSUME NEW k \in 0 .. N - 1, k \in S PROVE k + 1 \in S
    <3>1. k + 1 \in 1 .. N /\ (k + 1) - 1 = k /\ f[k] = h[k]
        BY <1>1, <2>2
    <3>2. h[k + 1] = Extended(h[k]) /\ h[k] # <<>>
        BY <1>3, <1>7, <3>1
    <3>3. E(f, k + 1) = Extended(h[k])
        BY <3>1, <3>2 DEF E
    <3>4. f[k + 1] = h[k + 1]
        BY <1>10, <3>1, <3>2, <3>3
    <3> QED
        BY <3>1, <3>4, <1>1
  <2>3. 0 .. N \subseteq S
      BY <1>1, <2>1, <2>2, CountingUp
  <2> QED
      BY <2>3
<1> DEFINE K == {k \in 0 .. N : h[k][Len(h[k])] = goal \/ Len(h[k]) = k + 1}
<1>12. 0 \in K
    BY <1>0, <1>1, <1>13
<1>14. ASSUME NEW k \in 0 .. N - 1, k \in K PROVE k + 1 \in K
  <2>1. k + 1 \in 1 .. N /\ (k + 1) - 1 = k
      BY <1>1
  <2>2. h[k + 1] = Extended(h[k]) /\ h[k] \in X
      BY <1>7, <2>1
  <2>3. CASE h[k][Len(h[k])] = goal
    <3>1. h[k + 1] = h[k]
        BY <1>3, <2>2, <2>3
    <3> QED
        BY <1>1, <2>1, <2>3, <3>1
  <2>4. CASE h[k][Len(h[k])] # goal
    <3>1. Len(h[k + 1]) = (k + 1) + 1
        BY <1>3, <1>14, <2>2, <2>4
    <3> QED
        BY <1>1, <2>1, <3>1
  <2> QED
      BY <2>3, <2>4
<1>15. 0 .. N \subseteq K
    BY <1>1, <1>12, <1>14, CountingUp
<1>16. N \in 0 .. N
    BY <1>1
<1>17. h[N] \in X /\ ExtractPath = h[N]
    BY <1>6, <1>9, <1>11, <1>16
<1>18. Len(h[N]) <= N
    BY <1>17, PathsAreShort DEF N, X
<1>19. Len(h[N]) \in Nat /\ ~(Len(h[N]) = N + 1)
    BY <1>1, <1>3, <1>17, <1>18
<1> QED
    BY <1>15, <1>16, <1>17, <1>19 DEF X

\* It costs what the value of its first cell is above that of its last.
LEMMA PathCosts ==
    ASSUME Concluding, g[start] < Inf, NEW r \in Partial
    PROVE  Total(Costs(peerForbidden), r) = g[start] - g[r[Len(r)]]
<1> DEFINE C == Costs(peerForbidden)
           N == Len(r)
           E(f, n) == Plus(f[n - 1], C[r[n - 1]][r[n]])
           Def(f) == f = [n \in 1 .. N |-> IF n = 1 THEN 0 ELSE E(f, n)]
           h == [n \in 1 .. N |-> g[start] - g[r[n]]]
<1>1. /\ r \in Seq(Window) /\ r # <<>> /\ r[1] = start
      /\ \A i \in 1 .. N - 1 : r[i + 1] \in Neighbours(r[i]) /\ g[r[i]] = C[r[i]][r[i + 1]] + g[r[i + 1]]
      /\ \A i \in 1 .. N : \A j \in 1 .. i - 1 : g[r[i]] < g[r[j]]
    BY DEF Partial
<1>2. N \in Nat /\ N >= 1 /\ \A i \in 1 .. N : r[i] \in Window
    BY <1>1
<1>3. IsCostMap(C) /\ DOMAIN C = Window /\ \A c \in Window : g[c] \in Nat /\ DOMAIN C[c] = Neighbours(c)
    BY ConcludingFacts
<1>4. g[start] < Inf /\ Inf \in Nat
    BY InfIsNat
<1> HIDE DEF C, N
<1>5. \A i \in 1 .. N - 1 : /\ i \in 1 .. N /\ i + 1 \in 1 .. N /\ C[r[i]][r[i + 1]] \in Nat
                            /\ g[r[i]] \in Nat /\ g[r[i + 1]] \in Nat
  <2> SUFFICES ASSUME NEW i \in 1 .. N - 1
               PROVE  /\ i \in 1 .. N /\ i + 1 \in 1 .. N /\ C[r[i]][r[i + 1]] \in Nat
                      /\ g[r[i]] \in Nat /\ g[r[i + 1]] \in Nat
      OBVIOUS
  <2>1. i \in 1 .. N /\ i + 1 \in 1 .. N
      BY <1>2
  <2>2. r[i] \in Window /\ r[i + 1] \in Window /\ r[i + 1] \in Neighbours(r[i])
      BY <1>1, <1>2, <2>1
  <2> QED
      BY <1>3, <2>1, <2>2 DEF IsCostMap
<1>6. \A n \in 1 .. N : h[n] = g[start] - g[r[n]] /\ g[r[n]] \in Nat /\ g[r[n]] <= g[start]
  <2> SUFFICES ASSUME NEW n \in 1 .. N PROVE g[r[n]] <= g[start]
      BY <1>2, <1>3
  <2>1. g[r[n]] \in Nat
      BY <1>2, <1>3
  <2>2. CASE n = 1
      BY <1>1, <2>1, <2>2
  <2>3. CASE n # 1
    <3>1. 1 \in 1 .. n - 1 /\ 1 \in 1 .. N
        BY <1>2, <2>3
    <3>2. g[r[n]] < g[start] /\ g[start] \in Nat
        BY <1>1, <1>2, <1>3, <3>1 DEF N
    <3> QED
        BY <2>1, <3>2
  <2> QED
      BY <2>2, <2>3
<1>7. \A n \in 1 .. N : h[n] = IF n = 1 THEN 0 ELSE E(h, n)
  <2> SUFFICES ASSUME NEW n \in 1 .. N PROVE h[n] = IF n = 1 THEN 0 ELSE E(h, n)
      OBVIOUS
  <2>1. CASE n = 1
    <3>1. g[start] \in Nat /\ h[n] = g[start] - g[start]
        BY <1>1, <1>2, <1>6, <2>1
    <3> QED
        BY <2>1, <3>1
  <2>2. CASE n # 1
    <3>1. n - 1 \in 1 .. N - 1 /\ (n - 1) + 1 = n /\ n - 1 \in 1 .. N
        BY <1>2, <2>2
    <3>2. g[r[n - 1]] = C[r[n - 1]][r[n]] + g[r[n]] /\ C[r[n - 1]][r[n]] \in Nat
        BY <1>1, <1>5, <3>1 DEF N
    <3>3. /\ h[n] = g[start] - g[r[n]] /\ h[n - 1] = g[start] - g[r[n - 1]]
          /\ g[r[n]] \in Nat /\ g[r[n - 1]] \in Nat /\ g[start] \in Nat /\ g[r[n]] <= g[start]
      <4>1. g[start] \in Nat
          BY <1>1, <1>2, <1>3
      <4> QED
          BY <1>6, <3>1, <4>1
    <3> HIDE DEF h
    <3>4. h[n - 1] + C[r[n - 1]][r[n]] = h[n] /\ h[n] <= Inf /\ h[n] \in Nat
        BY <1>4, <3>2, <3>3
    <3> QED
        BY <1>4, <2>2, <3>4 DEF Plus, Lesser
  <2> QED
      BY <2>1, <2>2
<1>8. Def(h)
  <2> HIDE DEF E
  <2>1. h = [n \in 1 .. N |-> h[n]]
      OBVIOUS
  <2>2. [n \in 1 .. N |-> h[n]] = [n \in 1 .. N |-> IF n = 1 THEN 0 ELSE E(h, n)]
    <3> HIDE DEF h
    <3> QED
        BY <1>7, Zenon
  <2> HIDE DEF h
  <2> QED
      BY <2>1, <2>2, Zenon
<1>9. PICK f : Def(f) /\ Total(C, r) = f[N]
  <2>1. Def(CHOOSE f : Def(f))
      BY <1>8
  <2> QED
      BY <2>1 DEF Total, N
<1> HIDE DEF E
<1>10. \A n \in 1 .. N : f[n] = IF n = 1 THEN 0 ELSE E(f, n)
    BY <1>9
<1> HIDE DEF Def, h
<1>11. \A n \in 0 .. N - 1 : f[n + 1] = h[n + 1]
  <2> DEFINE S == {n \in 0 .. N - 1 : f[n + 1] = h[n + 1]}
  <2>0. N - 1 \in Nat
      BY <1>2
  <2>1. 0 \in S
    <3>1. 1 \in 1 .. N
        BY <1>2
    <3>2. f[1] = 0 /\ h[1] = 0
        BY <1>7, <1>10, <3>1
    <3> QED
        BY <2>0, <3>2
  <2>2. ASSUME NEW n \in 0 .. (N - 1) - 1, n \in S PROVE n + 1 \in S
    <3>1. (n + 1) + 1 \in 1 .. N /\ (n + 1) + 1 # 1 /\ ((n + 1) + 1) - 1 = n + 1 /\ n + 1 \in 0 .. N - 1
        BY <1>2
    <3>2. f[n + 1] = h[n + 1]
        BY <2>2
    <3>3. E(f, (n + 1) + 1) = E(h, (n + 1) + 1)
        BY <3>1, <3>2 DEF E
    <3>4. f[(n + 1) + 1] = h[(n + 1) + 1]
        BY <1>7, <1>10, <3>1, <3>3
    <3> QED
        BY <3>1, <3>4
  <2>3. 0 .. N - 1 \subseteq S
      BY <2>0, <2>1, <2>2, CountingUp
  <2> QED
      BY <2>3
<1>12. f[N] = h[N]
  <2>1. N - 1 \in 0 .. N - 1 /\ (N - 1) + 1 = N
      BY <1>2
  <2> QED
      BY <1>11, <2>1
<1>13. h[N] = g[start] - g[r[N]]
  <2>1. N \in 1 .. N
      BY <1>2
  <2> QED
      BY <1>6, <2>1
<1> QED
    BY <1>9, <1>12, <1>13 DEF C, N

\* A search that ends with a finite value has found a shortest path.
LEMMA PathIsShortest ==
    ASSUME Concluding, g[start] < Inf
    PROVE  /\ ExtractPath \in Seq(Window) /\ ExtractPath # <<>>
           /\ ExtractPath[1] = start /\ ExtractPath[Len(ExtractPath)] = goal
           /\ \A i \in 1 .. Len(ExtractPath) - 1 : ExtractPath[i + 1] \in Neighbours(ExtractPath[i])
           /\ Total(Costs(peerForbidden), ExtractPath) = DistanceToGoal(peerForbidden)
           /\ RouteExists(peerForbidden)
<1> DEFINE r == ExtractPath
<1>1. r \in Partial /\ r[Len(r)] = goal
    BY PathIsExtracted
<1>2. /\ r \in Seq(Window) /\ r # <<>> /\ r[1] = start
      /\ \A i \in 1 .. Len(r) : Passed(r[i])
      /\ \A i \in 1 .. Len(r) - 1 : r[i + 1] \in Neighbours(r[i])
    BY <1>1 DEF Partial
<1>3. Passed(goal)
    BY <1>1, <1>2
<1>4. g[goal] = 0 /\ g[start] \in Nat
    BY <1>3, GoalIsConsistent, ConcludingFacts
<1>5. Total(Costs(peerForbidden), r) = g[start]
    BY <1>1, <1>4, PathCosts
<1>6. DistanceToGoal(peerForbidden) <= g[start]
    BY StartIsPassed, PassedAreNear DEF DistanceToGoal
<1>7. g[start] <= DistanceToGoal(peerForbidden)
    BY StartIsNear
<1>8. DistanceToGoal(peerForbidden) \in 0 .. Inf
    BY ConcludingFacts, DistanceIsNumber DEF DistanceToGoal
<1>9. DistanceToGoal(peerForbidden) = g[start]
    BY <1>4, <1>6, <1>7, <1>8, InfIsNat
<1>10. RouteExists(peerForbidden)
    BY <1>9 DEF RouteExists, Concluding
<1> QED
    BY <1>1, <1>2, <1>5, <1>9, <1>10

\* A search that ends without a finite value has excluded every path of a start out of
\* obstacles.
LEMMA NoPathExists ==
    ASSUME Concluding, ~(g[start] < Inf), start \notin BlockedCells(peerForbidden)
    PROVE  ~RouteExists(peerForbidden)
<1>1. g[start] <= DistanceToGoal(peerForbidden)
    BY StartIsNear
<1>2. DistanceToGoal(peerForbidden) \in 0 .. Inf
    BY ConcludingFacts, DistanceIsNumber DEF DistanceToGoal
<1>3. g[start] \in Nat
    BY ConcludingFacts
<1> QED
    BY <1>1, <1>2, <1>3, InfIsNat DEF RouteExists

-----------------------------------------------------------------------------
(* Leaving an obstacle's clearance.                                           *)

\* The lookahead value of a blocked cell is that of leaving it, if the vehicle stands there.
LEMMA BlockedLooksAhead ==
    ASSUME Boxed, g \in [Cells -> 0 .. Inf], Window \subseteq Cells, NEW B, NEW c \in Window \cap B
    PROVE  Best(B, c) = Inf \/ Best(B, c) = BestEgress(B, c)
<1>1. CASE c = start /\ position # None
  <2>1. \A d : Cost(peerForbidden, B, c, d) = EgressCost(peerForbidden, B, c, d)
      BY <1>1 DEF Cost, StartConnectionCost, EgressCost
  <2> DEFINE S == {Plus(Cost(peerForbidden, B, c, d), g[d]) : d \in Neighbours(c)}
             T == {Plus(EgressCost(peerForbidden, B, c, d), g[d]) : d \in Neighbours(c)}
  <2>2. S = T
      BY <2>1
  <2> QED
      BY <2>2, Zenon DEF Best, BestEgress
<1>2. CASE ~(c = start /\ position # None)
  <2>1. \A d : Cost(peerForbidden, B, c, d) = Inf
      BY <1>2 DEF Cost, StartConnectionCost
  <2> SUFFICES ASSUME NEW d \in Neighbours(c),
                      Best(B, c) = Plus(Cost(peerForbidden, B, c, d), g[d])
               PROVE  Best(B, c) = Inf
      BY BestIsLeast
  <2>2. d \in Cells
      BY NeighboursAreMutual DEF Boxed
  <2>3. g[d] \in Nat
      BY <2>2, InfIsNat
  <2> QED
      BY <2>1, <2>3, InfIsNat DEF Plus, Lesser
<1> QED
    BY <1>1, <1>2

\* The same of a next state.
EgressFact ==
    Boxed /\ g \in [Cells -> 0 .. Inf] /\ Window \subseteq Cells =>
        \A B : \A c \in Window \cap B : Best(B, c) = Inf \/ Best(B, c) = BestEgress(B, c)

\* It holds of the current state.
LEMMA EgressHolds == EgressFact
<1> SUFFICES ASSUME Boxed, g \in [Cells -> 0 .. Inf], Window \subseteq Cells,
                    NEW B, NEW c \in Window \cap B
             PROVE  Best(B, c) = Inf \/ Best(B, c) = BestEgress(B, c)
    BY Zenon DEF EgressFact
<1> QED
    BY BlockedLooksAhead

\* It holds of the next state too.
LEMMA EgressHoldsNext == EgressFact'
BY EgressHolds, PTL

\* The corners of a move in the window are in the window.
LEMMA CornersAreInside ==
    ASSUME Boxed, NEW c \in Window, NEW d \in Window
    PROVE  Corners(c, d) \subseteq Window
<1>1. bounds # None
    BY WorldAssumption DEF Boxed
<1>2. Window = (bounds[1] .. bounds[3]) \X (bounds[2] .. bounds[4])
    BY <1>1 DEF Window
<1> QED
    BY <1>2 DEF Corners

\* What leaving a cell costs depends on the cells next to it and within reach.
LEMMA EgressIsLocal ==
    ASSUME Boxed, Window \subseteq Cells, bounds' = bounds, NEW D, D \subseteq Cells,
           \A o \in Cells \ D : grid'[o] = grid[o] /\ states'[o] = states[o],
           NEW c \in Window, \A o \in D : c \notin Square(o, Reach + 1), NEW B, NEW C,
           \A e \in Square(c, 1) \cap Window :
               (e \in B <=> e \in C) /\ (e \in peerForbidden <=> e \in peerForbidden'),
           \A d \in Neighbours(c) : g'[d] = g[d] /\ states'[d] = states[d]
    PROVE  (BestEgress(C, c))' = BestEgress(B, c)
<1>1. c \in Int \X Int
    BY WindowIsGrid DEF Boxed
<1>2. Neighbours(c)' = Neighbours(c)
    BY DEF Neighbours, Inside
<1>3. Obstacles \cap Footprint(c) = Obstacles' \cap Footprint(c)
  <2>1. \A o \in Cells \ D : o \in Obstacles <=> o \in Obstacles'
    <3>1. \A o \in Cells \ D : BaseState(o)' = BaseState(o)
        BY DEF BaseState
    <3> QED
        BY <3>1 DEF Obstacles
  <2>2. Obstacles \subseteq Cells /\ Obstacles' \subseteq Cells
      BY DEF Obstacles
  <2>3. ASSUME NEW o \in Cells, o \in Footprint(c) PROVE o \notin D
    <3>1. o \in Square(c, Reach + 1) /\ o \in Int \X Int
        BY <1>1, <2>3, FootprintIsNear, CellsAreGrid
    <3>2. Reach + 1 \in Nat
        BY DStarLiteAssumption
    <3>3. c \in Square(o, Reach + 1)
        BY <1>1, <3>1, <3>2, SquaresAreMutual
    <3> QED
        BY <3>3
  <2> QED
      BY <2>1, <2>2, <2>3
<1>4. ASSUME NEW d \in Neighbours(c)
      PROVE  EgressCost(peerForbidden, B, c, d) = (EgressCost(peerForbidden, C, c, d))'
  <2>1. d \in Square(c, 1) /\ d \in Window
      BY <1>1, NeighboursAreMutual DEF Neighbours, Boxed
  <2>2. c \in Square(c, 1)
      BY <1>1 DEF Square
  <2>3. Corners(c, d) \subseteq Square(c, 1) \cap Window
      BY <1>1, <2>1, CornersAreNear, CornersAreInside
  <2>4. {c, d} \cup Corners(c, d) \subseteq Square(c, 1) \cap Window
      BY <2>1, <2>2, <2>3
  <2>5. StepCost(c, d)' = StepCost(c, d)
      BY DEF StepCost
  <2>6. d \in B <=> d \in C
      BY <2>1
  <2>7. ({c, d} \cup Corners(c, d)) \cap peerForbidden = ({c, d} \cup Corners(c, d)) \cap peerForbidden'
      BY <2>4
  <2> DEFINE held(O) == Reach = 1 /\ \E o \in O : ~LeavesBehind(c, d, o)
             K == {c, d} \cup Corners(c, d)
  <2>8. held(Footprint(c) \cap Obstacles) <=> held(Footprint(c) \cap Obstacles')
      BY <1>3
  <2>9. EgressCost(peerForbidden, B, c, d) =
          IF d \in B \/ K \cap peerForbidden # {} \/ held(Footprint(c) \cap Obstacles)
          THEN Inf ELSE StepCost(c, d)
      BY Zenon DEF EgressCost
  <2>10. (EgressCost(peerForbidden, C, c, d))' =
          IF d \in C \/ K \cap peerForbidden' # {} \/ held(Footprint(c) \cap Obstacles')
          THEN Inf ELSE StepCost(c, d)'
      BY Zenon DEF EgressCost
  <2> HIDE DEF held, K
  <2>11. K \cap peerForbidden = K \cap peerForbidden'
      BY <2>7 DEF K
  <2> QED
      BY <2>5, <2>6, <2>8, <2>9, <2>10, <2>11
<1> DEFINE S == {Plus(EgressCost(peerForbidden, B, c, d), g[d]) : d \in Neighbours(c)}
           T == {Plus((EgressCost(peerForbidden, C, c, d))', g'[d]) : d \in Neighbours(c)}
<1>5. S = T
    BY <1>4, Zenon
<1>6. BestEgress(B, c) = Least({Inf} \cup S)
    BY Zenon DEF BestEgress
<1>7. (BestEgress(C, c))' = Least({Inf} \cup {Plus((EgressCost(peerForbidden, C, c, d))', g'[d]) :
                                                 d \in Neighbours(c)'})
    BY Zenon DEF BestEgress
<1> QED
    BY <1>2, <1>5, <1>6, <1>7, Zenon

-----------------------------------------------------------------------------
(* Steps that prepare the conclusion.                                         *)

\* A blocked cell that an update may leave out.
Held(c) ==
    /\ c \in BlockedCells(peerForbidden) /\ c \notin Affected(delta)
    /\ \E B \in {BlockedCells(peerForbidden)} : \E C \in {(BlockedCells(peerForbidden))'} :
           (BestEgress(C, c))' = BestEgress(B, c)

\* Keys stay low when the start moves and the modifier grows by as much.
LEMMA KeysGrow ==
    ASSUME Numbers, Numbers', start \in Cells, start' \in Cells, km \in Nat, km' \in Nat,
           \A c \in Cells : Octile(start, c) + km <= Octile(start', c) + km',
           NEW c \in Cells, g'[c] = g[c], rhs'[c] = rhs[c]
    PROVE  /\ Key(c)[1] \in Nat /\ (Key(c))'[1] \in Nat
           /\ Key(c)[1] <= (Key(c))'[1] /\ (Key(c))'[2] = Key(c)[2]
<1> DEFINE v == Lesser(g[c], rhs[c])
<1>1. v \in Nat
  <2>1. g[c] \in 0 .. Inf /\ rhs[c] \in 0 .. Inf
      BY DEF Numbers
  <2> QED
      BY <2>1, InfIsNat DEF Lesser
<1>2. Key(c) = <<Plus(v, Octile(start, c) + km), v>>
    BY DEF Key
<1>3. (Key(c))' = <<Plus(v, Octile(start', c) + km'), v>>
    BY DEF Key
<1>4. Octile(start, c) \in Nat /\ Octile(start', c) \in Nat
    BY OctileIsNumber
<1> HIDE DEF v
<1>5. Octile(start, c) + km \in Nat /\ Octile(start', c) + km' \in Nat
      /\ Octile(start, c) + km <= Octile(start', c) + km'
    BY <1>4
<1>6. /\ Plus(v, Octile(start, c) + km) \in Nat /\ Plus(v, Octile(start', c) + km') \in Nat
      /\ Plus(v, Octile(start, c) + km) <= Plus(v, Octile(start', c) + km')
    BY <1>1, <1>5, InfIsNat DEF Plus, Lesser
<1> QED
    BY <1>2, <1>3, <1>6

\* An update is enough when whatever it leaves out is held.
LEMMA UpdatePrepares ==
    ASSUME Searched, Prepared, goal # None,
           bounds' = bounds, goal' = goal, start' \in Starts, start' \in Window, km' \in Nat,
           \A c \in Cells : Octile(start, c) + km <= Octile(start', c) + km',
           g' \in [Cells -> 0 .. Inf], ~missed' => ~missed,
           NEW A, A \subseteq Window,
           NEW queue, queue \in [DOMAIN queue -> Keys], DOMAIN queue \subseteq Window,
           \A c \in DOMAIN queue \ A : c \in DOMAIN open /\ queue[c] = open[c] /\ g'[c] = g[c],
           \A c \in Cells \ A : c \in DOMAIN queue <=> g'[c] # rhs[c],
           UpdateVertices(A, queue),
           \A c \in (Window \cap (BlockedCells(peerForbidden))') \
                      ({goal} \cup (Affected(delta))' \cup A) : Held(c)
    PROVE  Prepared'
<1>1. Asked /\ goal \in Cells
    BY DEF Searched, Asked
<1>2. Window' = Window
    BY DEF Window
<1>3. Numbers /\ Boxed /\ Boxed' /\ Window \subseteq Cells /\ km \in Nat
    BY <1>1, <1>2 DEF Searched, Asked, Boxed
<1>4. start' \in Cells /\ start \in Cells
    BY <1>1, WorldIsCells, WorldAssumption DEF Asked
<1>5. /\ Numbers'
      /\ \A c \in Cells : c \notin A \/ c = goal' => rhs'[c] = rhs[c]
      /\ \E B \in {(BlockedCells(peerForbidden))'} :
             \A c \in A \ {goal'} : rhs'[c] = (Best(B, c))'
      /\ DOMAIN open' \subseteq A \cup DOMAIN queue
      /\ \A c \in DOMAIN open' : open'[c] = IF c \in A THEN (Key(c))' ELSE queue[c]
    BY <1>2, <1>3, <1>4, VerticesAreUpdated
<1>6. Egress'
  <2> SUFFICES ASSUME ~missed'
               PROVE  \E C \in {(BlockedCells(peerForbidden))'} :
                        \A c \in (Window' \cap C) \ ({goal'} \cup (Affected(delta))') :
                            rhs'[c] = Inf \/ rhs'[c] = (BestEgress(C, c))'
      BY Zenon DEF Egress
  <2>1. PICK C \in {(BlockedCells(peerForbidden))'} : \A c \in A \ {goal'} : rhs'[c] = (Best(C, c))'
      BY <1>5
  <2>2. PICK B \in {BlockedCells(peerForbidden)} :
          \A c \in (Window \cap B) \ ({goal} \cup Affected(delta)) :
              rhs[c] = Inf \/ rhs[c] = BestEgress(B, c)
      BY Zenon DEF Prepared, Egress
  <2> SUFFICES ASSUME NEW c \in (Window \cap C) \ ({goal} \cup (Affected(delta))')
               PROVE  rhs'[c] = Inf \/ rhs'[c] = (BestEgress(C, c))'
      BY <1>2, <2>1
  <2>3. CASE c \in A
    <3>1. rhs'[c] = (Best(C, c))'
        BY <2>1, <2>3
    <3>2. (Best(C, c))' = Inf \/ (Best(C, c))' = (BestEgress(C, c))'
      <4>1. g' \in [Cells -> 0 .. Inf] /\ Window' \subseteq Cells /\ Boxed' /\ c \in Window' \cap C
          BY <1>2, <1>3
      <4> QED
          BY <4>1, EgressHoldsNext, Zenon DEF EgressFact
    <3> QED
        BY <3>1, <3>2
  <2>4. CASE c \notin A
    <3>1. Held(c)
        BY <2>1, <2>4
    <3>2. (BestEgress(C, c))' = BestEgress(B, c) /\ c \in B /\ c \notin Affected(delta)
        BY <2>1, <2>2, <3>1 DEF Held
    <3>3. rhs'[c] = rhs[c]
        BY <1>3, <1>5, <2>4
    <3> QED
        BY <2>2, <3>2, <3>3
  <2> QED
      BY <2>3, <2>4
<1>7. KeysAreLow'
  <2> SUFFICES ASSUME NEW c \in DOMAIN open'
               PROVE  open'[c][1] <= (Key(c))'[1] /\ open'[c][2] = (Key(c))'[2]
      BY Zenon DEF KeysAreLow
  <2>1. c \in Cells
      BY <1>3, <1>5
  <2>2. CASE c \in A
    <3>1. open'[c] = (Key(c))'
        BY <1>5, <2>2
    <3>2. (Key(c))' \in Keys
        BY <1>4, <1>5, <2>1, FactsHoldNext DEF Facts, KeyFact
    <3> QED
        BY <3>1, <3>2 DEF Keys
  <2>3. CASE c \notin A
    <3>1. c \in DOMAIN open /\ open'[c] = open[c] /\ g'[c] = g[c] /\ rhs'[c] = rhs[c]
        BY <1>5, <2>1, <2>3
    <3>2. open[c][1] <= Key(c)[1] /\ open[c][2] = Key(c)[2]
        BY <3>1 DEF Prepared, KeysAreLow
    <3>3. /\ Key(c)[1] \in Nat /\ (Key(c))'[1] \in Nat
          /\ Key(c)[1] <= (Key(c))'[1] /\ (Key(c))'[2] = Key(c)[2]
        BY <1>3, <1>4, <1>5, <2>1, <3>1, KeysGrow
    <3>4. open[c][1] \in Nat
        BY <3>1 DEF Searched, Queued, Keys
    <3> QED
        BY <3>1, <3>2, <3>3, <3>4
  <2> QED
      BY <2>2, <2>3
<1>8. Ends'
    BY <1>1, <1>2, <1>5 DEF Prepared, Ends
<1> QED
    BY <1>6, <1>7, <1>8 DEF Prepared

\* The heuristic of two cells of the world is less than Inf.
LEMMA OctileIsSmall ==
    ASSUME NEW s \in World, NEW t \in World
    PROVE  Octile(s, t) \in Nat /\ Octile(s, t) <= Inf
<1>1. Width \in Nat \ {0} /\ Height \in Nat \ {0} /\ Margin \in Nat /\ UnknownCost \in Nat \ {0}
    BY DStarLiteAssumption
<1>2. s[1] \in 0 .. Width - 1 /\ s[2] \in 0 .. Height - 1
      /\ t[1] \in 0 .. Width - 1 /\ t[2] \in 0 .. Height - 1
    BY DEF World
<1>3. Distance(s[1], t[1]) \in 0 .. Span /\ Distance(s[2], t[2]) \in 0 .. Span
    BY <1>1, <1>2 DEF Distance, Span
<1>4. Span \in Nat \ {0}
    BY <1>1 DEF Span
<1>5. Octile(s, t) \in Nat /\ Octile(s, t) <= 17 * Span
    BY <1>3, <1>4 DEF Octile, Straight, Diagonal, Greater, Lesser
<1>6. Span * 1 <= Span * Span /\ Span * Span \in Nat
    BY <1>4, Grows, Times
<1>7. (Span * Span) * 1 <= (Span * Span) * UnknownCost /\ (Span * Span) * UnknownCost \in Nat
    BY <1>1, <1>6, Grows, Times
<1>8. Inf = 100 * ((Span * Span) * UnknownCost)
  <2>1. \A a \in Nat, b \in Nat : 100 * a * a * b = 100 * ((a * a) * b)
      OBVIOUS
  <2> QED
      BY <1>1, <1>4, <2>1 DEF Inf
<1> DEFINE x == Span * Span
           y == x * UnknownCost
<1>9. Span <= x /\ x <= y /\ x \in Nat /\ y \in Nat /\ Inf = 100 * y
    BY <1>4, <1>6, <1>7, <1>8
<1> HIDE DEF x, y
<1> QED
    BY <1>4, <1>5, <1>9

\* A search started anew is prepared.
LEMMA ResetPrepares ==
    ASSUME NEW s \in Starts, NEW t \in Goals, Reset(s, t)
    PROVE  Prepared'
<1> USE InfIsNat
<1>1. s \in World /\ t \in World /\ s \in Cells /\ t \in Cells
    BY WorldAssumption, WorldIsCells
<1>2. /\ bounds' = PlanningBounds(s, t) /\ start' = s /\ goal' = t /\ km' = 0
      /\ g' = [c \in Cells |-> Inf] /\ rhs' = [c \in Cells |-> IF c = t THEN 0 ELSE Inf]
      /\ open' = [c \in {t} |-> <<Octile(s, t), 0>>]
    BY DEF Reset
<1>3. /\ Searched' /\ goal' # None
      /\ \A c \in Window' : c # t => rhs'[c] = Inf
  <2>1. Searched' /\ goal' # None
      BY <1>2, ResetSearches
  <2>2. Window' \subseteq Cells
      BY <2>1 DEF Searched, Asked
  <2> QED
      BY <1>2, <2>1, <2>2
<1>4. s \in Window'
  <2>1. s = <<s[1], s[2]>> /\ s[1] \in Int /\ s[2] \in Int /\ t[1] \in Int /\ t[2] \in Int /\ Margin \in Nat
      BY <1>1, DStarLiteAssumption DEF World
  <2>2. /\ Lesser(s[1], t[1]) \in Int /\ Greater(s[1], t[1]) \in Int
        /\ Lesser(s[2], t[2]) \in Int /\ Greater(s[2], t[2]) \in Int
        /\ Lesser(s[1], t[1]) <= s[1] /\ s[1] <= Greater(s[1], t[1])
        /\ Lesser(s[2], t[2]) <= s[2] /\ s[2] <= Greater(s[2], t[2])
      BY <2>1 DEF Lesser, Greater
  <2>3. /\ bounds'[1] = Lesser(s[1], t[1]) - Margin /\ bounds'[2] = Lesser(s[2], t[2]) - Margin
        /\ bounds'[3] = Greater(s[1], t[1]) + Margin /\ bounds'[4] = Greater(s[2], t[2]) + Margin
      BY <1>2 DEF PlanningBounds
  <2>4. bounds' # None
      BY <1>3, WorldAssumption DEF Searched, Asked, Boxed
  <2>5. Window' = (bounds'[1] .. bounds'[3]) \X (bounds'[2] .. bounds'[4])
      BY <2>4 DEF Window
  <2>6. s[1] \in bounds'[1] .. bounds'[3] /\ s[2] \in bounds'[2] .. bounds'[4]
      BY <2>1, <2>2, <2>3
  <2> QED
      BY <2>1, <2>5, <2>6
<1>5. Egress'
    BY <1>2, <1>3, Zenon DEF Egress
<1>6. KeysAreLow'
  <2>1. Octile(s, t) \in Nat /\ Octile(s, t) <= Inf
      BY <1>1, OctileIsSmall
  <2>2. Lesser(g'[t], rhs'[t]) = 0
      BY <1>1, <1>2 DEF Lesser
  <2>3. (Key(t))' = <<Plus(0, Octile(s, t) + 0), 0>>
      BY <1>2, <2>2 DEF Key
  <2>4. Plus(0, Octile(s, t) + 0) = Octile(s, t)
      BY <2>1 DEF Plus, Lesser
  <2>5. open'[t] = <<Octile(s, t), 0>> /\ DOMAIN open' = {t}
      BY <1>2
  <2> QED
      BY <2>1, <2>3, <2>4, <2>5 DEF KeysAreLow
<1>7. Ends'
    BY <1>1, <1>2, <1>4 DEF Ends
<1> QED
    BY <1>5, <1>6, <1>7 DEF Prepared

\* Keys and ends of a search that is left alone but for the start.
LEMMA KeysAreLeft ==
    ASSUME Searched, Prepared, goal # None,
           UNCHANGED <<bounds, goal, g, rhs, open>>, start' \in Cells, start' \in Window, km' \in Nat,
           \A c \in Cells : Octile(start, c) + km <= Octile(start', c) + km'
    PROVE  KeysAreLow' /\ Ends'
<1>1. Asked /\ Numbers /\ Numbers' /\ km \in Nat /\ DOMAIN open \subseteq Cells
    BY DEF Searched, Asked, Numbers
<1>2. start \in Cells /\ Window' = Window
    BY <1>1, WorldIsCells, WorldAssumption DEF Asked, Window
<1>3. KeysAreLow'
  <2> SUFFICES ASSUME NEW c \in DOMAIN open
               PROVE  open[c][1] <= (Key(c))'[1] /\ open[c][2] = (Key(c))'[2]
      BY Zenon DEF KeysAreLow
  <2>1. c \in Cells
      BY <1>1
  <2>2. open[c][1] <= Key(c)[1] /\ open[c][2] = Key(c)[2]
      BY DEF Prepared, KeysAreLow
  <2>3. /\ Key(c)[1] \in Nat /\ (Key(c))'[1] \in Nat
        /\ Key(c)[1] <= (Key(c))'[1] /\ (Key(c))'[2] = Key(c)[2]
    <3>1. g'[c] = g[c] /\ rhs'[c] = rhs[c]
        OBVIOUS
    <3> QED
        BY <1>1, <1>2, <2>1, <3>1, KeysGrow
  <2>4. open[c][1] \in Nat
      BY DEF Searched, Queued, Keys
  <2> QED
      BY <2>2, <2>3, <2>4
<1>4. Ends'
    BY <1>2 DEF Prepared, Ends
<1> QED
    BY <1>3, <1>4

\* The clearances of a search that is left alone.
LEMMA EgressIsLeft ==
    ASSUME Searched, Egress, goal # None,
           UNCHANGED <<missed, bounds, goal, g, rhs, grid, states, peerForbidden>>,
           Affected(delta) \subseteq (Affected(delta))'
    PROVE  Egress'
<1>1. \A c : BaseState(c)' = BaseState(c)
    BY DEF BaseState
<1>2. Obstacles' = Obstacles
    BY <1>1 DEF Obstacles
<1>3. Window' = Window
    BY DEF Window
<1>4. (BlockedCells(peerForbidden))' = BlockedCells(peerForbidden)
    BY <1>2, <1>3, Zenon DEF BlockedCells
<1> SUFFICES ASSUME ~missed'
             PROVE  \E C \in {(BlockedCells(peerForbidden))'} :
                      \A c \in (Window' \cap C) \ ({goal'} \cup (Affected(delta))') :
                          rhs'[c] = Inf \/ rhs'[c] = (BestEgress(C, c))'
    BY Zenon DEF Egress
<1>6. PICK B \in {BlockedCells(peerForbidden)} :
        \A c \in (Window \cap B) \ ({goal} \cup Affected(delta)) :
            rhs[c] = Inf \/ rhs[c] = BestEgress(B, c)
    BY Zenon DEF Egress
<1>7. Boxed /\ Window \subseteq Cells
    BY DEF Searched, Asked
<1>8. ASSUME NEW c \in Window PROVE (BestEgress(B, c))' = BestEgress(B, c)
  <2> DEFINE D == {}
  <2>1. D \subseteq Cells /\ \A o \in D : c \notin Square(o, Reach + 1)
      OBVIOUS
  <2>2. \A o \in Cells \ D : grid'[o] = grid[o] /\ states'[o] = states[o]
      OBVIOUS
  <2>3. \A e \in Square(c, 1) \cap Window :
            (e \in B <=> e \in B) /\ (e \in peerForbidden <=> e \in peerForbidden')
      OBVIOUS
  <2> HIDE DEF D
  <2> QED
      BY <1>7, <2>1, <2>2, <2>3, EgressIsLocal
<1> QED
    BY <1>3, <1>4, <1>6, <1>8

\* A step that leaves the map and the search alone leaves it prepared.
LEMMA PreparedIsLeft ==
    ASSUME Searched, Prepared,
           UNCHANGED <<mapVars, searchVars, grid>>,
           Affected(delta) \subseteq (Affected(delta))'
    PROVE  Prepared'
<1>1. UNCHANGED <<missed, bounds, start, goal, km, g, rhs, open, grid, states, peerForbidden>>
    BY DEF mapVars, searchVars
<1>2. CASE goal = None
  <2>1. goal' = None
      BY <1>1, <1>2
  <2> QED
      BY <2>1, Zenon DEF Prepared, Egress, KeysAreLow, Ends
<1>3. CASE goal # None
  <2>1. Egress'
      BY <1>1, <1>3, EgressIsLeft DEF Prepared
  <2>2. start \in Cells /\ start \in Window /\ km \in Nat
      BY <1>3, WorldIsCells, WorldAssumption DEF Searched, Asked, Prepared, Ends
  <2>3. \A c \in Cells : Octile(start, c) + km <= Octile(start, c) + km
      BY <2>2, OctileIsNumber
  <2>4. KeysAreLow' /\ Ends'
      BY <1>1, <1>3, <2>2, <2>3, KeysAreLeft
  <2> QED
      BY <2>1, <2>4 DEF Prepared
<1> QED
    BY <1>2, <1>3

\* A blocked cell away from the changes of the map is held.
LEMMA HeldAway ==
    ASSUME Boxed, Window \subseteq Cells, bounds' = bounds, peerForbidden' = peerForbidden, g' = g,
           NEW D, D \subseteq Cells,
           \A o \in Cells \ D : grid'[o] = grid[o] /\ states'[o] = states[o],
           NEW c \in Window, c \notin Affected(D), c \notin Affected(delta),
           c \in (BlockedCells(peerForbidden))'
    PROVE  Held(c)
<1>1. c \in Int \X Int
    BY WindowIsGrid DEF Boxed
<1>2. ASSUME NEW e \in Square(c, 1) \cap Window
      PROVE  /\ \A o \in D : e \notin Square(o, Reach + 1)
             /\ e \in BlockedCells(peerForbidden) <=> e \in (BlockedCells(peerForbidden))'
  <2>1. \A o \in D : e \notin Square(o, Reach + 1)
      BY AwayFromChanges
  <2> QED
      BY <2>1, BlockingIsLocal
<1>3. c \in Square(c, 1)
    BY <1>1 DEF Square
<1>4. \A o \in Cells : o \in Square(o, Reach + 1)
  <2>1. \A o \in Cells : o = <<o[1], o[2]>> /\ o[1] \in Int /\ o[2] \in Int
      BY CellsAreGrid
  <2> QED
      BY <2>1, DStarLiteAssumption DEF Square
<1>5. ASSUME NEW d \in Neighbours(c) PROVE g'[d] = g[d] /\ states'[d] = states[d]
  <2>1. d \in Square(c, 1) \cap Window
      BY <1>1, NeighboursAreNear DEF Boxed
  <2>2. d \in Cells
      BY <2>1
  <2> QED
      BY <1>2, <1>4, <2>1, <2>2
<1>6. PICK B \in {BlockedCells(peerForbidden)} : TRUE
    OBVIOUS
<1>7. PICK C \in {(BlockedCells(peerForbidden))'} : TRUE
    OBVIOUS
<1>8. (BestEgress(C, c))' = BestEgress(B, c)
  <2>1. \A e \in Square(c, 1) \cap Window :
            (e \in B <=> e \in C) /\ (e \in peerForbidden <=> e \in peerForbidden')
      BY <1>2, <1>6, <1>7
  <2>2. \A o \in D : c \notin Square(o, Reach + 1)
      BY <1>2, <1>3
  <2>3. \A d \in Neighbours(c) : g'[d] = g[d] /\ states'[d] = states[d]
      BY <1>5
  <2> QED
      BY <2>1, <2>2, <2>3, EgressIsLocal
<1>9. c \in BlockedCells(peerForbidden)
    BY <1>2, <1>3
<1> QED
    BY <1>6, <1>7, <1>8, <1>9 DEF Held

\* A step that holds the blocked cells without an update.
LEMMA EgressIsHeld ==
    ASSUME Egress, goal # None, ~missed' => ~missed,
           bounds' = bounds, goal' = goal, rhs' = rhs,
           \A c \in (Window \cap (BlockedCells(peerForbidden))') \ ({goal} \cup (Affected(delta))') : Held(c)
    PROVE  Egress'
<1> SUFFICES ASSUME ~missed'
             PROVE  \E C \in {(BlockedCells(peerForbidden))'} :
                      \A c \in (Window' \cap C) \ ({goal'} \cup (Affected(delta))') :
                          rhs'[c] = Inf \/ rhs'[c] = (BestEgress(C, c))'
    BY Zenon DEF Egress
<1>1. Window' = Window
    BY DEF Window
<1>2. PICK C \in {(BlockedCells(peerForbidden))'} : TRUE
    OBVIOUS
<1>3. PICK B \in {BlockedCells(peerForbidden)} :
        \A c \in (Window \cap B) \ ({goal} \cup Affected(delta)) :
            rhs[c] = Inf \/ rhs[c] = BestEgress(B, c)
    BY Zenon DEF Egress
<1>4. ASSUME NEW c \in (Window \cap C) \ ({goal} \cup (Affected(delta))')
      PROVE  rhs[c] = Inf \/ rhs[c] = (BestEgress(C, c))'
  <2>1. Held(c)
      BY <1>2, <1>4
  <2>2. (BestEgress(C, c))' = BestEgress(B, c) /\ c \in B /\ c \notin Affected(delta)
      BY <1>2, <1>3, <2>1 DEF Held
  <2> QED
      BY <1>3, <2>2
<1> QED
    BY <1>1, <1>2, <1>4

\* A scan leaves the search prepared for the cells it is not due to update.
LEMMA ScanPrepares ==
    ASSUME IInv, Prepared, NEW n \in Novelties, Scan(n[1], n[2])
    PROVE  Prepared'
<1> DEFINE x == n[1]
<1>1. x \in Cells
    BY WorldAssumption, WorldIsCells
<1>2. /\ grid' = [grid EXCEPT ![x] = n[2]] /\ delta' = delta \cup {x}
      /\ UNCHANGED <<missed, bounds, start, goal, km, g, rhs, open, states, peerForbidden>>
    BY DEF Scan, PlannerIdle, searchVars, mapVars
<1>3. CASE goal = None
  <2>1. goal' = None
      BY <1>2, <1>3
  <2> QED
      BY <2>1, Zenon DEF Prepared, Egress, KeysAreLow, Ends
<1>4. CASE goal # None
  <2>1. Boxed /\ Window \subseteq Cells /\ start \in Cells /\ start \in Window /\ km \in Nat
      BY <1>4, WorldIsCells, WorldAssumption DEF IInv, Searched, Asked, Prepared, Ends
  <2>2. \A c \in Cells : Octile(start, c) + km <= Octile(start, c) + km
      BY <2>1, OctileIsNumber
  <2>3. KeysAreLow' /\ Ends'
      BY <1>2, <1>4, <2>1, <2>2, KeysAreLeft DEF IInv
  <2>4. (Affected(delta))' = Affected(delta')
      BY <1>2 DEF Affected, Inside, Neighbours
  <2> DEFINE D == {x}
  <2>5. D \subseteq Cells /\ Affected(delta) \subseteq Affected(delta') /\ Affected(D) \subseteq Affected(delta')
      BY <1>1, <1>2, AffectedGrows
  <2>6. \A o \in Cells \ D : grid'[o] = grid[o] /\ states'[o] = states[o]
      BY <1>2 DEF IInv, Sighted
  <2> HIDE DEF D
  <2>7. ASSUME NEW c \in (Window \cap (BlockedCells(peerForbidden))') \ ({goal} \cup (Affected(delta))')
        PROVE  Held(c)
    <3>1. c \in Window /\ c \notin Affected(D) /\ c \notin Affected(delta)
        BY <2>4, <2>5
    <3> QED
        BY <1>2, <2>1, <2>5, <2>6, <3>1, HeldAway
  <2>8. Egress'
      BY <1>2, <1>4, <2>7, EgressIsHeld DEF Prepared
  <2> QED
      BY <2>3, <2>8 DEF Prepared
<1> QED
    BY <1>3, <1>4

\* Peers that move leave it as it is.
LEMMA PeersMovePrepares ==
    ASSUME IInv, Prepared, NEW P, PeersMove(P)
    PROVE  Prepared'
<1>1. delta \subseteq delta' /\ UNCHANGED <<mapVars, searchVars, grid>>
    BY DEF PeersMove, PlannerIdle
<1>2. Affected(delta) \subseteq (Affected(delta))'
    BY <1>1, DeltaGrows DEF searchVars
<1> QED
    BY <1>1, <1>2, PreparedIsLeft DEF IInv

\* A delta that is dropped leaves the keys as they are.
LEMMA MissDeltaPrepares ==
    ASSUME IInv, Prepared, MissDelta
    PROVE  Prepared'
<1>1. UNCHANGED <<bounds, start, goal, km, g, rhs, open>> /\ missed' = TRUE
    BY DEF MissDelta
<1>2. CASE goal = None
  <2>1. goal' = None
      BY <1>1, <1>2
  <2> QED
      BY <2>1, Zenon DEF Prepared, Egress, KeysAreLow, Ends
<1>3. CASE goal # None
  <2>1. start \in Cells /\ start \in Window /\ km \in Nat
      BY <1>3, WorldIsCells, WorldAssumption DEF IInv, Searched, Asked, Prepared, Ends
  <2>2. \A c \in Cells : Octile(start, c) + km <= Octile(start, c) + km
      BY <2>1, OctileIsNumber
  <2>3. KeysAreLow' /\ Ends'
      BY <1>1, <1>3, <2>1, <2>2, KeysAreLeft DEF IInv
  <2>4. Egress'
      BY <1>1, Zenon DEF Egress
  <2> QED
      BY <2>3, <2>4 DEF Prepared
<1> QED
    BY <1>2, <1>3

\* A map delta that the planner takes.
LEMMA ChangesPrepare ==
    ASSUME IInv, Prepared, goal # None,
           bounds' = bounds, goal' = goal, start' \in Starts, start' \in Window, km' \in Nat, g' = g,
           \A c \in Cells : Octile(start, c) + km <= Octile(start', c) + km',
           missed' = missed, grid' = grid, peerForbidden' = peerForbidden,
           RecordChanges, delta' = {}, UpdateVertices(Affected(delta), open)
    PROVE  Prepared'
<1>1. Asked /\ Boxed /\ Numbers /\ Window \subseteq Cells
    BY DEF IInv, Searched, Asked
<1>2. delta \subseteq Cells
    BY DEF IInv, Sighted
<1>3. \A o \in Cells \ delta : grid'[o] = grid[o] /\ states'[o] = states[o]
    BY DEF RecordChanges
<1>4. ASSUME NEW c \in (Window \cap (BlockedCells(peerForbidden))')
                          \ ({goal} \cup (Affected(delta))' \cup Affected(delta))
      PROVE  Held(c)
    BY <1>1, <1>2, <1>3, <1>4, HeldAway
<1>5. Affected(delta) \subseteq Window
    BY <1>1, <1>2, AffectedIsInside
<1>6. \A c \in Cells \ Affected(delta) : c \in DOMAIN open <=> g'[c] # rhs[c]
    BY DEF IInv, Searched, QueueIsInconsistent
<1>7. open \in [DOMAIN open -> Keys] /\ DOMAIN open \subseteq Window /\ g' \in [Cells -> 0 .. Inf]
      /\ \A c \in DOMAIN open \ Affected(delta) : c \in DOMAIN open /\ open[c] = open[c] /\ g'[c] = g[c]
    BY <1>1 DEF IInv, Searched, Queued, Numbers
<1> QED
    BY <1>4, <1>5, <1>6, <1>7, UpdatePrepares DEF IInv

\* observe_changes prepares what it updates.
LEMMA ObserveChangesPrepares ==
    ASSUME IInv, Prepared, ObserveChanges
    PROVE  Prepared'
<1>1. /\ RecordChanges /\ delta' = {}
      /\ UNCHANGED <<grid, peerForbidden, missed, bounds, start, goal, km, g>>
      /\ IF bounds = None THEN UNCHANGED <<rhs, open>> ELSE UpdateVertices(Affected(delta), open)
    BY DEF ObserveChanges
<1>2. CASE goal = None
  <2>1. goal' = None
      BY <1>1, <1>2
  <2> QED
      BY <2>1, Zenon DEF Prepared, Egress, KeysAreLow, Ends
<1>3. CASE goal # None
  <2>1. bounds # None /\ start \in Starts /\ start \in Window /\ km \in Nat
      BY <1>3 DEF IInv, Searched, Asked, Prepared, Ends
  <2>2. start \in Cells
      BY <2>1, WorldIsCells, WorldAssumption
  <2>3. \A c \in Cells : Octile(start, c) + km <= Octile(start, c) + km
      BY <2>1, <2>2, OctileIsNumber
  <2> QED
      BY <1>1, <1>3, <2>1, <2>3, ChangesPrepare
<1> QED
    BY <1>2, <1>3

\* A blocked cell whose surroundings keep their values and their peers is held.
LEMMA HeldStill ==
    ASSUME Boxed, Window \subseteq Cells, bounds' = bounds, grid' = grid, states' = states,
           NEW c \in Window, c \notin Affected(delta), c \in (BlockedCells(peerForbidden))',
           \A e \in Square(c, 1) \cap Window :
               /\ e \in BlockedCells(peerForbidden) <=> e \in (BlockedCells(peerForbidden))'
               /\ e \in peerForbidden <=> e \in peerForbidden',
           \A d \in Neighbours(c) : g'[d] = g[d]
    PROVE  Held(c)
<1>1. PICK B \in {BlockedCells(peerForbidden)} : TRUE
    OBVIOUS
<1>2. PICK C \in {(BlockedCells(peerForbidden))'} : TRUE
    OBVIOUS
<1>3. c \in Square(c, 1)
    BY WindowIsGrid DEF Boxed, Square
<1> DEFINE D == {}
<1>4. D \subseteq Cells /\ \A o \in D : c \notin Square(o, Reach + 1)
    OBVIOUS
<1>5. \A o \in Cells \ D : grid'[o] = grid[o] /\ states'[o] = states[o]
    OBVIOUS
<1> HIDE DEF D
<1>6. \A e \in Square(c, 1) \cap Window :
          (e \in B <=> e \in C) /\ (e \in peerForbidden <=> e \in peerForbidden')
    BY <1>1, <1>2
<1>7. \A d \in Neighbours(c) : g'[d] = g[d] /\ states'[d] = states[d]
    OBVIOUS
<1>8. (BestEgress(C, c))' = BestEgress(B, c)
    BY <1>4, <1>5, <1>6, <1>7, EgressIsLocal
<1> QED
    BY <1>1, <1>2, <1>3, <1>8 DEF Held

\* Blocked cells depend on the map, the window and the peers.
LEMMA BlockingIsLeft ==
    ASSUME bounds' = bounds, grid' = grid, states' = states
    PROVE  /\ peerForbidden' = peerForbidden =>
                (BlockedCells(peerForbidden))' = BlockedCells(peerForbidden)
           /\ \A e : (e \in peerForbidden <=> e \in peerForbidden') =>
                (e \in BlockedCells(peerForbidden) <=> e \in (BlockedCells(peerForbidden))')
           /\ (BlockedCells({}))' = BlockedCells({})
<1>1. \A o : BaseState(o)' = BaseState(o)
    BY DEF BaseState
<1>2. Obstacles' = Obstacles
    BY <1>1 DEF Obstacles
<1>3. Window' = Window
    BY DEF Window
<1> DEFINE F == UNION {Footprint(o) : o \in Obstacles}
<1>4. (BlockedCells(peerForbidden))' = Window \cap (peerForbidden' \cup F)
    BY <1>2, <1>3, Zenon DEF BlockedCells
<1>5. BlockedCells(peerForbidden) = Window \cap (peerForbidden \cup F)
    BY Zenon DEF BlockedCells
<1>6. (BlockedCells({}))' = BlockedCells({})
    BY <1>2, <1>3, Zenon DEF BlockedCells
<1> HIDE DEF F
<1> QED
    BY <1>4, <1>5, <1>6

\* set_peer_forbidden_cells prepares what it updates.
LEMMA SetPeerForbiddenCellsPrepares ==
    ASSUME IInv, Prepared, SetPeerForbiddenCells
    PROVE  Prepared'
<1> DEFINE changed == (peerForbidden \ peers) \cup (peers \ peerForbidden)
<1> DEFINE A == {c \in changed : Inside(c)} \cup UNION {Neighbours(c) : c \in changed}
<1>1. /\ peerForbidden' = peers
      /\ UNCHANGED <<states, missed, bounds, start, goal, km, g>>
      /\ grid' = grid /\ delta' = delta
      /\ IF bounds = None THEN UNCHANGED <<rhs, open>> ELSE UpdateVertices(A, open)
    BY DEF SetPeerForbiddenCells, worldVars
<1>2. changed \subseteq Cells
    BY DEF Sighted, IInv
<1>3. CASE goal = None
  <2>1. goal' = None
      BY <1>1, <1>3
  <2> QED
      BY <2>1, Zenon DEF Prepared, Egress, KeysAreLow, Ends
<1>4. CASE goal # None
  <2>1. bounds # None /\ Asked /\ Boxed /\ Numbers /\ Window \subseteq Cells
      BY <1>4 DEF Searched, IInv, Asked
  <2>2. \A c \in changed : c \in Int \X Int
      BY <1>2, CellsAreGrid
  <2>3. A \subseteq Window
      BY <2>1, <2>2, WindowIsGrid, NeighboursAreNear DEF Boxed
  <2>4. ASSUME NEW c \in (Window \cap (BlockedCells(peerForbidden))')
                            \ ({goal} \cup (Affected(delta))' \cup A)
        PROVE  Held(c)
    <3>1. c \in Int \X Int
        BY <2>1, WindowIsGrid DEF Boxed
    <3>2. ASSUME NEW e \in Square(c, 1) \cap Window, e \in changed
          PROVE  FALSE
      <4>1. CASE e = c
          BY <2>1, <2>2, <2>4, <3>1, <3>2, <4>1, WindowIsGrid DEF Boxed
      <4>2. CASE e # c
        <5>1. e \in Neighbours(c)
            BY <2>1, <3>1, <4>2, NeighboursAreNear DEF Boxed
        <5>2. c \in Neighbours(e)
            BY <2>1, <5>1, NeighboursAreMutual DEF Boxed
        <5> QED
            BY <2>4, <3>2, <5>2
      <4> QED
          BY <4>1, <4>2
    <3>3. \A e \in Square(c, 1) \cap Window : e \in peerForbidden <=> e \in peerForbidden'
        BY <1>1, <3>2
    <3>4. c \notin Affected(delta)
      <4>1. (Affected(delta))' = Affected(delta)
          BY <1>1 DEF Affected, Inside, Neighbours
      <4> QED
          BY <2>4, <4>1
    <3> HIDE DEF A, changed
    <3>5. \A e \in Square(c, 1) \cap Window :
               /\ e \in BlockedCells(peerForbidden) <=> e \in (BlockedCells(peerForbidden))'
               /\ e \in peerForbidden <=> e \in peerForbidden'
        BY <1>1, <3>3, BlockingIsLeft
    <3> QED
        BY <1>1, <2>1, <2>4, <3>4, <3>5, HeldStill
  <2>5. /\ \A c \in Cells \ A : c \in DOMAIN open <=> g'[c] # rhs[c]
        /\ open \in [DOMAIN open -> Keys] /\ DOMAIN open \subseteq Window
        /\ g' \in [Cells -> 0 .. Inf] /\ start' \in Starts /\ start' \in Window /\ km' \in Nat
        /\ \A c \in DOMAIN open \ A : c \in DOMAIN open /\ open[c] = open[c] /\ g'[c] = g[c]
      BY <1>1, <1>4, <2>1 DEF Searched, IInv, QueueIsInconsistent, Queued, Numbers, Asked, Prepared, Ends
  <2>6. UpdateVertices(A, open)
      BY <1>1, <2>1
  <2>7. start \in Cells /\ km \in Nat
      BY <2>1, WorldIsCells, WorldAssumption DEF IInv, Searched, Asked
  <2>8. \A c \in Cells : Octile(start, c) + km <= Octile(start', c) + km'
      BY <1>1, <2>7, OctileIsNumber
  <2> HIDE DEF A
  <2> QED
      BY <1>1, <1>4, <2>3, <2>4, <2>5, <2>6, <2>8, UpdatePrepares DEF IInv
<1> QED
    BY <1>3, <1>4

\* Expanding a cell prepares what it updates.
LEMMA ExpansionPrepares ==
    ASSUME IInv, Prepared, goal # None, NEW c \in DOMAIN open, NEW v \in 0 .. Inf,
           UNCHANGED <<worldVars, mapVars, missed, bounds, start, goal, km>>,
           g' = [g EXCEPT ![c] = v],
           NEW A, (A = Neighbours(c) /\ v = rhs[c]) \/ A = {c} \cup Neighbours(c),
           UpdateVertices(A, Without(open, {c}))
    PROVE  Prepared'
<1>1. Asked /\ Boxed /\ Numbers /\ Queued /\ c \in Window /\ c \in Cells /\ km \in Nat
      /\ Window \subseteq Cells /\ start \in Window
    BY DEF IInv, Searched, Asked, Prepared, Ends
<1>2. c \in Int \X Int
    BY <1>1, CellsAreGrid
<1>3. Neighbours(c) \subseteq Window
    BY <1>1, <1>2, NeighboursAreNear DEF Boxed
<1>4. A \subseteq Window
    BY <1>1, <1>3
<1>5. grid' = grid /\ delta' = delta /\ states' = states /\ peerForbidden' = peerForbidden
      /\ missed' = missed /\ bounds' = bounds /\ start' = start /\ goal' = goal /\ km' = km
    BY DEF worldVars, mapVars
<1>6. /\ g' \in [Cells -> 0 .. Inf]
      /\ \A d \in Cells : d # c => g'[d] = g[d]
      /\ g'[c] = v
    BY <1>1 DEF Numbers
<1>7. (BlockedCells(peerForbidden))' = BlockedCells(peerForbidden)
    BY <1>5, BlockingIsLeft
<1>8. (Affected(delta))' = Affected(delta)
    BY <1>5 DEF Affected, Inside, Neighbours
<1>9. ASSUME NEW d \in (Window \cap (BlockedCells(peerForbidden))')
                          \ ({goal} \cup (Affected(delta))' \cup A)
      PROVE  Held(d)
  <2>1. c \notin Neighbours(d)
    <3>1. d \notin Neighbours(c)
        BY <1>9
    <3> QED
        BY <1>1, <1>9, <3>1, NeighboursAreMutual DEF Boxed
  <2>2. d \in Int \X Int /\ d \in Window
      BY <1>1, CellsAreGrid
  <2>3. Neighbours(d) \subseteq Cells
      BY <1>1, <2>2, NeighboursAreNear DEF Boxed
  <2>4. \A e \in Neighbours(d) : g'[e] = g[e]
      BY <1>6, <2>1, <2>3
  <2>5. \A e \in Square(d, 1) \cap Window :
               /\ e \in BlockedCells(peerForbidden) <=> e \in (BlockedCells(peerForbidden))'
               /\ e \in peerForbidden <=> e \in peerForbidden'
      BY <1>5, <1>7
  <2> QED
      BY <1>1, <1>5, <1>8, <1>9, <2>2, <2>4, <2>5, HeldStill
<1> DEFINE queue == Without(open, {c})
<1>10. DOMAIN queue = DOMAIN open \ {c} /\ \A d \in DOMAIN open \ {c} : queue[d] = open[d]
    BY DEF Without
<1>11. queue \in [DOMAIN queue -> Keys]
  <2>1. queue = [d \in DOMAIN open \ {c} |-> open[d]]
      BY DEF Without
  <2>2. \A d \in DOMAIN open : open[d] \in Keys
      BY <1>1 DEF Queued
  <2> HIDE DEF queue
  <2> QED
      BY <1>10, <2>1, <2>2
<1>12. \A d \in Cells \ A : d \in DOMAIN queue <=> g'[d] # rhs[d]
    BY <1>1, <1>3, <1>6, <1>10 DEF IInv, Searched, QueueIsInconsistent
<1>13. DOMAIN queue \subseteq Window
    BY <1>10 DEF IInv, Searched
<1>14. start' \in Starts /\ km' \in Nat /\ start' \in Window
    BY <1>1, <1>5 DEF Asked
<1>15. UpdateVertices(A, queue)
    OBVIOUS
<1>16. \A d \in DOMAIN queue \ A : d \in DOMAIN open /\ queue[d] = open[d] /\ g'[d] = g[d]
    BY <1>1, <1>6, <1>10 DEF IInv, Searched
<1>17. start \in Cells
    BY <1>1, WorldIsCells, WorldAssumption DEF Asked
<1>18. \A d \in Cells : Octile(start, d) + km <= Octile(start', d) + km'
    BY <1>1, <1>5, <1>17, OctileIsNumber
<1> HIDE DEF queue
<1> QED
    BY <1>4, <1>5, <1>6, <1>9, <1>11, <1>12, <1>13, <1>14, <1>15, <1>16, <1>18, UpdatePrepares DEF IInv

\* An expansion keeps the search prepared.
LEMMA ExpandPrepares ==
    ASSUME IInv, Prepared, Expand
    PROVE  Prepared'
<1>1. /\ pc = "search" /\ DOMAIN open # {}
      /\ UNCHANGED <<worldVars, mapVars, missed, bounds, start, goal, km>>
    BY DEF Expand, Searching, MayExpand
<1>2. goal # None /\ Asked
    BY <1>1 DEF IInv, Called, Searched, Asked
<1>3. Top \in DOMAIN open /\ Top \in Cells
    BY <1>1, <1>2, TopIsQueued DEF IInv, Searched, Asked
<1>4. CASE KeyLess(open[Top], Key(Top))
  <2>1. open' = [open EXCEPT ![Top] = Key(Top)] /\ g' = g /\ rhs' = rhs
      BY <1>4 DEF Expand
  <2>2. start \in Cells /\ km \in Nat /\ Numbers
      BY <1>2, WorldAssumption, WorldIsCells DEF IInv, Searched, Asked
  <2>3. Key(Top) \in Keys
      BY <1>3, <2>2, KeyIsKey
  <2>4. \A c : (Key(c))' = Key(c)
      BY <1>1, <2>1 DEF Key
  <2>5. KeysAreLow'
    <3> SUFFICES ASSUME NEW c \in DOMAIN open
                 PROVE  open'[c][1] <= Key(c)[1] /\ open'[c][2] = Key(c)[2]
        BY <2>1, <2>4, Zenon DEF KeysAreLow
    <3>1. open[c][1] <= Key(c)[1] /\ open[c][2] = Key(c)[2]
        BY <1>2 DEF Prepared, KeysAreLow
    <3>2. c = Top => open'[c] = Key(c)
        BY <2>1
    <3>3. c # Top => open'[c] = open[c]
        BY <2>1
    <3> QED
        BY <2>3, <3>1, <3>2, <3>3 DEF Keys
  <2>6. Affected(delta) \subseteq (Affected(delta))'
      BY <1>1, DeltaGrows DEF worldVars
  <2>7. Egress'
      BY <1>1, <1>2, <2>1, <2>6, EgressIsLeft DEF IInv, Prepared, worldVars, mapVars
  <2>8. Ends'
      BY <1>1, <2>1 DEF Prepared, Ends, Window
  <2> QED
      BY <2>5, <2>7, <2>8 DEF Prepared
<1>5. CASE ~KeyLess(open[Top], Key(Top)) /\ g[Top] > rhs[Top]
  <2>1. g' = [g EXCEPT ![Top] = rhs[Top]] /\ UpdateVertices(Neighbours(Top), Without(open, {Top}))
      BY <1>5, Zenon DEF Expand
  <2>2. rhs[Top] \in 0 .. Inf
      BY <1>3 DEF IInv, Searched, Numbers
  <2> QED
      BY <1>1, <1>2, <1>3, <2>1, <2>2, ExpansionPrepares
<1>6. CASE ~KeyLess(open[Top], Key(Top)) /\ ~(g[Top] > rhs[Top])
  <2>1. g' = [g EXCEPT ![Top] = Inf]
        /\ UpdateVertices({Top} \cup Neighbours(Top), Without(open, {Top}))
      BY <1>6, Zenon DEF Expand
  <2>2. Inf \in 0 .. Inf
      BY InfIsNat
  <2> QED
      BY <1>1, <1>2, <1>3, <2>1, <2>2, ExpansionPrepares
<1> QED
    BY <1>4, <1>5, <1>6

\* A call that begins prepares what it updates, wherever the start has moved to.
LEMMA BeginSearchPrepares ==
    ASSUME IInv, Prepared, NEW s \in Starts, NEW t \in Goals, NEW budget, BeginSearch(s, t, budget)
    PROVE  Prepared'
<1>1. RecordChanges /\ delta' = {} /\ grid' = grid /\ peers' = peers /\ peerForbidden' = peerForbidden
    BY DEF BeginSearch, Asks
<1>2. CASE ~(goal = t /\ Inside(s))
  <2>1. Reset(s, t)
      BY <1>2, Zenon DEF BeginSearch
  <2> QED
      BY <2>1, ResetPrepares
<1>3. CASE goal = t /\ Inside(s)
  <2>1. /\ km' = km + Octile(start, s) /\ start' = s
        /\ UNCHANGED <<missed, bounds, goal, g>>
        /\ CASE delta # {} -> UpdateVertices(Affected(delta), open)
             [] delta = {} /\ position # s /\ s \in BlockedCells(peerForbidden) ->
                    UpdateVertices({s}, open)
             [] OTHER -> UNCHANGED <<rhs, open>>
      BY <1>3, Zenon DEF BeginSearch
  <2>2. s \in Cells /\ goal # None
      BY <1>3, WorldAssumption, WorldIsCells
  <2>3. Asked /\ Boxed /\ Numbers /\ Queued /\ start \in Cells /\ km \in Nat /\ Window \subseteq Cells
      BY <2>2, WorldAssumption, WorldIsCells DEF IInv, Searched, Asked
  <2>4. s \in Window
      BY <1>3, <2>2, <2>3, CellsAreGrid, WindowIsGrid DEF Boxed
  <2>5. km' \in Nat /\ \A c \in Cells : Octile(start, c) + km <= Octile(start', c) + km'
    <3> SUFFICES ASSUME NEW c \in Cells
                 PROVE  km' \in Nat /\ Octile(start, c) + km <= Octile(s, c) + km'
        BY <2>1, <2>2
    <3>1. /\ Octile(start, s) \in Nat /\ Octile(start, c) \in Nat /\ Octile(s, c) \in Nat
          /\ Octile(start, c) <= Octile(start, s) + Octile(s, c)
        BY <2>2, <2>3, CellsAreGrid, OctileIsMetric
    <3> QED
        BY <2>1, <2>3, <3>1
  <2>6. CASE delta # {}
    <3>1. UpdateVertices(Affected(delta), open)
        BY <2>1, <2>6, Zenon
    <3> QED
        BY <1>1, <2>1, <2>2, <2>4, <2>5, <3>1, ChangesPrepare
  <2>7. CASE delta = {}
    <3>1. states' = states
      <4>1. states' = [c \in Cells |-> states[c]]
          BY <1>1, <2>7 DEF RecordChanges
      <4> QED
          BY <4>1 DEF IInv, Sighted
    <3>2. (Affected(delta))' = Affected(delta)
        BY <1>1, <2>1, <2>7 DEF Affected, Inside, Neighbours
    <3>3. CASE UNCHANGED <<rhs, open>>
      <4>1. Egress'
          BY <1>1, <2>1, <2>2, <3>1, <3>2, <3>3, EgressIsLeft DEF IInv, Prepared
      <4>2. KeysAreLow' /\ Ends'
          BY <2>1, <2>2, <2>4, <2>5, <3>3, KeysAreLeft DEF IInv
      <4> QED
          BY <4>1, <4>2 DEF Prepared
    <3>4. CASE UpdateVertices({s}, open)
      <4> DEFINE A == {s}
      <4>1. (BlockedCells(peerForbidden))' = BlockedCells(peerForbidden)
          BY <1>1, <2>1, <3>1, BlockingIsLeft
      <4>2. ASSUME NEW c \in (Window \cap (BlockedCells(peerForbidden))')
                              \ ({goal} \cup (Affected(delta))' \cup A)
            PROVE  Held(c)
        <5>1. \A e \in Square(c, 1) \cap Window :
                 /\ e \in BlockedCells(peerForbidden) <=> e \in (BlockedCells(peerForbidden))'
                 /\ e \in peerForbidden <=> e \in peerForbidden'
            BY <1>1, <4>1
        <5>2. \A d \in Neighbours(c) : g'[d] = g[d]
            BY <2>1
        <5> QED
            BY <1>1, <2>1, <2>3, <3>1, <3>2, <4>2, <5>1, <5>2, HeldStill
      <4>3. /\ \A c \in Cells \ A : c \in DOMAIN open <=> g'[c] # rhs[c]
            /\ open \in [DOMAIN open -> Keys] /\ DOMAIN open \subseteq Window
            /\ g' \in [Cells -> 0 .. Inf] /\ start' \in Starts /\ start' \in Window /\ A \subseteq Window
            /\ UpdateVertices(A, open)
            /\ \A c \in DOMAIN open \ A : c \in DOMAIN open /\ open[c] = open[c] /\ g'[c] = g[c]
          BY <2>1, <2>3, <2>4, <3>4 DEF IInv, Searched, QueueIsInconsistent, Queued, Numbers
      <4> HIDE DEF A
      <4> QED
          BY <2>1, <2>2, <2>5, <4>2, <4>3, UpdatePrepares DEF IInv
    <3> QED
        BY <2>1, <2>7, <3>3, <3>4, Zenon
  <2> QED
      BY <2>6, <2>7
<1> QED
    BY <1>2, <1>3

\* A call that goes on with a probe leaves the map as it is.
LEMMA BeginProbeLeaves ==
    ASSUME IInv, NEW s \in Starts, NEW t \in Goals, NEW budget, BeginProbe(s, t, budget)
    PROVE  /\ UNCHANGED <<grid, mapVars, searchVars, delta, probeVars>>
           /\ delta = {} /\ probe # None /\ position' = start
<1>1. /\ Asks(s, t) /\ Probes(s, t) /\ UNCHANGED <<searchVars, probeVars>>
      /\ delta = {} /\ delta' = {} /\ probe = <<s, t, s>> /\ position' = s
      /\ RecordChanges /\ grid' = grid /\ peerForbidden' = peerForbidden
    BY DEF BeginProbe, Asks, Probes
<1>2. states' = states
  <2>1. states' = [c \in Cells |-> states[c]]
      BY <1>1 DEF RecordChanges
  <2> QED
      BY <2>1 DEF IInv, Sighted
<1>3. probe # None
    BY <1>1, WorldAssumption, WorldIsCells
<1>4. s = start
    BY <1>1, <1>3 DEF IInv, Called
<1> QED
    BY <1>1, <1>2, <1>3, <1>4 DEF mapVars

\* A concluded search is left as it is or started anew.
LEMMA ConcludeCases ==
    ASSUME Conclude
    PROVE  \/ /\ ExtractPath # <<>>
              /\ result' = "ready" /\ path' = ExtractPath /\ pc' = "idle"
              /\ UNCHANGED <<searchVars, probeVars>>
           \/ Reset(start, goal) /\ Suspend
           \/ /\ ExtractPath = <<>> /\ ~CanRecover /\ g[start] >= Inf /\ peerForbidden # {}
              /\ probe' = <<start, goal, position>> /\ frontier' = <<start>> /\ visited' = {start}
              /\ pc' = "probe" /\ UNCHANGED <<searchVars, answerVars>>
           \/ /\ ExtractPath = <<>> /\ ~CanRecover /\ ~(g[start] >= Inf /\ peerForbidden # {})
              /\ Fail(IF g[start] >= Inf THEN "search_exhausted" ELSE "path_extraction", FALSE)
              /\ UNCHANGED <<searchVars, probeVars>>
<1>1. CASE ExtractPath # <<>>
    BY <1>1, Zenon DEF Conclude
<1>2. CASE ExtractPath = <<>> /\ CanRecover
    BY <1>2, Zenon DEF Conclude
<1>3. CASE ExtractPath = <<>> /\ ~CanRecover /\ g[start] >= Inf /\ peerForbidden # {}
    BY <1>3, Zenon DEF Conclude
<1>4. CASE ExtractPath = <<>> /\ ~CanRecover /\ ~(g[start] >= Inf /\ peerForbidden # {})
    BY <1>4, Zenon DEF Conclude
<1> QED
    BY <1>1, <1>2, <1>3, <1>4, Zenon

\* Every action keeps the search prepared.
LEMMA NextPrepares ==
    ASSUME IInv, Prepared, [Next]_vars
    PROVE  Prepared'
<1>1. CASE UNCHANGED <<mapVars, searchVars, grid, delta>>
  <2>1. bounds' = bounds /\ delta \subseteq delta'
      BY <1>1 DEF searchVars
  <2>2. Affected(delta) \subseteq (Affected(delta))'
      BY <2>1, DeltaGrows
  <2> QED
      BY <1>1, <2>2, PreparedIsLeft DEF IInv
<1>2. ASSUME NEW n \in Novelties, Scan(n[1], n[2]) PROVE Prepared'
    BY <1>2, ScanPrepares
<1>3. ASSUME NEW P \in PeerAreas, PeersMove(P) PROVE Prepared'
    BY <1>3, PeersMovePrepares
<1>4. CASE MissDelta
    BY <1>4, MissDeltaPrepares
<1>5. CASE Call
  <2>1. CASE SetPeerForbiddenCells
      BY <2>1, SetPeerForbiddenCellsPrepares
  <2>2. CASE ObserveChanges
      BY <2>2, ObserveChangesPrepares
  <2>3. CASE RecoverUnusablePlan
    <3>1. goal # None /\ Reset(start, goal)
        BY <2>3 DEF RecoverUnusablePlan, CanRecover
    <3> QED
        BY <3>1, ResetPrepares DEF IInv, Searched, Asked
  <2>4. CASE AcceptPlan
      BY <1>1, <2>4 DEF AcceptPlan, worldVars
  <2>5. ASSUME NEW s \in Starts, NEW t \in Goals, RestartPlan(s, t) PROVE Prepared'
      BY <2>5, ResetPrepares DEF RestartPlan
  <2>6. ASSUME NEW s \in Starts, NEW t \in Goals, NEW n \in Budgets, BeginSearch(s, t, n)
        PROVE  Prepared'
      BY <2>6, BeginSearchPrepares
  <2>7. ASSUME NEW s \in Starts, NEW t \in Goals, NEW n \in Budgets, BeginProbe(s, t, n)
        PROVE  Prepared'
      BY <1>1, <2>7, BeginProbeLeaves
  <2> QED
      BY <1>5, <2>1, <2>2, <2>3, <2>4, <2>5, <2>6, <2>7 DEF Call, Advance
<1>6. CASE Run
  <2>1. CASE Expand
      BY <2>1, ExpandPrepares
  <2>2. CASE SuspendSearch
      BY <1>1, <2>2 DEF SuspendSearch, worldVars
  <2>3. CASE Conclude
    <3>1. UNCHANGED <<worldVars, mapVars>> /\ start \in Starts /\ goal \in Goals
        BY <2>3 DEF Conclude, IInv, Called, Searched, Asked
    <3>2. CASE UNCHANGED searchVars
        BY <1>1, <3>1, <3>2 DEF worldVars
    <3>3. CASE Reset(start, goal)
        BY <3>1, <3>3, ResetPrepares
    <3> QED
        BY <2>3, <3>2, <3>3, ConcludeCases
  <2>4. CASE ProbeFails
      BY <1>1, <2>4 DEF ProbeFails, worldVars
  <2>5. CASE ProbeStep
    <3>1. UNCHANGED <<worldVars, mapVars, searchVars>>
        BY <2>5 DEF ProbeStep
    <3> QED
        BY <1>1, <3>1 DEF worldVars
  <2>6. CASE SuspendProbe
      BY <1>1, <2>6 DEF SuspendProbe, worldVars
  <2> QED
      BY <1>6, <2>1, <2>2, <2>3, <2>4, <2>5, <2>6 DEF Run
<1>7. CASE UNCHANGED vars
    BY <1>1, <1>7 DEF vars, worldVars
<1> QED
    BY <1>2, <1>3, <1>4, <1>5, <1>6, <1>7 DEF Next

-----------------------------------------------------------------------------
(* Sequences of cells.                                                        *)

\* The cells of a sequence.
Members(s) == {s[i] : i \in DOMAIN s}

\* One more cell.
LEMMA MembersGrow ==
    ASSUME NEW V, NEW s \in Seq(V), NEW x \in V
    PROVE  Append(s, x) \in Seq(V) /\ Members(Append(s, x)) = Members(s) \cup {x}
<1> DEFINE r == Append(s, x)
<1>1. /\ r \in Seq(V) /\ Len(s) \in Nat /\ DOMAIN s = 1 .. Len(s) /\ DOMAIN r = 1 .. Len(s) + 1
      /\ r[Len(s) + 1] = x /\ \A i \in 1 .. Len(s) : r[i] = s[i]
    OBVIOUS
<1> HIDE DEF r
<1>2. \A i \in 1 .. Len(s) + 1 : i = Len(s) + 1 \/ i \in 1 .. Len(s)
    BY <1>1
<1>3. \A i \in 1 .. Len(s) : i \in 1 .. Len(s) + 1
    BY <1>1
<1>4. Len(s) + 1 \in 1 .. Len(s) + 1
    BY <1>1
<1>5. Members(r) \subseteq Members(s) \cup {x}
    BY <1>1, <1>2 DEF Members
<1>6. Members(s) \subseteq Members(r) /\ x \in Members(r)
    BY <1>1, <1>3, <1>4 DEF Members
<1> QED
    BY <1>1, <1>5, <1>6 DEF r

\* Selected selects the cells of a sequence that are in a set.
LEMMA SelectedAre ==
    ASSUME NEW V, NEW s \in Seq(V), NEW S
    PROVE  Selected(s, S) \in Seq(V) /\ Members(Selected(s, S)) = Members(s) \cap S
<1> DEFINE N == Len(s)
           X == Seq(V)
           a == <<>>
           E(q, k) == IF s[k] \in S THEN Append(q, s[k]) ELSE q
           G == [p \in Nat \X X |-> IF p[1] \in 1 .. N THEN E(p[2], p[1]) ELSE p[2]]
           Def(f) == f = [k \in 0 .. N |-> IF k = 0 THEN a ELSE E(f[k - 1], k)]
<1>1. N \in Nat /\ DOMAIN s = 1 .. N /\ \A k \in 1 .. N : s[k] \in V
    OBVIOUS
<1>2. a \in X
    OBVIOUS
<1>3. \A q \in X, k \in 1 .. N : E(q, k) \in X
    BY <1>1
<1> HIDE DEF E, X, N, a
<1>4. G \in [Nat \X X -> X]
    BY <1>3
<1>5. \E h : Iterating(h, X, a, N, G)
  <2> HIDE DEF G
  <2> QED
      BY <1>1, <1>2, <1>4, Iterates
<1>6. PICK h \in [0 .. N -> X] : h[0] = a /\ \A k \in 1 .. N : h[k] = G[<<k, h[k - 1]>>]
    BY <1>5 DEF Iterating
<1>7. \A k \in 1 .. N : h[k] = E(h[k - 1], k) /\ h[k - 1] \in X
  <2> SUFFICES ASSUME NEW k \in 1 .. N PROVE h[k] = E(h[k - 1], k) /\ h[k - 1] \in X
      OBVIOUS
  <2>1. h[k - 1] \in X /\ k \in Nat
      BY <1>1, <1>6
  <2> QED
      BY <1>6, <2>1
<1>8. h[0] = a
    BY <1>6
<1> HIDE DEF G
<1>9. Def(h)
  <2>1. \A k \in 0 .. N : h[k] = IF k = 0 THEN a ELSE E(h[k - 1], k)
    <3> SUFFICES ASSUME NEW k \in 0 .. N, k # 0 PROVE k \in 1 .. N
        BY <1>7, <1>8
    <3> QED
        BY <1>1
  <2>2. h = [k \in 0 .. N |-> h[k]]
      BY <1>6
  <2>3. [k \in 0 .. N |-> h[k]] = [k \in 0 .. N |-> IF k = 0 THEN a ELSE E(h[k - 1], k)]
      BY <2>1, Zenon
  <2> QED
      BY <2>2, <2>3, Zenon
<1>10. PICK f : Def(f) /\ Selected(s, S) = f[N]
  <2>1. Def(CHOOSE f : Def(f))
      BY <1>9, Zenon
  <2>2. Selected(s, S) = (CHOOSE f : Def(f))[N]
      BY Zenon DEF Selected, N, a, E
  <2> QED
      BY <2>1, <2>2, Zenon
<1>11. f[0] = a /\ \A k \in 1 .. N : f[k] = E(f[k - 1], k)
  <2>1. \A k \in 0 .. N : f[k] = IF k = 0 THEN a ELSE E(f[k - 1], k)
      BY <1>10
  <2>2. 0 \in 0 .. N /\ \A k \in 1 .. N : k \in 0 .. N /\ k # 0
      BY <1>1
  <2> QED
      BY <2>1, <2>2
<1> HIDE DEF Def
<1> DEFINE Upto(k) == {s[i] : i \in 1 .. k} \cap S
           K == {k \in 0 .. N : f[k] \in X /\ Members(f[k]) = Upto(k)}
<1>12. 0 \in K
  <2>1. Members(a) = {}
      BY DEF Members, a
  <2>2. Upto(0) = {}
    <3>1. 1 .. 0 = {}
        OBVIOUS
    <3> QED
        BY <3>1
  <2>3. f[0] \in X /\ 0 \in 0 .. N
      BY <1>1, <1>2, <1>11
  <2>4. Members(f[0]) = {}
      BY <1>11, <2>1
  <2> HIDE DEF Upto
  <2> QED
      BY <2>2, <2>3, <2>4
<1>13. ASSUME NEW k \in 0 .. N - 1, k \in K PROVE k + 1 \in K
  <2>1. k + 1 \in 1 .. N /\ (k + 1) - 1 = k /\ k + 1 \in 0 .. N
      BY <1>1
  <2>2. f[k + 1] = E(f[k], k + 1) /\ f[k] \in Seq(V) /\ Members(f[k]) = Upto(k)
      BY <1>11, <1>13, <2>1 DEF X
  <2>3. Upto(k + 1) = Upto(k) \cup ({s[k + 1]} \cap S)
    <3>1. \A i \in 1 .. k + 1 : i = k + 1 \/ i \in 1 .. k
        BY <1>1
    <3>2. k + 1 \in 1 .. k + 1 /\ \A i \in 1 .. k : i \in 1 .. k + 1
        BY <1>1
    <3> QED
        BY <3>1, <3>2
  <2>4. s[k + 1] \in V
      BY <1>1, <2>1
  <2>5. CASE s[k + 1] \in S
    <3>1. f[k + 1] = Append(f[k], s[k + 1])
        BY <2>2, <2>5 DEF E
    <3>2. f[k + 1] \in Seq(V) /\ Members(f[k + 1]) = Members(f[k]) \cup {s[k + 1]}
      <4> DEFINE q == f[k]
                 x == s[k + 1]
      <4>1. q \in Seq(V) /\ x \in V
          BY <2>2, <2>4
      <4> HIDE DEF q, x
      <4>2. Append(q, x) \in Seq(V) /\ Members(Append(q, x)) = Members(q) \cup {x}
          BY <4>1, MembersGrow
      <4> QED
          BY <3>1, <4>2 DEF q, x
    <3> HIDE DEF Upto
    <3>3. {s[k + 1]} \cap S = {s[k + 1]}
        BY <2>5
    <3> QED
        BY <2>1, <2>2, <2>3, <3>2, <3>3 DEF X
  <2>6. CASE s[k + 1] \notin S
    <3>1. f[k + 1] = f[k]
        BY <2>2, <2>6 DEF E
    <3> HIDE DEF Upto
    <3>2. {s[k + 1]} \cap S = {}
        BY <2>6
    <3>3. Upto(k + 1) = Upto(k)
        BY <2>3, <3>2
    <3> QED
        BY <2>1, <2>2, <3>1, <3>3 DEF X
  <2> QED
      BY <2>5, <2>6
<1>14. N \in K
  <2> HIDE DEF K
  <2>1. 0 .. N \subseteq K
      BY <1>1, <1>12, <1>13, CountingUp
  <2> QED
      BY <1>1, <2>1
<1>15. Members(s) = {s[i] : i \in 1 .. N}
    BY <1>1 DEF Members
<1> QED
    BY <1>10, <1>14, <1>15 DEF X

\* The eight cells around a cell are those next to it.
LEMMA AroundAreNear ==
    ASSUME NEW c \in Int \X Int
    PROVE  Around(c) \in Seq(Int \X Int) /\ {d \in Square(c, 1) : d # c} \subseteq Members(Around(c))
<1> DEFINE x == c[1]
           y == c[2]
<1>1. x \in Int /\ y \in Int /\ c = <<x, y>>
    OBVIOUS
<1>2. /\ Around(c)[1] = <<x - 1, y - 1>> /\ Around(c)[2] = <<x - 1, y>> /\ Around(c)[3] = <<x - 1, y + 1>>
      /\ Around(c)[4] = <<x, y - 1>> /\ Around(c)[5] = <<x, y + 1>>
      /\ Around(c)[6] = <<x + 1, y - 1>> /\ Around(c)[7] = <<x + 1, y>> /\ Around(c)[8] = <<x + 1, y + 1>>
    BY <1>1 DEF Around, Moves
<1>3. Around(c) = [i \in 1 .. 8 |-> Around(c)[i]]
    BY DEF Around
<1>4. \A i \in 1 .. 8 : i = 1 \/ i = 2 \/ i = 3 \/ i = 4 \/ i = 5 \/ i = 6 \/ i = 7 \/ i = 8
    OBVIOUS
<1>5. \A i \in 1 .. 8 : Around(c)[i] \in Int \X Int
    BY <1>1, <1>2, <1>4
<1>6. Around(c) \in Seq(Int \X Int) /\ DOMAIN Around(c) = 1 .. 8
    BY <1>3, <1>5
<1>7. ASSUME NEW d \in Square(c, 1), d # c PROVE d \in Members(Around(c))
  <2>1. /\ d = <<d[1], d[2]>>
        /\ d[1] = x - 1 \/ d[1] = x \/ d[1] = x + 1
        /\ d[2] = y - 1 \/ d[2] = y \/ d[2] = y + 1
      BY <1>1 DEF Square
  <2>2. \E i \in 1 .. 8 : d = Around(c)[i]
      BY <1>1, <1>2, <1>7, <2>1
  <2> QED
      BY <1>6, <2>2 DEF Members
<1> QED
    BY <1>6, <1>7

-----------------------------------------------------------------------------
(* The probe, over the costs of the moves of its map.                         *)

\* A search from s by breadth: V is visited and F waits; nothing but what s leads to is
\* visited, and what has been waiting is not the goal and has all it leads to visited.
Explored(C, s, t, V, F) ==
    /\ s \in V /\ V \subseteq DOMAIN C /\ F \in Seq(V)
    /\ \A c \in V \ Members(F) : c # t /\ \A d \in DOMAIN C[c] : C[c][d] < Inf => d \in V
    /\ \A U \in SUBSET DOMAIN C :
          s \in U /\ (\A c \in U : \A d \in DOMAIN C[c] : C[c][d] < Inf => d \in U) => V \subseteq U

\* It begins with s.
LEMMA ExplorationBegins ==
    ASSUME NEW C, NEW t, NEW s \in DOMAIN C
    PROVE  Explored(C, s, t, {s}, <<s>>)
<1>1. <<s>> \in Seq({s}) /\ Members(<<s>>) = {s}
    BY DEF Members
<1> QED
    BY <1>1 DEF Explored

\* Two sequences joined have the cells of both.
LEMMA MembersJoin ==
    ASSUME NEW V, NEW q \in Seq(V), NEW r \in Seq(V)
    PROVE  q \o r \in Seq(V) /\ Members(q \o r) = Members(q) \cup Members(r)
<1> DEFINE j == q \o r
           m == Len(q)
           n == Len(r)
<1>1. /\ m \in Nat /\ n \in Nat /\ DOMAIN q = 1 .. m /\ DOMAIN r = 1 .. n
      /\ j \in Seq(V) /\ DOMAIN j = 1 .. m + n
      /\ \A i \in 1 .. m + n : j[i] = IF i <= m THEN q[i] ELSE r[i - m]
    OBVIOUS
<1> HIDE DEF j, m, n
<1>2. \A i \in 1 .. m + n : i \in 1 .. m \/ i - m \in 1 .. n
    BY <1>1
<1>3. \A i \in 1 .. m : i \in 1 .. m + n /\ i <= m
    BY <1>1
<1>4. \A i \in 1 .. n : i + m \in 1 .. m + n /\ ~(i + m <= m) /\ (i + m) - m = i
    BY <1>1
<1>5. Members(j) \subseteq Members(q) \cup Members(r)
  <2> SUFFICES ASSUME NEW i \in 1 .. m + n PROVE j[i] \in Members(q) \cup Members(r)
      BY <1>1 DEF Members
  <2>1. CASE i <= m
    <3>1. i \in 1 .. m /\ j[i] = q[i]
        BY <1>1, <2>1
    <3> QED
        BY <1>1, <3>1 DEF Members
  <2>2. CASE ~(i <= m)
    <3>1. i - m \in 1 .. n /\ j[i] = r[i - m]
        BY <1>1, <2>2
    <3> QED
        BY <1>1, <3>1 DEF Members
  <2> QED
      BY <2>1, <2>2
<1>6. Members(q) \subseteq Members(j)
    BY <1>1, <1>3 DEF Members
<1>7. Members(r) \subseteq Members(j)
  <2> SUFFICES ASSUME NEW i \in 1 .. n PROVE r[i] \in Members(j)
      BY <1>1 DEF Members
  <2>1. j[i + m] = r[i] /\ i + m \in 1 .. m + n
      BY <1>1, <1>4
  <2> QED
      BY <1>1, <2>1 DEF Members
<1> QED
    BY <1>1, <1>5, <1>6, <1>7 DEF j

\* A sequence has its first cell and those of the rest.
LEMMA MembersOfTail ==
    ASSUME NEW V, NEW q \in Seq(V), q # <<>>
    PROVE  /\ Head(q) \in V /\ Tail(q) \in Seq(V) /\ Head(q) \in Members(q)
           /\ Members(q) = {Head(q)} \cup Members(Tail(q))
<1> DEFINE r == Tail(q)
           n == Len(q)
<1>1. /\ n \in Nat \ {0} /\ DOMAIN q = 1 .. n /\ DOMAIN r = 1 .. n - 1 /\ r \in Seq(V)
      /\ Head(q) = q[1] /\ q[1] \in V
      /\ \A i \in 1 .. n - 1 : r[i] = q[i + 1]
    OBVIOUS
<1> HIDE DEF r, n
<1>2. 1 \in 1 .. n /\ (\A i \in 1 .. n - 1 : i + 1 \in 1 .. n)
      /\ \A i \in 1 .. n : i # 1 => i - 1 \in 1 .. n - 1 /\ (i - 1) + 1 = i
    BY <1>1
<1>3. Head(q) \in Members(q)
    BY <1>1, <1>2 DEF Members
<1>4. Members(r) \subseteq Members(q)
  <2> SUFFICES ASSUME NEW i \in 1 .. n - 1 PROVE r[i] \in Members(q)
      BY <1>1 DEF Members
  <2>1. r[i] = q[i + 1] /\ i + 1 \in 1 .. n
      BY <1>1, <1>2
  <2> QED
      BY <1>1, <2>1 DEF Members
<1>5. Members(q) \subseteq {Head(q)} \cup Members(r)
  <2> SUFFICES ASSUME NEW i \in 1 .. n, i # 1 PROVE q[i] \in Members(r)
      BY <1>1 DEF Members
  <2>1. i - 1 \in 1 .. n - 1 /\ r[i - 1] = q[i]
      BY <1>1, <1>2
  <2> QED
      BY <1>1, <2>1 DEF Members
<1> QED
    BY <1>1, <1>3, <1>4, <1>5 DEF r

\* A step of it: the cell that waits longest gives way to what it leads to.
LEMMA ExplorationGoesOn ==
    ASSUME NEW C, NEW s, NEW t, NEW V, NEW F, Explored(C, s, t, V, F), F # <<>>, Head(F) # t,
           DOMAIN C[Head(F)] \subseteq DOMAIN C,
           NEW new \in Seq(DOMAIN C),
           Members(new) = {d \in DOMAIN C[Head(F)] \ V : C[Head(F)][d] < Inf}
    PROVE  Explored(C, s, t, V \cup Members(new), Tail(F) \o new)
<1> DEFINE c == Head(F)
           W == V \cup Members(new)
           L == Tail(F) \o new
<1>1. s \in V /\ V \subseteq DOMAIN C /\ F \in Seq(V)
    BY DEF Explored
<1>2. c \in V /\ Members(F) = {c} \cup Members(Tail(F)) /\ Tail(F) \in Seq(V)
    BY <1>1, MembersOfTail
<1>3. W \subseteq DOMAIN C
    BY <1>1
<1>4. L \in Seq(W) /\ Members(L) = Members(Tail(F)) \cup Members(new)
  <2>1. Tail(F) \in Seq(W)
      BY <1>2
  <2>2. new \in Seq(W)
    <3>1. \A i \in 1 .. Len(new) : new[i] \in Members(new)
        BY DEF Members
    <3> QED
        BY <3>1
  <2> DEFINE q == Tail(F)
  <2> HIDE DEF W, q
  <2>3. q \in Seq(W)
      BY <2>1 DEF q
  <2>4. q \o new \in Seq(W) /\ Members(q \o new) = Members(q) \cup Members(new)
      BY <2>2, <2>3, MembersJoin
  <2> QED
      BY <2>4 DEF q
<1> HIDE DEF L
<1>5. ASSUME NEW x \in W \ Members(L)
      PROVE  x # t /\ \A d \in DOMAIN C[x] : C[x][d] < Inf => d \in W
  <2>1. x \in V /\ x \notin Members(Tail(F))
      BY <1>4, <1>5
  <2>2. CASE x = c
      BY <2>2
  <2>3. CASE x # c
    <3>1. x \notin Members(F)
        BY <1>2, <2>1, <2>3
    <3> QED
        BY <2>1, <3>1 DEF Explored
  <2> QED
      BY <2>2, <2>3
<1>6. ASSUME NEW U \in SUBSET DOMAIN C, s \in U,
             \A x \in U : \A d \in DOMAIN C[x] : C[x][d] < Inf => d \in U
      PROVE  W \subseteq U
  <2>1. V \subseteq U
      BY <1>6 DEF Explored
  <2> QED
      BY <1>2, <1>6, <2>1
<1> HIDE DEF W
<1>7. s \in W
    BY <1>1 DEF W
<1>8. Explored(C, s, t, W, L)
    BY <1>3, <1>4, <1>5, <1>6, <1>7 DEF Explored
<1> QED
    BY <1>8 DEF W, L

\* What cannot be left does not lead to the goal.
LEMMA ClosedIsFar ==
    ASSUME NEW C, IsCostMap(C), NEW t \in DOMAIN C, NEW V, V \subseteq DOMAIN C, t \notin V,
           \A c \in V : \A d \in DOMAIN C[c] : C[c][d] < Inf => d \in V,
           NEW s \in V
    PROVE  ~(DistanceIn(C, s, t) < Inf)
<1> DEFINE Q == DOMAIN C \ V
<1>1. ASSUME NEW c \in Q \cap DOMAIN C, NEW d \in DOMAIN C[c],
             DistanceIn(C, c, t) < Inf, DistanceIn(C, d, t) < Inf,
             DistanceIn(C, d, t) = C[d][c] + DistanceIn(C, c, t)
      PROVE  d \in Q
  <2>1. d \in DOMAIN C /\ c \in DOMAIN C[d] /\ C[d][c] \in Nat
      BY DEF IsCostMap
  <2>2. DistanceIn(C, c, t) \in Nat /\ DistanceIn(C, d, t) \in Nat
    <3>1. DistanceIn(C, c, t) \in 0 .. Inf /\ DistanceIn(C, d, t) \in 0 .. Inf
        BY DistanceIsNumber
    <3> QED
        BY <3>1, InfIsNat
  <2>3. C[d][c] < Inf
      BY <1>1, <2>1, <2>2, InfIsNat
  <2> QED
      BY <2>1, <2>3
<1>2. t \in Q /\ s \notin Q
    OBVIOUS
<1> HIDE DEF Q
<1>3. \A c \in Q \cap DOMAIN C : \A d \in DOMAIN C[c] :
              (/\ DistanceIn(C, c, t) < Inf /\ DistanceIn(C, d, t) < Inf
               /\ DistanceIn(C, d, t) = C[d][c] + DistanceIn(C, c, t)) => d \in Q
    BY <1>1
<1> QED
    BY <1>2, <1>3, DistanceIsTree

\* When nothing waits there is no way to the goal.
LEMMA ExplorationEnds ==
    ASSUME NEW C, IsCostMap(C), NEW t \in DOMAIN C, NEW s, NEW V, Explored(C, s, t, V, <<>>)
    PROVE  ~(DistanceIn(C, s, t) < Inf)
<1>1. Members(<<>>) = {}
    BY DEF Members
<1>2. /\ s \in V /\ V \subseteq DOMAIN C /\ t \notin V
      /\ \A c \in V : \A d \in DOMAIN C[c] : C[c][d] < Inf => d \in V
    BY <1>1 DEF Explored
<1> QED
    BY <1>2, ClosedIsFar

\* When the goal is visited there is one.
LEMMA ExplorationReaches ==
    ASSUME NEW C, IsCostMap(C), NEW t \in DOMAIN C, NEW most, Bounded(C, most),
           NEW s, NEW V, NEW F, Explored(C, s, t, V, F), t \in V
    PROVE  DistanceIn(C, s, t) < Inf
<1> DEFINE U == {c \in DOMAIN C : ~(DistanceIn(C, c, t) < Inf)}
<1> SUFFICES ASSUME ~(DistanceIn(C, s, t) < Inf) PROVE FALSE
    OBVIOUS
<1>1. s \in U
    BY DEF Explored
<1>2. ASSUME NEW c \in U, NEW d \in DOMAIN C[c], C[c][d] < Inf PROVE d \in U
  <2>1. d \in DOMAIN C
      BY DEF IsCostMap
  <2> QED
      BY <1>2, <2>1, DistanceIsLeast
<1>3. t \notin U
  <2>1. 0 < Inf
      BY InfIsNat, InfIsPositive
  <2> QED
      BY <2>1, DistanceOfTarget
<1>4. U \in SUBSET DOMAIN C
    OBVIOUS
<1> HIDE DEF U
<1> QED
    BY <1>1, <1>2, <1>3, <1>4 DEF Explored

-----------------------------------------------------------------------------
(* What true answers rest on.                                                 *)

\* A call under way has been told everything and has not answered yet.
Asking ==
    /\ pc # "idle" => delta = {} /\ result = None
    /\ pc = "search" => goal \notin BlockedCells(peerForbidden)
    /\ probe # None => position = start

\* A probe explores the map of today, without the peers that closed every route.
Probing ==
    probe # None /\ delta = {} /\ ~missed =>
        /\ Explored(Costs({}), start, goal, visited, frontier)
        /\ peerForbidden # {}
        /\ start \notin BlockedCells(peerForbidden) => ~RouteExists(peerForbidden)

\* What true answers rest on.
AInv == IInv /\ Prepared /\ Asking /\ Probing /\ AnswersAreTrue

\* The costs of the moves depend on the map, the window and where the vehicle stands.
LEMMA CostsAreLeft ==
    ASSUME UNCHANGED <<grid, states, bounds, start, position>>
    PROVE  /\ (Costs({}))' = Costs({})
           /\ peerForbidden' = peerForbidden => (Costs(peerForbidden))' = Costs(peerForbidden)
<1>1. \A o : BaseState(o)' = BaseState(o)
    BY DEF BaseState
<1>2. Obstacles' = Obstacles
    BY <1>1 DEF Obstacles
<1>3. Window' = Window /\ \A c : Neighbours(c)' = Neighbours(c)
    BY DEF Window, Neighbours, Inside
<1>4. \A c, d : StepCost(c, d)' = StepCost(c, d)
    BY DEF StepCost
<1>5. \A P, B, c, d : (Cost(P, B, c, d))' = Cost(P, B, c, d)
  <2> SUFFICES ASSUME NEW P, NEW B, NEW c, NEW d PROVE (Cost(P, B, c, d))' = Cost(P, B, c, d)
      OBVIOUS
  <2>1. (StartConnectionCost(P, B, c, d))' = StartConnectionCost(P, B, c, d)
      BY <1>2, <1>4 DEF StartConnectionCost
  <2> QED
      BY <1>4, <2>1 DEF Cost
<1>6. (Costs({}))' = Costs({})
  <2> DEFINE N == {}
  <2>1. PICK P \in {N} : TRUE
      OBVIOUS
  <2>2. PICK B \in {BlockedCells(P)} : TRUE
      OBVIOUS
  <2>3. (BlockedCells(P))' = B
    <3>1. (BlockedCells(P))' = BlockedCells(P)
        BY <1>2, <1>3, Zenon DEF BlockedCells
    <3> QED
        BY <2>2, <3>1
  <2>4. Costs(P) = [c \in Window |-> [d \in Neighbours(c) |-> Cost(P, B, c, d)]]
      BY <2>2, Zenon DEF Costs
  <2>5. (Costs(P))' = [c \in Window |-> [d \in Neighbours(c) |-> Cost(P, B, c, d)]]
      BY <1>3, <1>5, <2>3, Zenon DEF Costs
  <2> QED
      BY <2>1, <2>4, <2>5
<1>7. ASSUME peerForbidden' = peerForbidden
      PROVE  (Costs(peerForbidden))' = Costs(peerForbidden)
  <2>1. PICK P \in {peerForbidden} : TRUE
      OBVIOUS
  <2>2. PICK B \in {BlockedCells(P)} : TRUE
      OBVIOUS
  <2>3. (BlockedCells(peerForbidden))' = B
    <3>1. (BlockedCells(peerForbidden))' = BlockedCells(peerForbidden)
        BY <1>2, <1>3, <1>7, Zenon DEF BlockedCells
    <3> QED
        BY <2>1, <2>2, <3>1
  <2>4. Costs(peerForbidden) = [c \in Window |-> [d \in Neighbours(c) |-> Cost(P, B, c, d)]]
      BY <2>1, <2>2, Zenon DEF Costs
  <2>5. (Costs(peerForbidden))' = [c \in Window |-> [d \in Neighbours(c) |-> Cost(P, B, c, d)]]
    <3>1. P = peerForbidden'
        BY <1>7, <2>1
    <3> QED
        BY <1>3, <1>5, <2>3, <3>1, Zenon DEF Costs
  <2> QED
      BY <2>4, <2>5
<1> QED
    BY <1>6, <1>7

\* So do the routes.
LEMMA RoutesAreLeft ==
    ASSUME UNCHANGED <<grid, states, bounds, start, position, goal>>
    PROVE  /\ (RouteExists({}))' = RouteExists({})
           /\ peerForbidden' = peerForbidden =>
                /\ (RouteExists(peerForbidden))' = RouteExists(peerForbidden)
                /\ (DistanceToGoal(peerForbidden))' = DistanceToGoal(peerForbidden)
<1>1. (BlockedCells({}))' = BlockedCells({}) /\ (Costs({}))' = Costs({})
    BY BlockingIsLeft, CostsAreLeft
<1>2. (RouteExists({}))' = RouteExists({})
    BY <1>1, Zenon DEF RouteExists, DistanceToGoal
<1>3. ASSUME peerForbidden' = peerForbidden
      PROVE  /\ (BlockedCells(peerForbidden))' = BlockedCells(peerForbidden)
             /\ (Costs(peerForbidden))' = Costs(peerForbidden)
    BY <1>3, BlockingIsLeft, CostsAreLeft
<1>4. ASSUME peerForbidden' = peerForbidden
      PROVE  (DistanceToGoal(peerForbidden))' = DistanceToGoal(peerForbidden)
    BY <1>3, <1>4, Zenon DEF DistanceToGoal
<1>5. ASSUME peerForbidden' = peerForbidden
      PROVE  (RouteExists(peerForbidden))' = RouteExists(peerForbidden)
    BY <1>3, <1>4, <1>5, Zenon DEF RouteExists
<1> QED
    BY <1>2, <1>4, <1>5

\* A step that leaves the probe and what it is about alone.
LEMMA ProbingIsLeft ==
    ASSUME Probing,
           UNCHANGED <<grid, delta, states, peerForbidden, missed, bounds, start, goal, position,
                       probe, frontier, visited>>
    PROVE  Probing'
<1>1. /\ (Costs({}))' = Costs({})
      /\ (RouteExists(peerForbidden))' = RouteExists(peerForbidden)
      /\ (BlockedCells(peerForbidden))' = BlockedCells(peerForbidden)
    BY CostsAreLeft, RoutesAreLeft, BlockingIsLeft
<1> QED
    BY <1>1, Zenon DEF Probing

\* A probe that is over, or whose map is not of today, claims nothing.
LEMMA ProbingIsVoid ==
    ASSUME probe' = None \/ delta' # {} \/ missed'
    PROVE  Probing'
BY Zenon DEF Probing

\* A call that gives no route and no end claims nothing.
LEMMA NothingIsClaimed ==
    ASSUME result' # "ready",
           result' # "unreachable" \/ failure' \notin {"search_exhausted", "path_extraction"}
    PROVE  AnswersAreTrue'
BY Zenon DEF AnswersAreTrue, ReadyIsShortest, NoPathIsReal, BlameIsRight

\* No answer is none of the answers, and neither is a pending one.
LEMMA NothingYet ==
    ASSUME result' = None \/ result' = "pending"
    PROVE  AnswersAreTrue'
<1>1. result' # "ready" /\ result' # "unreachable"
    BY ResultAssumption
<1> QED
    BY <1>1, NothingIsClaimed

\* An answer that stands with the map it was given for.
LEMMA AnswersAreLeft ==
    ASSUME AnswersAreTrue,
           UNCHANGED <<grid, states, peerForbidden, missed, bounds, start, goal, position, answerVars>>
    PROVE  AnswersAreTrue'
<1>1. /\ (RouteExists({}))' = RouteExists({})
      /\ (RouteExists(peerForbidden))' = RouteExists(peerForbidden)
      /\ (DistanceToGoal(peerForbidden))' = DistanceToGoal(peerForbidden)
      /\ (BlockedCells(peerForbidden))' = BlockedCells(peerForbidden)
      /\ (Costs(peerForbidden))' = Costs(peerForbidden)
    BY CostsAreLeft, RoutesAreLeft, BlockingIsLeft
<1>2. result' = result /\ failure' = failure /\ byPeer' = byPeer /\ path' = path
    BY DEF answerVars
<1>3. ReadyIsShortest'
  <2>1. \A c : (Neighbours(c))' = Neighbours(c)
      BY DEF Neighbours, Inside
  <2> QED
      BY <1>1, <1>2, <2>1, Zenon DEF AnswersAreTrue, ReadyIsShortest
<1>4. NoPathIsReal'
    BY <1>1, <1>2, Zenon DEF AnswersAreTrue, NoPathIsReal
<1>5. BlameIsRight'
    BY <1>1, <1>2, Zenon DEF AnswersAreTrue, BlameIsRight
<1> QED
    BY <1>3, <1>4, <1>5 DEF AnswersAreTrue

-----------------------------------------------------------------------------
(* Every action keeps the answers true.                                       *)

\* A step between two calls.
LEMMA OutdatedAnswers ==
    ASSUME Asking, pc = "idle", pc' = pc, Outdate,
           UNCHANGED <<start, position, probe>> \/ probe' = None,
           probe' = None \/ delta' # {} \/ missed'
    PROVE  Asking' /\ Probing' /\ AnswersAreTrue'
<1>1. AnswersAreTrue'
    BY NothingYet DEF Outdate
<1>2. Probing'
    BY ProbingIsVoid
<1>3. Asking'
    BY Zenon DEF Asking
<1> QED
    BY <1>1, <1>2, <1>3

\* A call that begins to search has been told everything; one that gives up at once claims
\* nothing about routes.
LEMMA BeginSearchAnswers ==
    ASSUME IInv, NEW s \in Starts, NEW t \in Goals, NEW budget, BeginSearch(s, t, budget)
    PROVE  Asking' /\ Probing' /\ AnswersAreTrue' /\ result' # "ready" /\ goal' = t
<1>1. probe' = None /\ goal' = t
    BY BeginSearches
<1>2. delta' = {}
    BY DEF BeginSearch, Asks
<1>3. Probing'
    BY <1>1, ProbingIsVoid
<1>4. (CASE (StartBlocked(peerForbidden))' ->
             Fail("start_blocked", ~(StartBlocked({}))')
        [] ~(StartBlocked(peerForbidden))' /\ (t \in BlockedCells(peerForbidden))' ->
             Fail("goal_blocked", (t \notin BlockedCells({}))')
        [] ~(StartBlocked(peerForbidden))' /\ ~(t \in BlockedCells(peerForbidden))'
               /\ SpentSoFar(t) >= Limit' ->
             Fail("expansion_limit", FALSE)
        [] OTHER -> /\ pc' = "search" /\ left' = budget
                    /\ recovery' = IF goal = t /\ Inside(s) THEN recovery ELSE None
                    /\ failure' = None /\ byPeer' = FALSE
                    /\ result' = None /\ path' = <<>>
                    /\ UNCHANGED pending)
    BY Zenon DEF BeginSearch
<1>5. ASSUME NEW why \in {"start_blocked", "goal_blocked", "expansion_limit"}, NEW peer,
             Fail(why, peer)
      PROVE  Asking' /\ AnswersAreTrue' /\ result' # "ready"
  <2>1. failure' = why /\ result' = "unreachable" /\ pc' = "idle"
      BY <1>5 DEF Fail
  <2>2. failure' \notin {"search_exhausted", "path_extraction"} /\ result' # "ready"
      BY <2>1
  <2>3. AnswersAreTrue'
      BY <2>2, NothingIsClaimed
  <2>4. Asking'
      BY <1>1, <2>1 DEF Asking
  <2> QED
      BY <2>2, <2>3, <2>4
<1>6. CASE (StartBlocked(peerForbidden))'
  <2>1. Fail("start_blocked", ~(StartBlocked({}))')
      BY <1>4, <1>6, Zenon
  <2> QED
      BY <1>1, <1>3, <1>5, <2>1
<1>7. CASE ~(StartBlocked(peerForbidden))' /\ (t \in BlockedCells(peerForbidden))'
  <2>1. Fail("goal_blocked", (t \notin BlockedCells({}))')
      BY <1>4, <1>7, Zenon
  <2> QED
      BY <1>1, <1>3, <1>5, <2>1
<1>8. CASE /\ ~(StartBlocked(peerForbidden))' /\ ~(t \in BlockedCells(peerForbidden))'
           /\ SpentSoFar(t) >= Limit'
  <2>1. Fail("expansion_limit", FALSE)
      BY <1>4, <1>8, Zenon
  <2> QED
      BY <1>1, <1>3, <1>5, <2>1
<1>9. CASE /\ ~(StartBlocked(peerForbidden))' /\ ~(t \in BlockedCells(peerForbidden))'
           /\ ~(SpentSoFar(t) >= Limit')
  <2>1. result' = None
      BY <1>4, <1>9, Zenon
  <2>2. (goal \notin BlockedCells(peerForbidden))'
      BY <1>1, <1>9, Zenon
  <2>3. Asking'
      BY <1>1, <1>2, <2>1, <2>2 DEF Asking
  <2>4. result' # "ready"
      BY <2>1, ResultAssumption
  <2> QED
      BY <1>1, <1>3, <2>1, <2>3, <2>4, NothingYet
<1> QED
    BY <1>6, <1>7, <1>8, <1>9, Zenon

\* A call that goes on with a probe.
LEMMA BeginProbeAnswers ==
    ASSUME IInv, Asking, Probing,
           NEW s \in Starts, NEW t \in Goals, NEW budget, BeginProbe(s, t, budget)
    PROVE  Asking' /\ Probing' /\ AnswersAreTrue'
<1>1. /\ UNCHANGED <<grid, mapVars, searchVars, delta, probeVars>>
      /\ delta = {} /\ probe # None /\ position' = start
    BY BeginProbeLeaves
<1>2. result' = None /\ pc' = "probe"
    BY DEF BeginProbe
<1>3. position = start
    BY <1>1 DEF Asking
<1>4. UNCHANGED <<grid, delta, states, peerForbidden, missed, bounds, start, goal, position,
                  probe, frontier, visited>>
    BY <1>1, <1>3 DEF mapVars, searchVars, probeVars
<1>5. Probing'
    BY <1>4, ProbingIsLeft
<1>6. Asking'
    BY <1>1, <1>2, <1>3, <1>4 DEF Asking
<1> QED
    BY <1>2, <1>5, <1>6, NothingYet

\* A step of a call that leaves the map and the probe.
LEMMA CallGoesOn ==
    ASSUME Asking, Probing, pc' = "idle" \/ (pc' = pc /\ result' = result),
           UNCHANGED <<grid, delta, mapVars, missed, bounds, start, goal, position, probeVars>>
    PROVE  Asking' /\ Probing'
<1>1. UNCHANGED <<grid, delta, states, peerForbidden, missed, bounds, start, goal, position,
                  probe, frontier, visited>>
    BY DEF mapVars, probeVars
<1>2. Probing'
    BY <1>1, ProbingIsLeft
<1>3. (BlockedCells(peerForbidden))' = BlockedCells(peerForbidden)
    BY <1>1, BlockingIsLeft
<1>4. Asking'
    BY <1>1, <1>3 DEF Asking
<1> QED
    BY <1>2, <1>4

\* An expansion answers nothing.
LEMMA ExpandAnswers ==
    ASSUME Asking, Probing, Expand
    PROVE  Asking' /\ Probing' /\ AnswersAreTrue'
<1>1. /\ pc = "search"
      /\ UNCHANGED <<worldVars, mapVars, missed, bounds, start, goal, km, position,
                     probeVars, answerVars, pc>>
    BY DEF Expand, Searching
<1>2. result = None
    BY <1>1 DEF Asking
<1>3. result' = None
    BY <1>1, <1>2 DEF answerVars
<1>4. Asking' /\ Probing'
    BY <1>1, <1>2, <1>3, CallGoesOn DEF worldVars
<1> QED
    BY <1>3, <1>4, NothingYet

\* A search that is suspended, or out of expansions, claims nothing about routes.
LEMMA SuspendSearchAnswers ==
    ASSUME Asking, Probing, SuspendSearch
    PROVE  Asking' /\ Probing' /\ AnswersAreTrue'
<1>1. /\ UNCHANGED <<worldVars, mapVars, searchVars, position, spent, probeVars>>
      /\ IF spent < Limit THEN Suspend /\ UNCHANGED recovery ELSE Fail("expansion_limit", FALSE)
    BY DEF SuspendSearch
<1>2. pc' = "idle" /\ (result' = "pending" \/ (result' = "unreachable" /\ failure' = "expansion_limit"))
    BY <1>1 DEF Suspend, Fail
<1>3. AnswersAreTrue'
  <2>1. result' # "ready"
        /\ (result' # "unreachable" \/ failure' \notin {"search_exhausted", "path_extraction"})
      BY <1>2
  <2> QED
      BY <2>1, NothingIsClaimed
<1>4. UNCHANGED <<grid, delta, mapVars, missed, bounds, start, goal, position, probeVars>>
    BY <1>1 DEF worldVars, searchVars
<1>5. Asking' /\ Probing'
    BY <1>2, <1>4, CallGoesOn
<1> QED
    BY <1>3, <1>5

\* A search that is over, on a map that the planner was told of, has the facts it needs.
LEMMA ConcludesInTime ==
    ASSUME IInv, Prepared, Asking, Conclude, ~missed
    PROVE  Concluding
<1>1. pc = "search" /\ (~Unsettled \/ DOMAIN open = {})
    BY DEF Conclude
<1>2. goal # None /\ position = start
    BY <1>1 DEF IInv, Called
<1>3. delta = {} /\ goal \notin BlockedCells(peerForbidden)
    BY <1>1 DEF Asking
<1> QED
    BY <1>1, <1>2, <1>3 DEF Concluding

\* What a concluded search answers is true.
LEMMA ConcludeAnswers ==
    ASSUME IInv, Prepared, Asking, Probing, Conclude
    PROVE  Asking' /\ Probing' /\ AnswersAreTrue'
<1>1. pc = "search" /\ UNCHANGED <<worldVars, mapVars, position>>
    BY DEF Conclude
<1>2. goal # None /\ Asked /\ Boxed /\ Numbers /\ position = start /\ start \in Window /\ start # None
    BY <1>1, WorldIsCells, WorldAssumption DEF IInv, Called, Searched, Asked, Prepared, Ends
<1>3. delta = {} /\ result = None
    BY <1>1 DEF Asking
<1>4. grid' = grid /\ delta' = delta /\ states' = states /\ peerForbidden' = peerForbidden
    BY <1>1 DEF worldVars, mapVars
<1>5. /\ start \in Window /\ Window \subseteq Cells /\ g[start] \in Nat /\ Inf \in Nat
  <2>1. Window \subseteq Cells
      BY <1>2 DEF Asked
  <2>2. g[start] \in 0 .. Inf
      BY <1>2, <2>1 DEF Numbers
  <2> QED
      BY <1>2, <2>1, <2>2, InfIsNat
<1>6. ASSUME UNCHANGED searchVars
      PROVE  /\ (Costs(peerForbidden))' = Costs(peerForbidden)
             /\ (RouteExists({}))' = RouteExists({})
             /\ (RouteExists(peerForbidden))' = RouteExists(peerForbidden)
             /\ (DistanceToGoal(peerForbidden))' = DistanceToGoal(peerForbidden)
             /\ (BlockedCells(peerForbidden))' = BlockedCells(peerForbidden)
             /\ UNCHANGED <<grid, delta, mapVars, missed, bounds, start, goal, position>>
    BY <1>1, <1>4, <1>6, CostsAreLeft, RoutesAreLeft, BlockingIsLeft DEF searchVars
<1>7. ASSUME ExtractPath # <<>>, result' = "ready", path' = ExtractPath, pc' = "idle",
             UNCHANGED <<searchVars, probeVars>>
      PROVE  Asking' /\ Probing' /\ AnswersAreTrue'
  <2>1. Asking' /\ Probing'
      BY <1>6, <1>7, CallGoesOn
  <2>2. ReadyIsShortest'
    <3>1. g[start] < Inf
      <4>1. ~(g[start] >= Inf)
          BY <1>7, Zenon DEF ExtractPath
      <4> QED
          BY <1>5, <4>1
    <3>2. SUFFICES ASSUME ~missed'
                   PROVE  /\ path'[1] = start' /\ path'[Len(path')] = goal'
                          /\ \A i \in 1 .. Len(path') - 1 : path'[i + 1] \in (Neighbours(path[i]))'
                          /\ (Total(Costs(peerForbidden), path))' = (DistanceToGoal(peerForbidden))'
                          /\ (RouteExists(peerForbidden))'
        BY Zenon DEF ReadyIsShortest
    <3>3. ~missed /\ start' = start /\ goal' = goal
        BY <1>6, <1>7, <3>2
    <3>4. /\ ExtractPath[1] = start /\ ExtractPath[Len(ExtractPath)] = goal
          /\ \A i \in 1 .. Len(ExtractPath) - 1 : ExtractPath[i + 1] \in Neighbours(ExtractPath[i])
          /\ Total(Costs(peerForbidden), ExtractPath) = DistanceToGoal(peerForbidden)
          /\ RouteExists(peerForbidden)
        BY <3>1, <3>3, ConcludesInTime, PathIsShortest
    <3>5. (Total(Costs(peerForbidden), path))' = Total(Costs(peerForbidden), ExtractPath)
        BY <1>6, <1>7, Zenon DEF Total
    <3>6. (DistanceToGoal(peerForbidden))' = DistanceToGoal(peerForbidden)
        BY <1>6, <1>7
    <3>7. path'[1] = start' /\ path'[Len(path')] = goal' /\ (RouteExists(peerForbidden))'
        BY <1>6, <1>7, <3>3, <3>4
    <3>8. \A i \in 1 .. Len(path') - 1 : path'[i + 1] \in (Neighbours(path[i]))'
      <4>1. \A c : (Neighbours(c))' = Neighbours(c)
          BY <1>6, <1>7 DEF Neighbours, Inside
      <4>2. \A i : (Neighbours(path[i]))' = Neighbours(ExtractPath[i])
        <5>1. bounds' = bounds /\ path' = ExtractPath
            BY <1>6, <1>7
        <5> QED
            BY <5>1, Zenon DEF Neighbours, Inside
      <4> QED
          BY <1>7, <3>4, <4>2, Zenon
    <3> QED
        BY <3>4, <3>5, <3>6, <3>7, <3>8, Zenon
  <2>3. NoPathIsReal' /\ BlameIsRight'
      BY <1>7 DEF NoPathIsReal, BlameIsRight
  <2> QED
      BY <2>1, <2>2, <2>3 DEF AnswersAreTrue
<1>8. ASSUME Reset(start, goal), Suspend
      PROVE  Asking' /\ Probing' /\ AnswersAreTrue'
  <2>1. probe' = None /\ pc' = "idle" /\ result' = "pending"
      BY <1>8 DEF Reset, CancelProbe, Suspend
  <2>2. Asking'
      BY <2>1 DEF Asking
  <2> QED
      BY <2>1, <2>2, ProbingIsVoid, NothingYet
<1>9. ASSUME g[start] >= Inf, ~missed, start \notin BlockedCells(peerForbidden)
      PROVE  ~RouteExists(peerForbidden)
    BY <1>5, <1>9, ConcludesInTime, NoPathExists
<1>10. ASSUME g[start] >= Inf, peerForbidden # {},
              probe' = <<start, goal, position>>, frontier' = <<start>>, visited' = {start},
              pc' = "probe", UNCHANGED <<searchVars, answerVars>>
       PROVE  Asking' /\ Probing' /\ AnswersAreTrue'
  <2>1. result' = None
      BY <1>3, <1>10 DEF answerVars
  <2>2. Asking'
    <3>1. pc' = "probe" /\ delta' = {} /\ position' = start'
        BY <1>2, <1>3, <1>4, <1>6, <1>10
    <3> QED
        BY <2>1, <3>1 DEF Asking
  <2>3. Probing'
    <3>1. Explored(Costs({}), start, goal, {start}, <<start>>)
      <4>1. DOMAIN Costs({}) = Window
          BY <1>2, CostsAreMap
      <4> QED
          BY <1>2, <4>1, ExplorationBegins
    <3>2. (Costs({}))' = Costs({})
        BY <1>4, <1>6, <1>10, CostsAreLeft
    <3>3. ASSUME ~missed' PROVE start \notin BlockedCells(peerForbidden) => ~RouteExists(peerForbidden)
      <4>1. ~missed
          BY <1>6, <1>10, <3>3
      <4> QED
          BY <1>9, <1>10, <4>1
    <3>4. start' = start /\ goal' = goal /\ visited' = {start} /\ frontier' = <<start>>
        BY <1>6, <1>10
    <3>5. Explored((Costs({}))', start', goal', visited', frontier')
        BY <3>1, <3>2, <3>4
    <3>6. (RouteExists(peerForbidden))' = RouteExists(peerForbidden)
          /\ (BlockedCells(peerForbidden))' = BlockedCells(peerForbidden)
        BY <1>6, <1>10
    <3> QED
        BY <1>4, <1>10, <3>3, <3>4, <3>5, <3>6, Zenon DEF Probing
  <2> QED
      BY <2>1, <2>2, <2>3, NothingYet
<1>11. ASSUME ExtractPath = <<>>, ~(g[start] >= Inf /\ peerForbidden # {}),
              Fail(IF g[start] >= Inf THEN "search_exhausted" ELSE "path_extraction", FALSE),
              UNCHANGED <<searchVars, probeVars>>
       PROVE  Asking' /\ Probing' /\ AnswersAreTrue'
  <2>1. result' = "unreachable" /\ pc' = "idle" /\ byPeer' = FALSE
      BY <1>11, Zenon DEF Fail
  <2>2. Asking' /\ Probing'
      BY <1>6, <1>11, <2>1, CallGoesOn
  <2>3. ReadyIsShortest'
      BY <2>1 DEF ReadyIsShortest
  <2>4. CASE missed'
      BY <2>1, <2>2, <2>4 DEF AnswersAreTrue, ReadyIsShortest, NoPathIsReal, BlameIsRight
  <2>5. CASE ~missed'
    <3>1. ~missed /\ start' = start
        BY <1>6, <1>11, <2>5
    <3>2. g[start] >= Inf /\ peerForbidden = {}
      <4>1. ~(g[start] < Inf)
          BY <1>11, <3>1, ConcludesInTime, PathIsShortest
      <4> QED
          BY <1>5, <1>11, <4>1
    <3>3. start \notin BlockedCells(peerForbidden) => ~RouteExists(peerForbidden)
        BY <1>9, <3>1, <3>2
    <3>4. NoPathIsReal'
        BY <1>6, <1>11, <3>1, <3>3 DEF NoPathIsReal
    <3>5. BlameIsRight'
      <4>1. peerForbidden' = {}
          BY <1>4, <3>2
      <4>2. RouteExists({}) = RouteExists(peerForbidden)
          BY <3>2
      <4> QED
          BY <1>6, <1>11, <2>1, <3>1, <3>3, <4>1, <4>2 DEF BlameIsRight
    <3> QED
        BY <2>2, <2>3, <3>4, <3>5 DEF AnswersAreTrue
  <2> QED
      BY <2>4, <2>5
<1> QED
    BY <1>7, <1>8, <1>10, <1>11, ConcludeCases

\* What a probe under way knows.
LEMMA ProbeIsAsked ==
    ASSUME IInv, Asking, Prepared, Probing, pc = "probe"
    PROVE  /\ Asked /\ Boxed /\ start \in Window /\ goal \in Window /\ goal # None
           /\ delta = {} /\ result = None /\ position = start
           /\ ~missed =>
                /\ Explored(Costs({}), start, goal, visited, frontier)
                /\ peerForbidden # {}
                /\ start \notin BlockedCells(peerForbidden) => ~RouteExists(peerForbidden)
<1>1. probe # None /\ goal # None /\ position = start
    BY DEF IInv, Called
<1>2. delta = {} /\ result = None
    BY DEF Asking
<1>3. Asked /\ start \in Window
    BY <1>1 DEF IInv, Searched, Prepared, Ends
<1> QED
    BY <1>1, <1>2, <1>3 DEF Asked, Probing

\* The probe ends with an answer that is true if the blame is.
LEMMA BlamedAnswers ==
    ASSUME IInv, Asking, Prepared, Probing, pc = "probe", NEW peer \in BOOLEAN, Blamed(peer),
           UNCHANGED <<worldVars, mapVars, searchVars, position>>,
           ~missed => (peer <=> RouteExists({}))
    PROVE  Asking' /\ Probing' /\ AnswersAreTrue'
<1>1. /\ probe' = None /\ pc' = "idle" /\ result' = "unreachable"
      /\ failure' = "search_exhausted" /\ byPeer' = peer
    BY DEF Blamed, CancelProbe, Fail
<1>2. Asking'
    BY <1>1 DEF Asking
<1>3. Probing'
    BY <1>1, ProbingIsVoid
<1>4. /\ missed' = missed /\ UNCHANGED <<grid, states, peerForbidden, bounds, start, goal, position>>
    BY DEF worldVars, mapVars, searchVars
<1>5. /\ (RouteExists({}))' = RouteExists({})
      /\ (RouteExists(peerForbidden))' = RouteExists(peerForbidden)
      /\ (BlockedCells(peerForbidden))' = BlockedCells(peerForbidden)
    BY <1>4, RoutesAreLeft, BlockingIsLeft
<1>6. ReadyIsShortest'
    BY <1>1 DEF ReadyIsShortest
<1>7. NoPathIsReal'
    <2>1. ~missed => (start \notin BlockedCells(peerForbidden) => ~RouteExists(peerForbidden))
        BY ProbeIsAsked
    <2> QED
        BY <1>4, <1>5, <2>1, Zenon DEF NoPathIsReal
<1>8. BlameIsRight'
    <2>1. ~missed' => (byPeer' <=> (RouteExists({}))')
        BY <1>1, <1>4, <1>5, Zenon
    <2> QED
        BY <2>1, Zenon DEF BlameIsRight
<1> QED
    BY <1>2, <1>3, <1>6, <1>7, <1>8 DEF AnswersAreTrue

\* A probe that finds nothing more to visit, or nowhere to go, blames no peer: there is no
\* route without them.
LEMMA ProbeFailsAnswers ==
    ASSUME IInv, Asking, Prepared, Probing, ProbeFails
    PROVE  Asking' /\ Probing' /\ AnswersAreTrue'
<1>1. /\ pc = "probe" /\ (Hopeless \/ frontier = <<>>) /\ Blamed(FALSE)
      /\ UNCHANGED <<worldVars, mapVars, searchVars, position>>
    BY DEF ProbeFails
<1>2. ASSUME ~missed PROVE ~RouteExists({})
  <2>1. /\ Boxed /\ start \in Window /\ goal \in Window
        /\ Explored(Costs({}), start, goal, visited, frontier)
      BY <1>1, <1>2, ProbeIsAsked
  <2> DEFINE C == Costs({})
             B == BlockedCells({})
  <2>2. /\ IsCostMap(C) /\ DOMAIN C = Window
        /\ DOMAIN C[start] = Neighbours(start)
        /\ \A d \in Neighbours(start) : C[start][d] = Cost({}, B, start, d)
      BY <2>1, CostsAreMap
  <2>3. CASE goal \in B
      BY <2>3 DEF RouteExists
  <2>4. CASE goal \notin B /\ StartBlocked({})
    <3>1. start \in B /\ ~HasStartEgress({}, B)
        BY <2>4 DEF StartBlocked
    <3>2. start # goal
        BY <2>4, <3>1
    <3>3. ASSUME NEW d \in DOMAIN C[start], C[start][d] < Inf PROVE FALSE
      <4>1. C[start][d] = StartConnectionCost({}, B, start, d)
          BY <2>2, <3>1, <3>3, Zenon DEF Cost
      <4> QED
          BY <2>2, <3>1, <3>3, <4>1 DEF HasStartEgress
    <3> HIDE DEF C
    <3>4. ~(DistanceIn(C, start, goal) < Inf)
      <4> DEFINE V == {start}
      <4>1. start \in V /\ V \subseteq DOMAIN C /\ goal \notin V
          BY <2>1, <2>2, <3>2
      <4>2. \A c \in V : \A d \in DOMAIN C[c] : C[c][d] < Inf => d \in V
          BY <3>3
      <4> HIDE DEF V
      <4> QED
          BY <2>1, <2>2, <4>1, <4>2, ClosedIsFar
    <3> QED
        BY <3>4 DEF RouteExists, DistanceToGoal, C
  <2>5. CASE frontier = <<>>
    <3> HIDE DEF C
    <3>1. Explored(C, start, goal, visited, <<>>)
        BY <2>1, <2>5 DEF C
    <3>2. ~(DistanceIn(C, start, goal) < Inf)
        BY <2>1, <2>2, <3>1, ExplorationEnds
    <3> QED
        BY <3>2 DEF RouteExists, DistanceToGoal, C
  <2> QED
      BY <1>1, <2>3, <2>4, <2>5 DEF Hopeless
<1>3. ~missed => (FALSE <=> RouteExists({}))
    BY <1>2, Zenon
<1> QED
    BY <1>1, <1>3, BlamedAnswers

\* What a probe finds next to a cell.
LEMMA ProbeFinds ==
    ASSUME Boxed, NEW c \in Window, NEW S, S \subseteq Neighbours(c)
    PROVE  /\ Selected(Around(c), S) \in Seq(Window)
           /\ Members(Selected(Around(c), S)) = S
<1>1. c \in Int \X Int /\ Neighbours(c) = {d \in Square(c, 1) : d # c} \cap Window
    BY WindowIsGrid, NeighboursAreNear DEF Boxed
<1>2. Around(c) \in Seq(Int \X Int) /\ {d \in Square(c, 1) : d # c} \subseteq Members(Around(c))
    BY <1>1, AroundAreNear
<1>3. /\ Selected(Around(c), S) \in Seq(Int \X Int)
      /\ Members(Selected(Around(c), S)) = Members(Around(c)) \cap S
    BY <1>2, SelectedAre
<1>4. Members(Selected(Around(c), S)) = S
    BY <1>1, <1>2, <1>3
<1> DEFINE q == Selected(Around(c), S)
<1>5. q \in Seq(Int \X Int) /\ S \subseteq Window /\ Members(q) = S
    BY <1>1, <1>3, <1>4
<1> HIDE DEF q
<1>6. \A i \in 1 .. Len(q) : q[i] \in Window
    BY <1>5 DEF Members
<1>7. q \in Seq(Window)
    BY <1>5, <1>6
<1> QED
    BY <1>4, <1>7 DEF q

\* A step of the probe either visits more or reaches the goal, and then there is a route
\* without the peers.
LEMMA ProbeStepAnswers ==
    ASSUME IInv, Asking, Prepared, Probing, ProbeStep
    PROVE  Asking' /\ Probing' /\ AnswersAreTrue'
<1> DEFINE C == Costs({})
           B == BlockedCells({})
           c == Head(frontier)
           fresh == {d \in Neighbours(c) \ visited : Cost({}, B, c, d) < Inf}
           new == Selected(Around(c), fresh)
<1>1. /\ pc = "probe" /\ ~Hopeless /\ frontier # <<>>
      /\ UNCHANGED <<worldVars, mapVars, searchVars, position>>
    BY DEF ProbeStep
<1>2. IF c = goal
      THEN Blamed(TRUE)
      ELSE /\ frontier' = Tail(frontier) \o new
           /\ visited' = visited \cup {new[i] : i \in DOMAIN new}
           /\ left' = left - 1
           /\ UNCHANGED <<probe, pending, spent, recovery, answerVars, pc>>
    BY DEF ProbeStep
<1>3. /\ Boxed /\ Asked /\ goal \in Window /\ delta = {} /\ result = None /\ position = start
    BY <1>1, ProbeIsAsked
<1>4. /\ IsCostMap(C) /\ DOMAIN C = Window
      /\ \A e \in Window : DOMAIN C[e] = Neighbours(e)
      /\ \A e \in Window : \A d \in Neighbours(e) : C[e][d] = Cost({}, B, e, d)
    BY <1>3, CostsAreMap
<1>5. ASSUME ~missed
      PROVE  /\ Explored(C, start, goal, visited, frontier)
             /\ visited \subseteq Window /\ c \in visited
  <2>1. Explored(C, start, goal, visited, frontier)
      BY <1>1, <1>5, ProbeIsAsked
  <2>2. visited \subseteq Window /\ frontier \in Seq(visited)
      BY <1>4, <2>1 DEF Explored
  <2> QED
      BY <1>1, <2>1, <2>2, MembersOfTail
<1>6. CASE c = goal
  <2>1. ASSUME ~missed PROVE RouteExists({})
    <3>1. goal \notin BlockedCells({})
        BY <1>1 DEF Hopeless
    <3>2. Bounded(C, Diagonal * UnknownCost)
        BY <1>3, CostsAreBounded DEF Asked
    <3>3. Explored(C, start, goal, visited, frontier) /\ goal \in visited
        BY <1>5, <1>6, <2>1
    <3> HIDE DEF C
    <3>4. DistanceIn(C, start, goal) < Inf
        BY <1>3, <1>4, <3>2, <3>3, ExplorationReaches
    <3> QED
        BY <3>1, <3>4 DEF RouteExists, DistanceToGoal, C
  <2>2. ~missed => (TRUE <=> RouteExists({}))
      BY <2>1, Zenon
  <2>3. Blamed(TRUE)
      BY <1>2, <1>6
  <2> QED
      BY <1>1, <2>2, <2>3, BlamedAnswers
<1>7. CASE c # goal
  <2>1. /\ frontier' = Tail(frontier) \o new
        /\ visited' = visited \cup {new[i] : i \in DOMAIN new}
        /\ UNCHANGED <<probe, answerVars, pc>>
      BY <1>2, <1>7
  <2>2. result' = None /\ pc' = "probe" /\ delta' = {} /\ position' = start'
      BY <1>1, <1>3, <2>1 DEF answerVars, worldVars, searchVars
  <2>3. Asking'
      BY <2>2 DEF Asking
  <2>4. UNCHANGED <<grid, states, peerForbidden, missed, bounds, start, goal, position>>
      BY <1>1 DEF worldVars, mapVars, searchVars
  <2>5. Probing'
    <3>1. ASSUME ~missed PROVE Explored(C, start, goal, visited', frontier')
      <4>1. c \in Window
          BY <1>5, <3>1
      <4>2. fresh = {d \in DOMAIN C[c] \ visited : C[c][d] < Inf}
          BY <1>4, <4>1
      <4>3. new \in Seq(DOMAIN C) /\ Members(new) = {d \in DOMAIN C[c] \ visited : C[c][d] < Inf}
        <5>1. fresh \subseteq Neighbours(c)
            OBVIOUS
        <5> HIDE DEF fresh, c
        <5>2. new \in Seq(Window) /\ Members(new) = fresh
            BY <1>3, <4>1, <5>1, ProbeFinds
        <5> HIDE DEF new
        <5> QED
            BY <1>4, <4>2, <5>2
      <4>4. DOMAIN C[c] \subseteq DOMAIN C
        <5>1. Neighbours(c) \subseteq Window
          <6> HIDE DEF c
          <6> QED
              BY <1>3, <4>1, WindowIsGrid, NeighboursAreNear DEF Boxed
        <5> QED
            BY <1>4, <4>1, <5>1
      <4>5. visited' = visited \cup Members(new)
          BY <2>1 DEF Members
      <4>6. Explored(C, start, goal, visited, frontier)
          BY <1>5, <3>1
      <4> HIDE DEF new, C
      <4>7. Explored(C, start, goal, visited \cup Members(new), Tail(frontier) \o new)
          BY <1>1, <1>7, <4>3, <4>4, <4>6, ExplorationGoesOn
      <4> QED
          BY <2>1, <4>5, <4>7
    <3>2. (Costs({}))' = C
        BY <2>4, CostsAreLeft
    <3>3. /\ (RouteExists(peerForbidden))' = RouteExists(peerForbidden)
          /\ (BlockedCells(peerForbidden))' = BlockedCells(peerForbidden)
        BY <2>4, RoutesAreLeft, BlockingIsLeft
    <3>4. ~missed => /\ peerForbidden # {}
                     /\ start \notin BlockedCells(peerForbidden) => ~RouteExists(peerForbidden)
        BY <1>1, ProbeIsAsked
    <3> HIDE DEF C
    <3>5. ~missed' => Explored((Costs({}))', start', goal', visited', frontier')
        BY <2>4, <3>1, <3>2
    <3> QED
        BY <2>4, <3>3, <3>4, <3>5, Zenon DEF Probing
  <2> QED
      BY <2>2, <2>3, <2>5, NothingYet
<1> QED
    BY <1>6, <1>7

\* A scan and a peer move change a cell; what changed is not settled.
LEMMA WorldAnswers ==
    ASSUME IInv, Asking, Probing,
           \/ \E n \in Novelties : Scan(n[1], n[2])
           \/ \E P \in PeerAreas : PeersMove(P)
           \/ MissDelta
    PROVE  Asking' /\ Probing' /\ AnswersAreTrue'
<1>1. ASSUME NEW n \in Novelties, Scan(n[1], n[2]) PROVE Asking' /\ Probing' /\ AnswersAreTrue'
  <2>1. /\ pc = "idle" /\ pc' = pc /\ Outdate /\ UNCHANGED <<start, position, probe>>
        /\ delta' = delta \cup {n[1]}
      BY <1>1 DEF Scan, PlannerIdle, searchVars, probeVars
  <2>2. delta' # {}
      BY <2>1
  <2> QED
      BY <2>1, <2>2, OutdatedAnswers
<1>2. ASSUME NEW P \in PeerAreas, PeersMove(P) PROVE Asking' /\ Probing' /\ AnswersAreTrue'
  <2>1. /\ pc = "idle" /\ pc' = pc /\ Outdate /\ UNCHANGED <<start, position, probe>>
        /\ delta' = delta \cup (peers \ P) \cup (P \ peers) /\ peers # P
      BY <1>2 DEF PeersMove, PlannerIdle, searchVars, probeVars
  <2>2. peers \subseteq Cells /\ P \subseteq Cells
      BY WorldAssumption DEF IInv, Sighted
  <2>3. delta' # {}
      BY <2>1, <2>2
  <2> QED
      BY <2>1, <2>3, OutdatedAnswers
<1>3. CASE MissDelta
  <2>1. /\ pc = "idle" /\ pc' = pc /\ Outdate /\ UNCHANGED <<start, position, probe>> /\ missed'
      BY <1>3 DEF MissDelta, probeVars
  <2> QED
      BY <2>1, OutdatedAnswers
<1> QED
    BY <1>1, <1>2, <1>3

\* The calls that forget the route of the call before.
LEMMA ForgetfulAnswers ==
    ASSUME Asking, Probing,
           \/ SetPeerForbiddenCells \/ ObserveChanges \/ RecoverUnusablePlan
           \/ \E s \in Starts, t \in Goals : RestartPlan(s, t)
    PROVE  Asking' /\ Probing' /\ AnswersAreTrue'
<1>1. CASE SetPeerForbiddenCells
  <2>1. pc = "idle" /\ pc' = pc /\ Outdate /\ probe' = None
      BY <1>1 DEF SetPeerForbiddenCells, CancelProbe
  <2> QED
      BY <2>1, OutdatedAnswers
<1>2. CASE ObserveChanges
  <2>1. pc = "idle" /\ pc' = pc /\ Outdate /\ probe' = None
      BY <1>2 DEF ObserveChanges, CancelProbe
  <2> QED
      BY <2>1, OutdatedAnswers
<1>3. CASE RecoverUnusablePlan
  <2>1. pc = "idle" /\ pc' = pc /\ Outdate /\ probe' = None
      BY <1>3 DEF RecoverUnusablePlan, Reset, CancelProbe
  <2> QED
      BY <2>1, OutdatedAnswers
<1>4. ASSUME NEW s \in Starts, NEW t \in Goals, RestartPlan(s, t)
      PROVE  Asking' /\ Probing' /\ AnswersAreTrue'
  <2>1. pc = "idle" /\ pc' = pc /\ Outdate /\ probe' = None
      BY <1>4 DEF RestartPlan, Reset, CancelProbe
  <2> QED
      BY <2>1, OutdatedAnswers
<1> QED
    BY <1>1, <1>2, <1>3, <1>4

\* Accepting a route ends its claim and leaves the rest.
LEMMA AcceptPlanAnswers ==
    ASSUME Asking, Probing, AcceptPlan
    PROVE  Asking' /\ Probing' /\ AnswersAreTrue'
<1>1. /\ pc = "idle" /\ pc' = pc /\ Outdate
      /\ UNCHANGED <<worldVars, mapVars, searchVars, position, probeVars>>
    BY DEF AcceptPlan
<1>2. UNCHANGED <<grid, delta, mapVars, missed, bounds, start, goal, position, probeVars>>
    BY <1>1 DEF worldVars, searchVars
<1>3. Asking' /\ Probing'
    BY <1>1, <1>2, CallGoesOn
<1> QED
    BY <1>1, <1>3, NothingYet DEF Outdate

\* A suspended probe has not answered yet.
LEMMA SuspendProbeAnswers ==
    ASSUME Asking, Probing, SuspendProbe
    PROVE  Asking' /\ Probing' /\ AnswersAreTrue'
<1>1. /\ pc' = "idle" /\ result' = "pending"
      /\ UNCHANGED <<worldVars, mapVars, searchVars, position, probeVars>>
    BY DEF SuspendProbe, Suspend
<1>2. UNCHANGED <<grid, delta, mapVars, missed, bounds, start, goal, position, probeVars>>
    BY <1>1 DEF worldVars, searchVars
<1>3. Asking' /\ Probing'
    BY <1>1, <1>2, CallGoesOn
<1> QED
    BY <1>1, <1>3, NothingYet

\* Nothing happens.
LEMMA StutteringAnswers ==
    ASSUME Asking, Probing, AnswersAreTrue, UNCHANGED vars
    PROVE  Asking' /\ Probing' /\ AnswersAreTrue'
<1>1. /\ UNCHANGED <<grid, delta, mapVars, missed, bounds, start, goal, position, probeVars>>
      /\ pc' = pc /\ result' = result
    BY DEF vars, worldVars, searchVars, answerVars
<1>2. UNCHANGED <<grid, states, peerForbidden, missed, bounds, start, goal, position, answerVars>>
    BY DEF vars, worldVars, mapVars, searchVars
<1> QED
    BY <1>1, <1>2, CallGoesOn, AnswersAreLeft

\* Every action keeps the answers true.
LEMMA NextAnswers == AInv /\ [Next]_vars => AInv'
<1> SUFFICES ASSUME AInv, [Next]_vars PROVE AInv'
    OBVIOUS
<1>1. IInv /\ Prepared /\ Asking /\ Probing /\ AnswersAreTrue
    BY DEF AInv
<1>2. IInv' /\ Prepared'
    BY <1>1, NextKeeps, NextPrepares
<1>3. Asking' /\ Probing' /\ AnswersAreTrue'
  <2>1. CASE \/ \E n \in Novelties : Scan(n[1], n[2])
             \/ \E P \in PeerAreas : PeersMove(P)
             \/ MissDelta
      BY <1>1, <2>1, WorldAnswers
  <2>2. CASE \/ SetPeerForbiddenCells \/ ObserveChanges \/ RecoverUnusablePlan
             \/ \E s \in Starts, t \in Goals : RestartPlan(s, t)
      BY <1>1, <2>2, ForgetfulAnswers
  <2>3. CASE AcceptPlan
      BY <1>1, <2>3, AcceptPlanAnswers
  <2>4. ASSUME NEW s \in Starts, NEW t \in Goals, NEW n \in Budgets,
               BeginSearch(s, t, n) \/ BeginProbe(s, t, n)
        PROVE  Asking' /\ Probing' /\ AnswersAreTrue'
      BY <1>1, <2>4, BeginSearchAnswers, BeginProbeAnswers
  <2>5. CASE Run
      BY <1>1, <2>5, ExpandAnswers, SuspendSearchAnswers, ConcludeAnswers, ProbeFailsAnswers,
         ProbeStepAnswers, SuspendProbeAnswers DEF Run
  <2>6. CASE UNCHANGED vars
      BY <1>1, <2>6, StutteringAnswers
  <2> QED
      BY <2>1, <2>2, <2>3, <2>4, <2>5, <2>6 DEF Next, Call, Advance
<1> QED
    BY <1>2, <1>3 DEF AInv

\* Before the first call nothing is asked, nothing prepared and nothing answered.
LEMMA InitAnswers == Init => AInv
<1> SUFFICES ASSUME Init PROVE AInv
    OBVIOUS
<1>1. IInv
    BY InitHolds
<1>2. goal = None /\ pc = "idle" /\ probe = None /\ result = None
    BY DEF Init
<1>3. Prepared
    BY <1>2 DEF Prepared, Egress, KeysAreLow, Ends
<1>4. Asking
    BY <1>2 DEF Asking
<1>5. Probing
    BY <1>2, Zenon DEF Probing
<1>6. AnswersAreTrue
  <2>1. result # "ready" /\ result # "unreachable"
      BY <1>2, ResultAssumption
  <2> QED
      BY <2>1, Zenon DEF AnswersAreTrue, ReadyIsShortest, NoPathIsReal, BlameIsRight
<1> QED
    BY <1>1, <1>3, <1>4, <1>5, <1>6 DEF AInv

\* The planner answers what a search from scratch on today's map and peers answers: the
\* shortest path, no route, or no route because of peers.
THEOREM AnswersStayTrue == Spec => []AnswersAreTrue
<1>1. AInv => AnswersAreTrue
    BY DEF AInv
<1> QED
    BY <1>1, InitAnswers, NextAnswers, PTL DEF Spec

-----------------------------------------------------------------------------
(* Ways.                                                                      *)

\* A way over the moves of C.
Way(C, p) ==
    /\ p \in Seq(DOMAIN C) /\ p # <<>>
    /\ \A i \in 1 .. Len(p) - 1 : p[i + 1] \in DOMAIN C[p[i]]

\* The cost of a way is the sum of its moves, as far as it goes.
LEMMA TotalIsSum ==
    ASSUME NEW C, IsCostMap(C), NEW p, Way(C, p)
    PROVE  \E f \in [1 .. Len(p) -> 0 .. Inf] :
              /\ Total(C, p) = f[Len(p)] /\ f[1] = 0
              /\ \A n \in 2 .. Len(p) : f[n] = Plus(f[n - 1], C[p[n - 1]][p[n]])
<1> DEFINE N == Len(p)
           E(f, n) == Plus(f[n - 1], C[p[n - 1]][p[n]])
           Def(f) == f = [n \in 1 .. N |-> IF n = 1 THEN 0 ELSE E(f, n)]
           X == 0 .. Inf
           m == N - 1
           G == [e \in Nat \X X |-> IF e[1] \in 1 .. m THEN Plus(e[2], C[p[e[1]]][p[e[1] + 1]]) ELSE 0]
<1>1. N \in Nat /\ N >= 1 /\ m \in Nat /\ \A i \in 1 .. N : p[i] \in DOMAIN C
    BY DEF Way
<1>2. 0 \in X /\ X \subseteq Nat
    BY InfIsNat
<1>3. \A i \in 1 .. m : C[p[i]][p[i + 1]] \in Nat
  <2> SUFFICES ASSUME NEW i \in 1 .. m PROVE C[p[i]][p[i + 1]] \in Nat
      OBVIOUS
  <2>1. p[i] \in DOMAIN C /\ p[i + 1] \in DOMAIN C[p[i]]
      BY <1>1 DEF Way
  <2> QED
      BY <2>1 DEF IsCostMap
<1>4. G \in [Nat \X X -> X]
  <2> SUFFICES ASSUME NEW e \in Nat \X X
               PROVE  (IF e[1] \in 1 .. m THEN Plus(e[2], C[p[e[1]]][p[e[1] + 1]]) ELSE 0) \in X
      OBVIOUS
  <2>1. CASE e[1] \in 1 .. m
    <3>1. e[2] \in Nat /\ C[p[e[1]]][p[e[1] + 1]] \in Nat
        BY <1>2, <1>3, <2>1
    <3> QED
        BY <2>1, <3>1, PlusSaturates
  <2>2. CASE e[1] \notin 1 .. m
      BY <1>2, <2>2
  <2> QED
      BY <2>1, <2>2
<1>5. \A k \in 1 .. m : \A x \in X : G[<<k, x>>] = Plus(x, C[p[k]][p[k + 1]])
    OBVIOUS
<1> HIDE DEF N, X, m, G
<1>6. PICK f : Iterating(f, X, 0, m, G)
    BY <1>1, <1>2, <1>4, Iterates
<1>7. f \in [0 .. m -> X] /\ f[0] = 0 /\ \A k \in 1 .. m : f[k] = Plus(f[k - 1], C[p[k]][p[k + 1]])
  <2>1. f \in [0 .. m -> X] /\ f[0] = 0 /\ \A k \in 1 .. m : f[k] = G[<<k, f[k - 1]>>]
      BY <1>6 DEF Iterating
  <2>2. \A k \in 1 .. m : f[k - 1] \in X
      BY <1>1, <2>1
  <2> QED
      BY <1>5, <2>1, <2>2
<1> DEFINE h == [n \in 1 .. N |-> f[n - 1]]
<1>8. \A n \in 1 .. N : h[n] = IF n = 1 THEN 0 ELSE E(h, n)
  <2> SUFFICES ASSUME NEW n \in 1 .. N PROVE h[n] = IF n = 1 THEN 0 ELSE E(h, n)
      OBVIOUS
  <2>1. CASE n = 1
      BY <1>7, <2>1
  <2>2. CASE n # 1
    <3>1. n - 1 \in 1 .. m /\ n - 1 \in 1 .. N /\ (n - 1) + 1 = n
        BY <1>1, <2>2 DEF m
    <3>2. f[n - 1] = Plus(f[(n - 1) - 1], C[p[n - 1]][p[(n - 1) + 1]])
        BY <1>7, <3>1
    <3>3. h[n] = f[n - 1] /\ h[n - 1] = f[(n - 1) - 1]
        BY <3>1
    <3> QED
        BY <2>2, <3>1, <3>2, <3>3
  <2> QED
      BY <2>1, <2>2
<1>9. Def(h)
  <2> HIDE DEF E
  <2>1. h = [n \in 1 .. N |-> h[n]]
      OBVIOUS
  <2>2. [n \in 1 .. N |-> h[n]] = [n \in 1 .. N |-> IF n = 1 THEN 0 ELSE E(h, n)]
    <3> HIDE DEF h
    <3> QED
        BY <1>8, Zenon
  <2> HIDE DEF h
  <2> QED
      BY <2>1, <2>2, Zenon
<1>10. PICK s : Def(s) /\ Total(C, p) = s[N]
  <2> HIDE DEF h
  <2>1. Def(CHOOSE s : Def(s))
      BY <1>9, Zenon
  <2>2. Total(C, p) = (CHOOSE s : Def(s))[N]
      BY Zenon DEF Total, N
  <2> QED
      BY <2>1, <2>2, Zenon
<1>11. /\ DOMAIN s = 1 .. N
       /\ \A n \in 1 .. N : s[n] = IF n = 1 THEN 0 ELSE E(s, n)
    BY <1>10
<1>12. s[1] = 0 /\ \A n \in 2 .. N : s[n] = Plus(s[n - 1], C[p[n - 1]][p[n]])
    BY <1>1, <1>11
<1>13. \A n \in 1 .. N : s[n] \in X
  <2> DEFINE S == {k \in 0 .. m : s[k + 1] \in X}
  <2>1. 0 \in S
      BY <1>1, <1>2, <1>12
  <2>2. ASSUME NEW k \in 0 .. m - 1, k \in S PROVE k + 1 \in S
    <3>1. k + 2 \in 2 .. N /\ (k + 2) - 1 = k + 1 /\ k + 1 \in 1 .. m /\ (k + 1) + 1 = k + 2
        BY <1>1, <2>2 DEF m
    <3>2. s[k + 2] = Plus(s[k + 1], C[p[k + 1]][p[k + 2]])
        BY <1>12, <3>1
    <3>3. s[k + 1] \in Nat /\ C[p[k + 1]][p[k + 2]] \in Nat
      <4>1. C[p[k + 1]][p[(k + 1) + 1]] \in Nat
          BY <1>3, <3>1
      <4> QED
          BY <1>2, <2>2, <3>1, <4>1
    <3>4. s[k + 2] \in X
        BY <3>2, <3>3, PlusSaturates DEF X
    <3>5. k + 1 \in 0 .. m /\ (k + 1) + 1 = k + 2
        BY <1>1
    <3> QED
        BY <3>4, <3>5
  <2> HIDE DEF S
  <2>3. 0 .. m \subseteq S
      BY <1>1, <2>1, <2>2, CountingUp
  <2> SUFFICES ASSUME NEW n \in 1 .. N PROVE s[n] \in X
      OBVIOUS
  <2>4. n - 1 \in 0 .. m /\ (n - 1) + 1 = n
      BY <1>1 DEF m
  <2>5. n - 1 \in S
      BY <2>3, <2>4
  <2> QED
      BY <2>4, <2>5 DEF S
<1>14. s = [n \in 1 .. N |-> s[n]]
  <2> DEFINE q == [n \in 1 .. N |-> IF n = 1 THEN 0 ELSE E(s, n)]
  <2>1. s = q
      BY <1>10
  <2>2. \A n \in 1 .. N : q[n] = s[n]
      BY <2>1
  <2>3. q = [n \in DOMAIN q |-> q[n]]
      OBVIOUS
  <2> QED
      BY <1>11, <2>1, <2>3
<1> HIDE DEF Def
<1>15. s \in [1 .. N -> X]
    BY <1>13, <1>14
<1> QED
    BY <1>10, <1>12, <1>15 DEF N, X

\* No way to the target costs less than the distance of its first cell.
LEMMA NoWayIsCheaper ==
    ASSUME NEW C, IsCostMap(C), NEW most, Bounded(C, most), NEW p, Way(C, p)
    PROVE  DistanceIn(C, p[1], p[Len(p)]) <= Total(C, p) /\ Total(C, p) \in 0 .. Inf
<1> DEFINE N == Len(p)
           t == p[N]
           D(c) == DistanceIn(C, c, t)
<1>1. N \in Nat /\ N >= 1 /\ N - 1 \in Nat /\ \A i \in 1 .. N : p[i] \in DOMAIN C
    BY DEF Way
<1>2. \A n \in 2 .. N : /\ n \in 1 .. N /\ n - 1 \in 1 .. N
                        /\ p[n] \in DOMAIN C[p[n - 1]] /\ C[p[n - 1]][p[n]] \in Nat
  <2> SUFFICES ASSUME NEW n \in 2 .. N
               PROVE  /\ n \in 1 .. N /\ n - 1 \in 1 .. N
                      /\ p[n] \in DOMAIN C[p[n - 1]] /\ C[p[n - 1]][p[n]] \in Nat
      OBVIOUS
  <2>1. n - 1 \in 1 .. N - 1 /\ n - 1 \in 1 .. N /\ (n - 1) + 1 = n /\ n \in 1 .. N
      BY <1>1
  <2>2. p[(n - 1) + 1] \in DOMAIN C[p[n - 1]] /\ p[n - 1] \in DOMAIN C
      BY <1>1, <2>1 DEF Way
  <2> QED
      BY <2>1, <2>2 DEF IsCostMap
<1>3. PICK f \in [1 .. N -> 0 .. Inf] :
          /\ Total(C, p) = f[N] /\ f[1] = 0
          /\ \A n \in 2 .. N : f[n] = Plus(f[n - 1], C[p[n - 1]][p[n]])
    BY TotalIsSum
<1>4. t \in DOMAIN C
    BY <1>1
<1> HIDE DEF N, t
<1>5. /\ \A c : D(c) \in 0 .. Inf
      /\ D(t) = 0
    BY <1>4, DistanceIsNumber, DistanceOfTarget
<1>6. Inf \in Nat
    BY InfIsNat
<1>7. \A n \in 1 .. N : f[n] \in Nat /\ f[n] <= Inf
    BY <1>6
<1>8. \A c : D(c) \in Nat /\ D(c) <= Inf
    BY <1>5, <1>6
<1>9. CASE f[N] < Inf
  <2> HIDE DEF D
  <2> DEFINE S == {k \in 0 .. N - 1 : D(p[N - k]) < Inf /\ D(p[N - k]) + f[N - k] <= f[N]}
  <2>1. 0 \in S
    <3>1. N - 0 = N /\ 0 \in 0 .. N - 1 /\ f[N] \in Nat /\ p[N] = t
        BY <1>1, <1>7 DEF t
    <3>2. D(p[N]) = 0
        BY <1>5, <3>1
    <3>3. 0 < Inf
        BY <1>6, <1>9, <3>1
    <3> QED
        BY <3>1, <3>2, <3>3
  <2>2. ASSUME NEW k \in 0 .. (N - 1) - 1, k \in S PROVE k + 1 \in S
    <3> DEFINE n == N - k
               c == C[p[n - 1]][p[n]]
               a == D(p[n])
               b == D(p[n - 1])
    <3>1. n \in 2 .. N /\ n \in Nat /\ N - (k + 1) = n - 1 /\ k + 1 \in 0 .. N - 1
        BY <1>1, <2>2
    <3>2. a < Inf /\ a + f[n] <= f[N]
        BY <2>2
    <3> HIDE DEF n
    <3>3. f[n] \in Nat /\ f[n - 1] \in Nat /\ f[N] \in Nat /\ a \in Nat /\ b \in Nat /\ c \in Nat
        BY <1>1, <1>2, <1>7, <1>8, <3>1
    <3>4. f[n] = Plus(f[n - 1], c)
        BY <1>3, <3>1
    <3>5. p[n] \in DOMAIN C[p[n - 1]] /\ p[n - 1] \in DOMAIN C
        BY <1>1, <1>2, <3>1
    <3> HIDE DEF a, b, c
    <3>6. f[n] < Inf
        BY <1>6, <1>9, <3>2, <3>3
    <3>7. f[n] = f[n - 1] + c /\ c < Inf
        BY <1>6, <3>3, <3>4, <3>6 DEF Plus, Lesser
    <3>8. b < Inf /\ b <= c + a
      <4>1. C[p[n - 1]][p[n]] < Inf /\ DistanceIn(C, p[n], t) < Inf
          BY <3>2, <3>7 DEF a, c, D
      <4> QED
          BY <1>4, <3>5, <4>1, DistanceIsLeast DEF a, b, c, D
    <3>9. b + f[n - 1] <= f[N]
        BY <3>2, <3>3, <3>7, <3>8
    <3> QED
        BY <3>1, <3>8, <3>9 DEF b
  <2> HIDE DEF S
  <2>3. 0 .. N - 1 \subseteq S
      BY <1>1, <2>1, <2>2, CountingUp
  <2>4. N - 1 \in S /\ N - (N - 1) = 1
      BY <1>1, <2>3
  <2>5. D(p[1]) + f[1] <= f[N]
      BY <2>4 DEF S
  <2>6. D(p[1]) \in Nat /\ f[1] = 0
      BY <1>3, <1>8
  <2>7. D(p[1]) <= f[N]
      BY <2>5, <2>6
  <2> QED
      BY <1>1, <1>3, <2>7 DEF D, t, N
<1>10. CASE ~(f[N] < Inf)
  <2>1. f[N] = Inf
      BY <1>1, <1>6, <1>7, <1>10
  <2>2. D(p[1]) <= Inf
      BY <1>8
  <2> QED
      BY <1>1, <1>3, <1>6, <2>1, <2>2 DEF t, N
<1> QED
    BY <1>9, <1>10

\* Every move of a way can be made.
Passable(C, p) == \A i \in 1 .. Len(p) - 1 : C[p[i]][p[i + 1]] < Inf

\* A cell before a way.
LEMMA WayIsExtended ==
    ASSUME NEW C, IsCostMap(C), NEW p, Way(C, p), Passable(C, p),
           NEW d \in DOMAIN C, p[1] \in DOMAIN C[d], C[d][p[1]] < Inf
    PROVE  /\ Way(C, <<d>> \o p) /\ Passable(C, <<d>> \o p)
           /\ (<<d>> \o p)[1] = d
           /\ (<<d>> \o p)[Len(<<d>> \o p)] = p[Len(p)]
<1> DEFINE q == <<d>> \o p
           N == Len(p)
<1>1. p \in Seq(DOMAIN C) /\ N \in Nat /\ N >= 1
    BY DEF Way
<1>2. /\ q \in Seq(DOMAIN C) /\ Len(q) = N + 1 /\ q[1] = d
      /\ \A i \in 1 .. N : q[i + 1] = p[i]
    BY <1>1
<1>3. \A i \in 1 .. N - 1 : p[i + 1] \in DOMAIN C[p[i]] /\ C[p[i]][p[i + 1]] < Inf
    BY DEF Way, Passable
<1> HIDE DEF q, N
<1>4. \A i \in 1 .. N : q[i + 1] \in DOMAIN C[q[i]] /\ C[q[i]][q[i + 1]] < Inf
  <2> SUFFICES ASSUME NEW i \in 1 .. N
               PROVE  q[i + 1] \in DOMAIN C[q[i]] /\ C[q[i]][q[i + 1]] < Inf
      OBVIOUS
  <2>1. CASE i = 1
    <3>1. q[i] = d /\ q[i + 1] = p[1]
        BY <1>1, <1>2, <2>1
    <3> QED
        BY <3>1
  <2>2. CASE i # 1
    <3>1. i - 1 \in 1 .. N - 1 /\ i - 1 \in 1 .. N /\ (i - 1) + 1 = i
        BY <1>1, <2>2
    <3>2. q[i] = p[i - 1] /\ q[i + 1] = p[(i - 1) + 1]
        BY <1>2, <3>1
    <3> QED
        BY <1>3, <3>1, <3>2
  <2> QED
      BY <2>1, <2>2
<1>5. Len(q) - 1 = N /\ q # <<>> /\ q[Len(q)] = p[N]
  <2>1. Len(q) - 1 = N /\ N \in 1 .. N
      BY <1>1, <1>2
  <2>2. q[N + 1] = p[N]
      BY <1>2, <2>1
  <2>3. q # <<>>
      BY <1>1, <1>2
  <2> QED
      BY <1>2, <2>1, <2>2, <2>3
<1>6. Way(C, q) /\ Passable(C, q)
    BY <1>2, <1>4, <1>5 DEF Way, Passable
<1> QED
    BY <1>2, <1>5, <1>6 DEF q, N

\* A distance is finite exactly when there is a way whose moves can all be made.
LEMMA WaysAreDistances ==
    ASSUME NEW C, IsCostMap(C), NEW most, Bounded(C, most), NEW s \in DOMAIN C, NEW t \in DOMAIN C
    PROVE  DistanceIn(C, s, t) < Inf
              <=> \E p : Way(C, p) /\ p[1] = s /\ p[Len(p)] = t /\ Passable(C, p)
<1> DEFINE Leads(c) == \E p : Way(C, p) /\ p[1] = c /\ p[Len(p)] = t /\ Passable(C, p)
<1>1. ASSUME DistanceIn(C, s, t) < Inf PROVE Leads(s)
  <2> DEFINE Q == {c \in DOMAIN C : Leads(c)}
  <2>1. t \in Q
    <3>1. Way(C, <<t>>) /\ <<t>>[1] = t /\ <<t>>[Len(<<t>>)] = t /\ Passable(C, <<t>>)
        BY DEF Way, Passable
    <3> QED
        BY <3>1, Zenon
  <2>2. ASSUME NEW c \in Q \cap DOMAIN C, NEW d \in DOMAIN C[c],
               DistanceIn(C, c, t) < Inf, DistanceIn(C, d, t) < Inf,
               DistanceIn(C, d, t) = C[d][c] + DistanceIn(C, c, t)
        PROVE  d \in Q
    <3>1. d \in DOMAIN C /\ c \in DOMAIN C[d] /\ C[d][c] \in Nat
        BY DEF IsCostMap
    <3>2. DistanceIn(C, c, t) \in 0 .. Inf
        BY DistanceIsNumber
    <3>3. C[d][c] < Inf
        BY <2>2, <3>1, <3>2, InfIsNat
    <3>4. PICK p : Way(C, p) /\ p[1] = c /\ p[Len(p)] = t /\ Passable(C, p)
        BY Zenon
    <3>5. /\ Way(C, <<d>> \o p) /\ Passable(C, <<d>> \o p)
          /\ (<<d>> \o p)[1] = d /\ (<<d>> \o p)[Len(<<d>> \o p)] = t
        BY <3>1, <3>3, <3>4, WayIsExtended
    <3>6. Leads(d)
        BY <3>5, Zenon
    <3> QED
        BY <3>1, <3>6
  <2> HIDE DEF Q
  <2>3. s \in Q
      BY <1>1, <2>1, <2>2, DistanceIsTree
  <2> QED
      BY <2>3 DEF Q
<1>2. ASSUME NEW p, Way(C, p), p[1] = s, p[Len(p)] = t, Passable(C, p)
      PROVE  DistanceIn(C, s, t) < Inf
  <2> DEFINE N == Len(p)
             S == {k \in 0 .. N - 1 : DistanceIn(C, p[N - k], t) < Inf}
  <2>1. N \in Nat /\ N >= 1 /\ \A i \in 1 .. N : p[i] \in DOMAIN C
      BY <1>2 DEF Way
  <2>2. \A i \in 1 .. N - 1 : p[i + 1] \in DOMAIN C[p[i]] /\ C[p[i]][p[i + 1]] < Inf
      BY <1>2 DEF Way, Passable
  <2>3. p[N] = t
      BY <1>2
  <2> HIDE DEF N
  <2>4. 0 \in S
    <3>1. 0 < Inf
      <4>1. Inf # 0
        <5>1. most * (Cardinality(DOMAIN C) + 1) < Inf /\ most \in Nat /\ IsFiniteSet(DOMAIN C)
            BY DEF Bounded, IsCostMap
        <5>2. Cardinality(DOMAIN C) \in Nat
            BY <5>1, FS_CardinalityType
        <5>3. most * (Cardinality(DOMAIN C) + 1) \in Nat
            BY <5>1, <5>2, Times
        <5> QED
            BY <5>1, <5>3, InfIsNat
      <4> QED
          BY <4>1, InfIsNat
    <3>2. N - 0 = N /\ 0 \in 0 .. N - 1
        BY <2>1
    <3> QED
        BY <2>3, <3>1, <3>2, DistanceOfTarget
  <2>5. ASSUME NEW k \in 0 .. (N - 1) - 1, k \in S PROVE k + 1 \in S
    <3> DEFINE i == N - (k + 1)
    <3>1. i \in 1 .. N - 1 /\ i \in 1 .. N /\ i + 1 = N - k /\ k + 1 \in 0 .. N - 1
        BY <2>1
    <3>2. DistanceIn(C, p[i + 1], t) < Inf
        BY <2>5, <3>1
    <3>3. p[i] \in DOMAIN C /\ p[i + 1] \in DOMAIN C[p[i]] /\ C[p[i]][p[i + 1]] < Inf
        BY <2>1, <2>2, <3>1
    <3> HIDE DEF i
    <3>4. DistanceIn(C, p[i], t) < Inf
        BY <3>2, <3>3, DistanceIsLeast
    <3> QED
        BY <3>1, <3>4 DEF i
  <2> HIDE DEF S
  <2>6. 0 .. N - 1 \subseteq S
      BY <2>1, <2>4, <2>5, CountingUp
  <2>7. N - 1 \in S /\ N - (N - 1) = 1
      BY <2>1, <2>6
  <2> QED
      BY <1>2, <2>7 DEF S
<1> QED
    BY <1>1, <1>2, Zenon

\* An answer is one to a request, and a route leads through cells.
Noted ==
    /\ result # None => goal # None
    /\ result = "ready" /\ ~missed => path \in Seq(Cells) /\ path # <<>>

\* Every action keeps it.
LEMMA NextNotes ==
    ASSUME AInv, Noted, [Next]_vars
    PROVE  Noted'
<1>1. /\ IInv /\ Prepared /\ Asking /\ Probing
      /\ pc # "idle" => goal # None
    BY DEF AInv, IInv, Called
<1>2. CASE result' = None
    BY <1>2, ResultAssumption DEF Noted
<1>3. ASSUME UNCHANGED <<result, path, missed, goal>> PROVE Noted'
    BY <1>3 DEF Noted
<1>4. ASSUME pc # "idle", UNCHANGED searchVars, result' # "ready" PROVE Noted'
    BY <1>1, <1>4 DEF Noted, searchVars
<1>5. CASE \/ \E n \in Novelties : Scan(n[1], n[2])
           \/ \E P \in PeerAreas : PeersMove(P)
           \/ MissDelta \/ SetPeerForbiddenCells \/ ObserveChanges
           \/ RecoverUnusablePlan \/ AcceptPlan
           \/ \E s \in Starts, t \in Goals : RestartPlan(s, t)
  <2>1. result' = None
      BY <1>5 DEF Scan, PeersMove, MissDelta, SetPeerForbiddenCells, ObserveChanges,
                  RecoverUnusablePlan, AcceptPlan, RestartPlan, Outdate
  <2> QED
      BY <1>2, <2>1
<1>6. ASSUME NEW s \in Starts, NEW t \in Goals, NEW n \in Budgets, BeginSearch(s, t, n)
      PROVE  Noted'
  <2>1. result' # "ready" /\ goal' = t
      BY <1>1, <1>6, BeginSearchAnswers
  <2>2. t # None
      BY WorldIsCells, WorldAssumption
  <2> QED
      BY <2>1, <2>2 DEF Noted
<1>7. ASSUME NEW s \in Starts, NEW t \in Goals, NEW n \in Budgets, BeginProbe(s, t, n)
      PROVE  Noted'
    BY <1>2, <1>7 DEF BeginProbe
<1>8. CASE Run
  <2>1. CASE Expand
      BY <1>3, <2>1 DEF Expand, answerVars
  <2>2. CASE SuspendSearch
    <3>1. pc # "idle" /\ UNCHANGED searchVars
        BY <2>2 DEF SuspendSearch, Searching
    <3>2. result' # "ready"
        BY <2>2 DEF SuspendSearch, Suspend, Fail
    <3> QED
        BY <1>4, <3>1, <3>2
  <2>3. CASE Conclude
    <3>1. pc = "search" /\ pc # "idle"
        BY <2>3 DEF Conclude
    <3>2. CASE ExtractPath # <<>> /\ path' = ExtractPath /\ UNCHANGED searchVars
      <4>1. ASSUME ~missed PROVE ExtractPath \in Seq(Cells)
        <5>1. Concluding
            BY <1>1, <2>3, <4>1, ConcludesInTime
        <5>2. Window \subseteq Cells /\ g[start] \in Nat /\ Inf \in Nat
            BY <5>1, ConcludingFacts, InfIsNat
        <5>3. g[start] < Inf
          <6>1. ~(g[start] >= Inf)
              BY <3>2, Zenon DEF ExtractPath
          <6> QED
              BY <5>2, <6>1
        <5>4. ExtractPath \in Seq(Window)
            BY <5>1, <5>3, PathIsShortest
        <5> DEFINE r == ExtractPath
        <5> HIDE DEF r
        <5>5. ASSUME r \in Seq(Window) PROVE r \in Seq(Cells)
            BY <5>2, <5>5
        <5> QED
            BY <5>4, <5>5 DEF r
      <4> QED
          BY <1>1, <3>1, <3>2, <4>1 DEF Noted, searchVars
    <3>3. CASE Reset(start, goal) /\ Suspend
        BY <1>1, <3>1, <3>3 DEF Noted, Reset, Suspend
    <3>4. CASE UNCHANGED <<searchVars, answerVars>>
        BY <1>3, <3>4 DEF searchVars, answerVars
    <3>5. ASSUME NEW why, Fail(why, FALSE), UNCHANGED searchVars PROVE Noted'
      <4>1. result' # "ready"
          BY <3>5 DEF Fail
      <4> QED
          BY <1>4, <3>1, <3>5, <4>1
    <3> QED
        BY <2>3, <3>2, <3>3, <3>4, <3>5, ConcludeCases
  <2>4. CASE ProbeFails
    <3>1. pc # "idle" /\ UNCHANGED searchVars /\ result' # "ready"
        BY <2>4 DEF ProbeFails, Blamed, Fail
    <3> QED
        BY <1>4, <3>1
  <2>5. CASE ProbeStep
    <3>1. pc # "idle" /\ UNCHANGED searchVars /\ (Blamed(TRUE) \/ UNCHANGED answerVars)
        BY <2>5, Zenon DEF ProbeStep
    <3>2. CASE Blamed(TRUE)
      <4>1. result' # "ready"
          BY <3>2 DEF Blamed, Fail
      <4> QED
          BY <1>4, <3>1, <4>1
    <3>3. CASE UNCHANGED answerVars
        BY <1>3, <3>1, <3>3 DEF searchVars, answerVars
    <3> QED
        BY <3>1, <3>2, <3>3
  <2>6. CASE SuspendProbe
    <3>1. pc # "idle" /\ UNCHANGED searchVars /\ result' # "ready"
        BY <2>6 DEF SuspendProbe, Suspend
    <3> QED
        BY <1>4, <3>1
  <2> QED
      BY <1>8, <2>1, <2>2, <2>3, <2>4, <2>5, <2>6 DEF Run
<1>9. CASE UNCHANGED vars
    BY <1>3, <1>9 DEF vars, searchVars, answerVars
<1> QED
    BY <1>5, <1>6, <1>7, <1>8, <1>9 DEF Next, Call, Advance

-----------------------------------------------------------------------------
(* Answers and ways.                                                          *)

\* The moves of a way that costs less than Inf can all be made.
LEMMA FiniteIsPassable ==
    ASSUME NEW C, IsCostMap(C), NEW p, Way(C, p), Total(C, p) < Inf
    PROVE  Passable(C, p)
<1> DEFINE N == Len(p)
<1>1. N \in Nat /\ N >= 1 /\ N - 1 \in Nat
    BY DEF Way
<1>2. PICK f \in [1 .. N -> 0 .. Inf] :
          /\ Total(C, p) = f[N] /\ f[1] = 0
          /\ \A n \in 2 .. N : f[n] = Plus(f[n - 1], C[p[n - 1]][p[n]])
    BY TotalIsSum
<1>3. \A i \in 1 .. N - 1 : C[p[i]][p[i + 1]] \in Nat
  <2> SUFFICES ASSUME NEW i \in 1 .. N - 1 PROVE C[p[i]][p[i + 1]] \in Nat
      OBVIOUS
  <2>1. p[i] \in DOMAIN C /\ p[i + 1] \in DOMAIN C[p[i]]
      BY <1>1 DEF Way
  <2> QED
      BY <2>1 DEF IsCostMap
<1> HIDE DEF N
<1>4. Inf \in Nat /\ \A n \in 1 .. N : f[n] \in Nat
    BY InfIsNat
<1>5. ASSUME NEW i \in 1 .. N - 1, f[i + 1] < Inf
      PROVE  f[i] < Inf /\ C[p[i]][p[i + 1]] < Inf
  <2>1. i + 1 \in 2 .. N /\ (i + 1) - 1 = i /\ i \in 1 .. N
      BY <1>1
  <2>2. f[i + 1] = Plus(f[i], C[p[i]][p[i + 1]])
      BY <1>2, <2>1
  <2>3. f[i] \in Nat /\ C[p[i]][p[i + 1]] \in Nat
      BY <1>3, <1>4, <2>1
  <2> QED
      BY <1>4, <1>5, <2>2, <2>3 DEF Plus, Lesser
<1> DEFINE S == {k \in 0 .. N - 1 : f[N - k] < Inf}
<1>6. 0 \in S
  <2>1. N - 0 = N /\ 0 \in 0 .. N - 1
      BY <1>1
  <2> QED
      BY <1>2, <2>1
<1>7. ASSUME NEW k \in 0 .. (N - 1) - 1, k \in S PROVE k + 1 \in S
  <2>1. N - (k + 1) \in 1 .. N - 1 /\ (N - (k + 1)) + 1 = N - k /\ k + 1 \in 0 .. N - 1
      BY <1>1
  <2>2. f[N - (k + 1)] < Inf
      BY <1>5, <1>7, <2>1
  <2> QED
      BY <2>1, <2>2
<1> HIDE DEF S
<1>8. 0 .. N - 1 \subseteq S
    BY <1>1, <1>6, <1>7, CountingUp
<1>9. ASSUME NEW i \in 1 .. N - 1 PROVE C[p[i]][p[i + 1]] < Inf
  <2>1. N - (i + 1) \in 0 .. N - 1 /\ N - (N - (i + 1)) = i + 1
      BY <1>1
  <2>2. N - (i + 1) \in S
      BY <1>8, <2>1
  <2>3. f[i + 1] < Inf
      BY <2>1, <2>2 DEF S
  <2> QED
      BY <1>5, <2>3
<1> QED
    BY <1>9 DEF Passable, N

\* A way from the start to the goal.
Leads(C, p) == Way(C, p) /\ p[1] = start /\ p[Len(p)] = goal

\* Parts of AnswersHoldOfEveryWay.  A ready path is a way that can be driven, and no way
\* is cheaper.
NoneIsCheaper ==
    (result = "ready" /\ ~missed) =>
        /\ Leads(Costs(peerForbidden), path) /\ Passable(Costs(peerForbidden), path)
        /\ \A p : Leads(Costs(peerForbidden), p) =>
              Total(Costs(peerForbidden), path) <= Total(Costs(peerForbidden), p)

\* When no route is found, every way has a move that cannot be made.
NoneIsOverlooked ==
    (/\ result = "unreachable" /\ ~missed /\ failure \in {"search_exhausted", "path_extraction"}
     /\ start \notin BlockedCells(peerForbidden) /\ goal \notin BlockedCells(peerForbidden)) =>
        \A p : Leads(Costs(peerForbidden), p) => ~Passable(Costs(peerForbidden), p)

\* When a peer is blamed, there is a way that can be driven without the peers; when none
\* is, there is no such way.
BlameHoldsOfWays ==
    (/\ result = "unreachable" /\ ~missed /\ failure = "search_exhausted"
     /\ start \notin BlockedCells(peerForbidden) \/ peerForbidden # {}
     /\ goal \notin BlockedCells({})) =>
        (byPeer <=> \E p : Leads(Costs({}), p) /\ Passable(Costs({}), p))

\* What the answers say of all the ways from the start to the goal.
AnswersHoldOfEveryWay == NoneIsCheaper /\ NoneIsOverlooked /\ BlameHoldsOfWays

\* A route exists when there is a way to drive to a free goal.
LEMMA RoutesAreWays ==
    ASSUME IInv, Ends, goal # None, NEW P
    PROVE  RouteExists(P) <=> /\ goal \notin BlockedCells(P)
                              /\ \E p : Leads(Costs(P), p) /\ Passable(Costs(P), p)
<1> DEFINE C == Costs(P)
<1>1. Boxed /\ Window \subseteq Cells /\ goal \in Window /\ start \in Window
    BY DEF IInv, Searched, Asked, Ends
<1>2. IsCostMap(C) /\ DOMAIN C = Window /\ Bounded(C, Diagonal * UnknownCost)
    BY <1>1, CostsAreMap, CostsAreBounded
<1> HIDE DEF C
<1>3. DistanceIn(C, start, goal) < Inf
         <=> \E p : Way(C, p) /\ p[1] = start /\ p[Len(p)] = goal /\ Passable(C, p)
    BY <1>1, <1>2, WaysAreDistances
<1>4. DistanceIn(C, start, goal) < Inf <=> \E p : Leads(C, p) /\ Passable(C, p)
    BY <1>3, Zenon DEF Leads
<1> QED
    BY <1>4, Zenon DEF RouteExists, DistanceToGoal, C

\* Answers that agree with the reference agree with the ways.
LEMMA TrueAnswersHoldOfWays ==
    ASSUME AInv, Noted
    PROVE  AnswersHoldOfEveryWay
<1>1. IInv /\ Ends /\ AnswersAreTrue
    BY DEF AInv, Prepared
<1>2. NoneIsCheaper
  <2> DEFINE C == Costs(peerForbidden)
  <2> SUFFICES ASSUME result = "ready", ~missed
               PROVE  /\ Leads(C, path) /\ Passable(C, path)
                      /\ \A p : Leads(C, p) => Total(C, path) <= Total(C, p)
      BY Zenon DEF NoneIsCheaper
  <2>1. goal # None /\ path \in Seq(Cells)
      BY ResultAssumption DEF Noted
  <2>2. Boxed /\ Window \subseteq Cells /\ goal \in Window /\ start \in Window
      BY <1>1, <2>1 DEF IInv, Searched, Asked, Ends
  <2>3. /\ path[1] = start /\ path[Len(path)] = goal
        /\ \A i \in 1 .. Len(path) - 1 : path[i + 1] \in Neighbours(path[i])
        /\ Total(C, path) = DistanceIn(C, start, goal) /\ DistanceIn(C, start, goal) < Inf
      BY <1>1 DEF AnswersAreTrue, ReadyIsShortest, DistanceToGoal, RouteExists
  <2>4. /\ IsCostMap(C) /\ DOMAIN C = Window /\ Bounded(C, Diagonal * UnknownCost)
        /\ \A c \in Window : DOMAIN C[c] = Neighbours(c)
      BY <2>2, CostsAreMap, CostsAreBounded
  <2> HIDE DEF C
  <2>5. \A i \in 1 .. Len(path) : path[i] \in Window
    <3> SUFFICES ASSUME NEW i \in 1 .. Len(path) PROVE path[i] \in Window
        OBVIOUS
    <3>1. CASE i = 1
        BY <2>2, <2>3, <3>1
    <3>2. CASE i # 1
      <4>1. /\ i - 1 \in 1 .. Len(path) - 1 /\ i - 1 \in 1 .. Len(path) /\ (i - 1) + 1 = i
          BY <2>1, <3>2
      <4>2. path[i - 1] \in Cells /\ path[i] \in Neighbours(path[i - 1])
          BY <2>1, <2>3, <4>1
      <4>3. path[i - 1] \in Int \X Int
          BY <4>2, CellsAreGrid
      <4> QED
          BY <2>2, <4>2, <4>3, NeighboursAreNear DEF Boxed
    <3> QED
        BY <3>1, <3>2
  <2>6. path # <<>>
      BY ResultAssumption DEF Noted
  <2>7. Way(C, path)
    <3>1. path \in Seq(Window)
        BY <2>1, <2>5
    <3>2. \A i \in 1 .. Len(path) - 1 : path[i + 1] \in DOMAIN C[path[i]]
      <4> SUFFICES ASSUME NEW i \in 1 .. Len(path) - 1 PROVE path[i + 1] \in DOMAIN C[path[i]]
          OBVIOUS
      <4>1. path[i] \in Window
          BY <2>1, <2>5
      <4> QED
          BY <2>3, <2>4, <4>1
    <3> QED
        BY <2>4, <2>6, <3>1, <3>2 DEF Way
  <2>8. Leads(C, path) /\ Passable(C, path)
      BY <2>3, <2>4, <2>7, FiniteIsPassable DEF Leads
  <2>9. ASSUME NEW p, Leads(C, p) PROVE Total(C, path) <= Total(C, p)
    <3>1. Way(C, p) /\ p[1] = start /\ p[Len(p)] = goal
        BY <2>9 DEF Leads
    <3>2. DistanceIn(C, p[1], p[Len(p)]) <= Total(C, p)
        BY <2>4, <3>1, NoWayIsCheaper
    <3> QED
        BY <2>3, <3>1, <3>2
  <2> QED
      BY <2>8, <2>9
<1>3. ASSUME result = "unreachable" PROVE goal # None
    BY <1>3, ResultAssumption DEF Noted
<1>4. NoneIsOverlooked
  <2> SUFFICES ASSUME /\ result = "unreachable" /\ ~missed
                      /\ failure \in {"search_exhausted", "path_extraction"}
                      /\ start \notin BlockedCells(peerForbidden)
                      /\ goal \notin BlockedCells(peerForbidden)
               PROVE  \A p : Leads(Costs(peerForbidden), p) => ~Passable(Costs(peerForbidden), p)
      BY Zenon DEF NoneIsOverlooked
  <2>1. ~RouteExists(peerForbidden)
      BY <1>1 DEF AnswersAreTrue, NoPathIsReal
  <2>2. PICK P \in {peerForbidden} : TRUE
      OBVIOUS
  <2>3. RouteExists(P) <=> /\ goal \notin BlockedCells(P)
                           /\ \E p : Leads(Costs(P), p) /\ Passable(Costs(P), p)
      BY <1>1, <1>3, RoutesAreWays
  <2>4. ~\E p : Leads(Costs(P), p) /\ Passable(Costs(P), p)
    <3>1. P = peerForbidden
        BY <2>2
    <3> QED
        BY <2>1, <2>3, <3>1, Zenon
  <2>5. P = peerForbidden
      BY <2>2
  <2> QED
      BY <2>4, <2>5, Zenon
<1>5. BlameHoldsOfWays
  <2> SUFFICES ASSUME /\ result = "unreachable" /\ ~missed /\ failure = "search_exhausted"
                      /\ start \notin BlockedCells(peerForbidden) \/ peerForbidden # {}
                      /\ goal \notin BlockedCells({})
               PROVE  byPeer <=> \E p : Leads(Costs({}), p) /\ Passable(Costs({}), p)
      BY Zenon DEF BlameHoldsOfWays
  <2>1. byPeer <=> RouteExists({})
      BY <1>1, Zenon DEF AnswersAreTrue, BlameIsRight
  <2>2. RouteExists({}) <=> /\ goal \notin BlockedCells({})
                            /\ \E p : Leads(Costs({}), p) /\ Passable(Costs({}), p)
      BY <1>1, <1>3, RoutesAreWays
  <2> QED
      BY <2>1, <2>2, Zenon
<1> QED
    BY <1>2, <1>4, <1>5 DEF AnswersHoldOfEveryWay

\* A ready path can be driven and no way through the window is cheaper; "no route" is said
\* when every way has a move that cannot be made; a peer is blamed when a way without the
\* peers can be driven, and no peer is when there is none.
THEOREM AnswersStayTrueOfWays == Spec => []AnswersHoldOfEveryWay
<1>1. Init => Noted
    BY ResultAssumption DEF Init, Noted
<1>2. AInv /\ Noted /\ [Next]_vars => AInv' /\ Noted'
    BY NextAnswers, NextNotes
<1>3. AInv /\ Noted => AnswersHoldOfEveryWay
    BY TrueAnswersHoldOfWays
<1> QED
    BY <1>1, <1>2, <1>3, InitAnswers, PTL DEF Spec
=============================================================================
