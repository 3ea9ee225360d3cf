------------------------------- MODULE TileProofs -------------------------------
(***************************************************************************)
(* The two computations over the tiles of a map, for maps of any size.     *)
(*                                                                         *)
(* What the run of AStar shows on nine tiles: the search reaches a tile    *)
(* once, by a step from a tile it took from the frontier; everything else  *)
(* follows from that.                                                      *)
(*                                                                         *)
(* What the run of Fov shows on twenty-five: nothing is seen but past an   *)
(* open tile that is seen, as long as there is no obstacle the edge of the *)
(* view alone decides that; and an obstacle before a tile with nothing in  *)
(* the way begins behind it, in every line.                                *)
(***************************************************************************)
EXTENDS AStar, Fov, SequenceTheorems, WellFoundedInduction, TLAPS


\* The tiles that a turn for current reaches.
NewTiles(current) == {n \in get_neighbours(current) : Improved(n)}

\* The search ends when the goal is taken, so nothing is reached from it.
GoalNotExpanded == \A t \in DOMAIN came_from : came_from[t] # goal

\* A reached tile waits on the frontier, or all around it is reached too.
FrontierBetween ==
  phase = "searching" =>
    \A s \in Reached :
      \/ \E e \in frontier : e[2] = s
      \/ \A t \in walkable : Adjacent(s, t) => t \in Reached

\* The walk uses the entry of the goal as its cursor; the others stay steps.
OtherStepsPossible ==
  /\ \A t \in DOMAIN came_from \ {goal} : t \in walkable /\ Adjacent(t, came_from[t])
  /\ goal \in DOMAIN came_from => goal \in walkable

\* The tiles walked so far lead from the goal to the cursor.
WayToCursor ==
  phase \in {"walking", "arrived"} =>
    /\ goal \in DOMAIN came_from
    /\ \A i \in DOMAIN path : path[i] \in walkable
    /\ path = <<>> => Adjacent(goal, came_from[goal])
    /\ path # <<>> => /\ Adjacent(goal, path[1])
                      /\ Adjacent(path[Len(path)], came_from[goal])
    /\ \A i \in 1 .. Len(path) - 1 : Adjacent(path[i], path[i + 1])
    /\ phase = "arrived" => came_from[goal] = start

NothingWalked == phase \in {"searching", "returned"} => path = <<>>

SearchInv ==
  /\ GoalNotExpanded
  /\ StepsPossible
  /\ NoCircle
  /\ FrontierBetween
  /\ NothingMissed

WalkInv ==
  /\ NothingWalked
  /\ OtherStepsPossible
  /\ WayToCursor

IInv == TypeOK /\ start \in Reached /\ SearchInv /\ WalkInv

-----------------------------------------------------------------------------
\* get_neighbours finds the walkable tiles a creature can step to.
LEMMA NeighboursAdjacent ==
  ASSUME walkable \in SUBSET Tiles, NEW s \in Tiles, NEW t \in walkable
  PROVE  t \in get_neighbours(s) <=> Adjacent(s, t)
<1>1. \A a \in Int : \A size \in Nat : \A b \in 0 .. size - 1 :
        a \in 0 .. size - 1 => (b \in Around(a, size) <=> Distance(a, b) <= 1)
  BY DEF Around, Distance
<1>2. /\ t = <<t[1], t[2]>> /\ t[1] \in 0 .. Width - 1 /\ t[2] \in 0 .. Height - 1
      /\ s[1] \in 0 .. Width - 1 /\ s[2] \in 0 .. Height - 1
  BY DEF Tiles
<1>3. tile_is_walkable(t[1], t[2])
  BY <1>2 DEF tile_is_walkable
<1>4. Adjacent(s, t) <=> t[1] \in Around(s[1], Width) /\ t[2] \in Around(s[2], Height)
  BY <1>1, <1>2, SizeAssumption DEF Adjacent, Within
<1>5. t \in get_neighbours(s) <=> t \in Around(s[1], Width) \X Around(s[2], Height)
  BY <1>3 DEF get_neighbours
<1> QED
  BY <1>2, <1>4, <1>5

\* Whatever get_neighbours finds is walkable.
LEMMA NeighboursWalkable ==
  ASSUME NEW s
  PROVE  get_neighbours(s) \subseteq walkable
BY DEF get_neighbours, tile_is_walkable

\* A step can be made in either direction.
LEMMA AdjacentBothWays ==
  ASSUME NEW s \in Tiles, NEW t \in Tiles, Adjacent(s, t)
  PROVE  Adjacent(t, s)
BY DEF Adjacent, Within, Distance, Tiles

\* The cost of a tile that was reached is never improved on.
LEMMA ImprovedIsNew ==
  ASSUME TypeOK, NEW n
  PROVE  Improved(n) <=> n \notin Reached
<1>1. CASE n \in Reached
  <2>1. cost_so_far[n] \in Nat /\ new_cost(n) = cost_so_far[n] + 1
    BY <1>1 DEF TypeOK, new_cost
  <2> QED BY <1>1, <2>1 DEF Improved
<1>2. CASE n \notin Reached
  BY <1>2 DEF Improved
<1> QED BY <1>1, <1>2

\* One turn of the loop for a tile that is not the goal: what it reaches was
\* not reached before, can be stepped to, and is all there is around the tile.
LEMMA VisitReaches ==
  ASSUME TypeOK, start \in Reached,
         NEW current \in Reached, NEW rest \in SUBSET frontier,
         Visit(current, rest)
  PROVE  /\ NewTiles(current) \subseteq walkable
         /\ NewTiles(current) \cap Reached = {}
         /\ Reached' = Reached \cup NewTiles(current)
         /\ cost_so_far' \in [Reached' -> Nat]
         /\ DOMAIN came_from' = (DOMAIN came_from) \cup NewTiles(current)
         /\ \A t \in DOMAIN came_from : came_from'[t] = came_from[t]
         /\ \A t \in NewTiles(current) : came_from'[t] = current /\ Adjacent(t, current)
         /\ \A t \in walkable : Adjacent(current, t) => t \in Reached'
         /\ \A t \in NewTiles(current) : \E e \in frontier' : e[2] = t
         /\ rest \subseteq frontier'
         /\ frontier' \in SUBSET (Nat \X Reached')
<1> DEFINE N == NewTiles(current)
<1>1. walkable \in SUBSET Tiles /\ current \in Tiles /\ goal \in Tiles
  BY DEF TypeOK
<1>2. N \subseteq walkable /\ N \cap Reached = {}
  BY ImprovedIsNew, NeighboursWalkable DEF NewTiles
<1>3. \A n \in N : new_cost(n) = 1 /\ heuristic(n, goal) \in Nat
  BY <1>1, <1>2 DEF new_cost, heuristic, Distance, Tiles
<1>4. Reached' = Reached \cup N
  BY DEF Visit, NewTiles, Reached
<1>5. cost_so_far' \in [Reached' -> Nat]
  <2>1. cost_so_far' = [n \in Reached \cup N |-> IF n \in N THEN new_cost(n) ELSE cost_so_far[n]]
    BY DEF Visit, NewTiles
  <2>2. \A n \in Reached : cost_so_far[n] \in Nat
    BY DEF TypeOK
  <2> QED BY <1>3, <1>4, <2>1, <2>2
<1>6. came_from' = [n \in (DOMAIN came_from) \cup N |-> IF n \in N THEN current ELSE came_from[n]]
  BY DEF Visit, NewTiles
<1>7. \A t \in DOMAIN came_from : came_from'[t] = came_from[t]
  <2>1. DOMAIN came_from \subseteq Reached
    BY DEF TypeOK
  <2> QED BY <1>2, <1>6, <2>1
<1>8. \A t \in N : Adjacent(t, current)
  BY <1>1, <1>2, NeighboursAdjacent, AdjacentBothWays DEF NewTiles
<1>9. ASSUME NEW t \in walkable, Adjacent(current, t)
      PROVE  t \in Reached'
  BY <1>1, <1>4, <1>9, NeighboursAdjacent, ImprovedIsNew DEF NewTiles
<1>10. frontier' = rest \cup {<<new_cost(n) + heuristic(n, goal), n>> : n \in N}
  BY DEF Visit, NewTiles
<1>11. ASSUME NEW t \in N PROVE \E e \in frontier' : e[2] = t
  <2>1. <<new_cost(t) + heuristic(t, goal), t>> \in frontier'
    BY <1>10
  <2> QED BY <2>1
<1>12. frontier' \in SUBSET (Nat \X Reached')
  <2>1. rest \in SUBSET (Nat \X Reached')
    BY <1>4 DEF TypeOK
  <2>2. \A n \in N : <<new_cost(n) + heuristic(n, goal), n>> \in Nat \X Reached'
    BY <1>3, <1>4
  <2> QED BY <1>10, <2>1, <2>2
<1> QED BY <1>2, <1>4, <1>5, <1>6, <1>7, <1>8, <1>9, <1>10, <1>11, <1>12

-----------------------------------------------------------------------------
\* A search about to begin has reached the start alone.
LEMMA InitInv == Init => IInv
<1> SUFFICES ASSUME Init PROVE IInv
  OBVIOUS
<1>1. Reached = {start} /\ came_from = <<>> /\ DOMAIN came_from = {}
  BY DEF Init, Reached
<1>2. TypeOK
  <2>1. cost_so_far \in [Reached -> Nat]
    BY DEF Init, Reached
  <2>2. came_from \in [Reached \ {start} -> Reached]
    BY <1>1
  <2>3. path \in Seq(Reached)
    BY DEF Init
  <2> QED BY <1>1, <2>1, <2>2, <2>3 DEF Init, TypeOK
<1>3. FrontierBetween
  BY <1>1 DEF Init, FrontierBetween
<1>4. NoCircle
  BY <1>1 DEF NoCircle
<1>5. GoalNotExpanded /\ StepsPossible /\ NothingMissed
  BY <1>1 DEF Init, GoalNotExpanded, StepsPossible, NothingMissed
<1>6. WalkInv
  BY <1>1 DEF Init, WalkInv, NothingWalked, OtherStepsPossible, WayToCursor
<1> QED BY <1>1, <1>2, <1>3, <1>4, <1>5, <1>6 DEF IInv, SearchInv

\* A turn that reaches tiles from one that is not the goal.
LEMMA VisitInv ==
  ASSUME IInv, phase = "searching", NEW best \in frontier, best[2] # goal,
         Visit(best[2], frontier \ {best}),
         phase' = phase, UNCHANGED <<input, path>>
  PROVE  IInv'
<1> DEFINE current == best[2]
           N == NewTiles(current)
<1>1. TypeOK /\ start \in Reached /\ current \in Reached
  BY DEF IInv, TypeOK
<1>2. /\ N \subseteq walkable
      /\ N \cap Reached = {}
      /\ Reached' = Reached \cup N
      /\ cost_so_far' \in [Reached' -> Nat]
      /\ DOMAIN came_from' = (DOMAIN came_from) \cup N
      /\ \A t \in DOMAIN came_from : came_from'[t] = came_from[t]
      /\ \A t \in N : came_from'[t] = current /\ Adjacent(t, current)
      /\ \A t \in walkable : Adjacent(current, t) => t \in Reached'
      /\ \A t \in N : \E e \in frontier' : e[2] = t
      /\ frontier \ {best} \subseteq frontier'
      /\ frontier' \in SUBSET (Nat \X Reached')
  <2> frontier \ {best} \in SUBSET frontier
    OBVIOUS
  <2> HIDE DEF current
  <2> QED BY <1>1, VisitReaches DEF current
<1>3. DOMAIN came_from = Reached \ {start} /\ walkable \subseteq Tiles
  BY <1>1 DEF TypeOK
<1>4. start' = start /\ goal' = goal /\ walkable' = walkable /\ path' = path
  BY DEF input
<1> HIDE DEF N
<1>5. TypeOK'
  <2>1. DOMAIN came_from' = Reached' \ {start}
    BY <1>1, <1>2, <1>3
  <2>2. \A t \in DOMAIN came_from' : came_from'[t] \in Reached'
    BY <1>1, <1>2 DEF TypeOK
  <2>3. came_from' = [t \in DOMAIN came_from' |-> came_from'[t]]
    BY DEF Visit
  <2>4. came_from' \in [Reached' \ {start} -> Reached']
    BY <2>1, <2>2, <2>3
  <2>5. path' \in Seq(Reached')
    <3>1. path = <<>>
      BY DEF IInv, WalkInv, NothingWalked
    <3> QED BY <3>1, <1>4
  <2> QED BY <1>1, <1>2, <1>3, <1>4, <2>4, <2>5 DEF TypeOK
<1>6. GoalNotExpanded'
  BY <1>2, <1>4 DEF IInv, SearchInv, GoalNotExpanded
<1>7. StepsPossible'
  BY <1>2, <1>4 DEF IInv, SearchInv, StepsPossible, Adjacent
<1>8. NoCircle'
  <2> SUFFICES ASSUME NEW S \in SUBSET DOMAIN came_from', S # {}
               PROVE  \E t \in S : came_from'[t] \notin S
    BY DEF NoCircle
  <2>1. CASE S \cap DOMAIN came_from = {}
    <3>1. S \subseteq N
      BY <1>2, <2>1
    <3>2. PICK t \in S : TRUE
      OBVIOUS
    <3>3. came_from'[t] = current /\ current \notin N
      BY <1>1, <1>2, <3>1, <3>2
    <3> QED BY <3>1, <3>3
  <2>2. CASE S \cap DOMAIN came_from # {}
    <3> DEFINE Old == S \cap DOMAIN came_from
    <3>1. PICK t \in Old : came_from[t] \notin Old
      <4>1. Old \in SUBSET DOMAIN came_from /\ Old # {}
        BY <2>2
      <4>2. \A T \in SUBSET DOMAIN came_from : T # {} => \E u \in T : came_from[u] \notin T
        BY DEF IInv, SearchInv, NoCircle
      <4> QED BY <4>1, <4>2
    <3>2. came_from'[t] = came_from[t] /\ came_from[t] \in Reached
      BY <1>1, <1>2, <1>3 DEF TypeOK
    <3>3. start \notin S
      BY <1>1, <1>2, <1>3
    <3>4. came_from[t] \notin S
      BY <1>3, <3>1, <3>2, <3>3
    <3> QED BY <3>1, <3>2, <3>4
  <2> QED BY <2>1, <2>2
<1>9. FrontierBetween'
  <2> SUFFICES ASSUME NEW s \in Reached'
               PROVE  \/ \E e \in frontier' : e[2] = s
                      \/ \A t \in walkable : Adjacent(s, t) => t \in Reached'
    BY <1>4 DEF FrontierBetween, Adjacent
  <2>1. CASE s \in N
    BY <1>2, <2>1
  <2>2. CASE s = current
    BY <1>2, <2>2
  <2>3. CASE s \in Reached /\ s # current
    <3>1. \/ \E e \in frontier : e[2] = s
          \/ \A t \in walkable : Adjacent(s, t) => t \in Reached
      BY <2>3 DEF IInv, SearchInv, FrontierBetween
    <3> QED BY <1>2, <2>3, <3>1
  <2> QED BY <1>2, <2>1, <2>2, <2>3
<1>10. NothingMissed'
  BY DEF NothingMissed
<1>11. OtherStepsPossible'
  <2>1. \A t \in DOMAIN came_from : t \in walkable /\ Adjacent(t, came_from[t])
    BY DEF IInv, SearchInv, StepsPossible
  <2> QED BY <1>2, <1>4, <2>1 DEF OtherStepsPossible, Adjacent
<1>12. NothingWalked' /\ WayToCursor'
  BY <1>4 DEF IInv, WalkInv, NothingWalked, WayToCursor
<1>13. start' \in Reached'
  BY <1>1, <1>2, <1>4
<1> QED BY <1>5, <1>6, <1>7, <1>8, <1>9, <1>10, <1>11, <1>12, <1>13
       DEF IInv, SearchInv, WalkInv

\* The goal was taken, or nothing was left to take: the search is over.
LEMMA ReturnInv ==
  ASSUME IInv, phase = "searching", phase' = "returned",
         frontier' \in SUBSET frontier,
         goal \in Reached \/ frontier = {},
         UNCHANGED <<input, came_from, cost_so_far, path>>
  PROVE  IInv'
<1>1. Reached' = Reached /\ UNCHANGED <<walkable, start, goal, came_from, path>>
  BY DEF Reached, input
<1>2. TypeOK'
  BY <1>1 DEF IInv, TypeOK
<1>3. start' \in Reached' /\ GoalNotExpanded' /\ StepsPossible' /\ NoCircle'
  BY <1>1 DEF IInv, SearchInv, GoalNotExpanded, StepsPossible, NoCircle, Adjacent
<1>4. FrontierBetween' /\ WayToCursor'
  BY DEF FrontierBetween, WayToCursor
<1>5. NothingMissed'
  BY <1>1 DEF IInv, SearchInv, FrontierBetween, NothingMissed, Adjacent
<1>6. NothingWalked' /\ OtherStepsPossible'
  BY <1>1 DEF IInv, WalkInv, NothingWalked, OtherStepsPossible, Adjacent
<1> QED BY <1>2, <1>3, <1>4, <1>5, <1>6 DEF IInv, SearchInv, WalkInv

\* A turn of the loop: the goal is taken, or tiles are reached.
LEMMA SearchStep == IInv /\ Search => IInv'
<1> SUFFICES ASSUME IInv, Search PROVE IInv'
  OBVIOUS
<1>1. PICK best \in frontier :
        IF best[2] = goal
          THEN /\ phase' = "returned"
               /\ frontier' = frontier \ {best}
               /\ UNCHANGED <<came_from, cost_so_far>>
          ELSE /\ Visit(best[2], frontier \ {best})
               /\ UNCHANGED phase
  BY DEF Search
<1>2. phase = "searching" /\ UNCHANGED <<input, path>>
  BY DEF Search
<1>3. CASE best[2] = goal
  <2>1. goal \in Reached
    BY <1>3 DEF IInv, TypeOK
  <2> QED BY <1>1, <1>2, <1>3, <2>1, ReturnInv
<1>4. CASE best[2] # goal
  BY <1>1, <1>2, <1>4, VisitInv
<1> QED BY <1>3, <1>4

\* The loop ends on an empty frontier.
LEMMA ExhaustedStep == IInv /\ Exhausted => IInv'
<1> SUFFICES ASSUME IInv, Exhausted PROVE IInv'
  OBVIOUS
<1>1. frontier' \in SUBSET frontier /\ frontier = {}
  BY DEF Exhausted
<1> QED BY <1>1, ReturnInv DEF Exhausted

\* The walk begins at the entry of the goal.
LEMMA StartWalkStep == IInv /\ StartWalk => IInv'
<1> SUFFICES ASSUME IInv, StartWalk PROVE IInv'
  OBVIOUS
<1>1. /\ phase = "returned" /\ phase' = "walking" /\ goal \in DOMAIN came_from
      /\ UNCHANGED <<walkable, start, goal, frontier, came_from, cost_so_far, path>>
  BY DEF StartWalk, input
<1>2. Reached' = Reached
  BY <1>1 DEF Reached
<1>3. TypeOK'
  BY <1>1, <1>2 DEF IInv, TypeOK
<1>4. start' \in Reached' /\ SearchInv'
  BY <1>1, <1>2 DEF IInv, SearchInv, GoalNotExpanded, StepsPossible, NoCircle,
                    FrontierBetween, NothingMissed
<1>5. WalkInv'
  <2>1. path = <<>> /\ goal \in walkable /\ Adjacent(goal, came_from[goal])
    BY <1>1 DEF IInv, SearchInv, StepsPossible, WalkInv, NothingWalked
  <2> QED BY <1>1, <2>1 DEF IInv, WalkInv, NothingWalked, OtherStepsPossible, WayToCursor, Adjacent
<1> QED BY <1>3, <1>4, <1>5 DEF IInv

\* The walk goes one tile on, or has come to the start.
LEMMA WalkStep == IInv /\ Walk => IInv'
<1> SUFFICES ASSUME IInv, Walk PROVE IInv'
  OBVIOUS
<1> DEFINE next == came_from[goal]
<1>1. /\ phase = "walking"
      /\ UNCHANGED <<walkable, start, goal, frontier, cost_so_far>>
  BY DEF Walk, input
<1>2. Reached' = Reached /\ goal \in DOMAIN came_from
  BY <1>1 DEF Reached, IInv, WalkInv, WayToCursor
<1>3. next \in Reached /\ DOMAIN came_from = Reached \ {start}
  BY <1>2 DEF IInv, TypeOK
<1>4. CASE next = start
  <2>1. phase' = "arrived" /\ UNCHANGED <<came_from, path>>
    BY <1>4 DEF Walk
  <2>2. TypeOK'
    BY <1>1, <1>2, <2>1 DEF IInv, TypeOK
  <2>3. start' \in Reached' /\ SearchInv'
    BY <1>1, <1>2, <2>1 DEF IInv, SearchInv, GoalNotExpanded, StepsPossible, NoCircle,
                            FrontierBetween, NothingMissed
  <2>4. WalkInv'
    BY <1>1, <1>4, <2>1 DEF IInv, WalkInv, NothingWalked, OtherStepsPossible, WayToCursor, Adjacent
  <2> QED BY <2>2, <2>3, <2>4 DEF IInv
<1>5. CASE next # start
  <2>1. /\ came_from' = [came_from EXCEPT ![goal] = came_from[next]]
        /\ path' = Append(path, next)
        /\ phase' = phase
    BY <1>5 DEF Walk
  <2>2. next \in DOMAIN came_from \ {goal}
    BY <1>2, <1>3, <1>5 DEF IInv, SearchInv, GoalNotExpanded
  <2>3. /\ DOMAIN came_from' = DOMAIN came_from
        /\ came_from'[goal] = came_from[next]
        /\ \A t \in DOMAIN came_from \ {goal} : came_from'[t] = came_from[t]
    BY <1>2, <2>1
  <2>4. next \in walkable /\ Adjacent(next, came_from[next])
    BY <2>2 DEF IInv, WalkInv, OtherStepsPossible
  <2>5. path \in Seq(Reached)
    BY DEF IInv, TypeOK
  <2> HIDE DEF next
  <2>6. /\ path' \in Seq(Reached)
        /\ Len(path') = Len(path) + 1
        /\ path'[Len(path')] = next
        /\ \A i \in DOMAIN path : path'[i] = path[i]
        /\ DOMAIN path' = DOMAIN path \cup {Len(path')}
    BY <1>3, <2>1, <2>5
  <2>7. TypeOK'
    <3>1. came_from' \in [Reached \ {start} -> Reached]
      BY <1>2, <2>1, <2>2 DEF IInv, TypeOK
    <3> QED BY <1>1, <1>2, <2>1, <2>6, <3>1 DEF IInv, TypeOK
  <2>8. start' \in Reached' /\ SearchInv'
    <3>1. GoalNotExpanded'
      BY <1>1, <2>2, <2>3 DEF IInv, SearchInv, GoalNotExpanded
    <3> QED BY <1>1, <1>2, <2>1, <3>1 DEF IInv, SearchInv, StepsPossible, NoCircle,
                                          FrontierBetween, NothingMissed
  <2>9. NothingWalked' /\ OtherStepsPossible'
    BY <1>1, <2>1, <2>3 DEF IInv, WalkInv, NothingWalked, OtherStepsPossible, Adjacent
  <2>10. WayToCursor'
    <3>1. /\ \A i \in DOMAIN path : path[i] \in walkable
          /\ path = <<>> => Adjacent(goal, next)
          /\ path # <<>> => Adjacent(goal, path[1]) /\ Adjacent(path[Len(path)], next)
          /\ \A i \in 1 .. Len(path) - 1 : Adjacent(path[i], path[i + 1])
      BY <1>1 DEF IInv, WalkInv, WayToCursor, next
    <3>2. \A i \in DOMAIN path' : path'[i] \in walkable
      BY <2>4, <2>6, <3>1
    <3>3. path' # <<>> /\ Adjacent(path'[Len(path')], came_from'[goal])
      BY <2>3, <2>4, <2>5, <2>6
    <3>4. Adjacent(goal, path'[1])
      <4>1. CASE path = <<>>
        BY <2>6, <3>1, <4>1
      <4>2. CASE path # <<>>
        BY <2>5, <2>6, <3>1, <4>2
      <4> QED BY <4>1, <4>2
    <3>5. ASSUME NEW i \in 1 .. Len(path') - 1
          PROVE  Adjacent(path'[i], path'[i + 1])
      <4>1. CASE i < Len(path)
        BY <2>5, <2>6, <3>1, <4>1
      <4>2. CASE i = Len(path)
        BY <2>5, <2>6, <3>1, <4>2
      <4> QED BY <2>5, <2>6, <4>1, <4>2
    <3> QED BY <1>1, <1>2, <2>1, <2>3, <3>2, <3>3, <3>4, <3>5 DEF WayToCursor, Adjacent
  <2> QED BY <2>7, <2>8, <2>9, <2>10 DEF IInv, WalkInv
<1> QED BY <1>4, <1>5

\* IInv is inductive: one step of the proof for each action.
THEOREM Inductive == Spec => []IInv
<1>1. IInv /\ [Next]_vars => IInv'
  <2> SUFFICES ASSUME IInv, [Next]_vars PROVE IInv'
    OBVIOUS
  <2>1. CASE Search
    BY <2>1, SearchStep
  <2>2. CASE Exhausted
    BY <2>2, ExhaustedStep
  <2>3. CASE StartWalk
    BY <2>3, StartWalkStep
  <2>4. CASE Walk
    BY <2>4, WalkStep
  <2>5. CASE UNCHANGED vars
    BY <2>5 DEF vars, IInv, TypeOK, SearchInv, WalkInv, GoalNotExpanded, StepsPossible,
                NoCircle, FrontierBetween, NothingMissed, NothingWalked,
                OtherStepsPossible, WayToCursor, Reached, Adjacent
  <2> QED BY <2>1, <2>2, <2>3, <2>4, <2>5 DEF Next
<1> QED BY InitInv, <1>1, PTL DEF Spec

-----------------------------------------------------------------------------
\* Search and walk keep their types on maps of any size.
THEOREM TypeCorrect == Spec => []TypeOK
<1>1. IInv => TypeOK
  BY DEF IInv
<1> QED BY <1>1, Inductive, PTL

\* Whatever the walls, an entry of came_from is a step between walkable tiles
\* (the start alone may be a wall).
THEOREM StepsArePossible == Spec => []StepsPossible
<1>1. IInv => StepsPossible
  BY DEF IInv, SearchInv
<1> QED BY <1>1, Inductive, PTL

\* The entries of came_from never lead around, so that no walk back along them
\* goes on forever.
THEOREM NeverInACircle == Spec => []NoCircle
<1>1. IInv => NoCircle
  BY DEF IInv, SearchInv
<1> QED BY <1>1, Inductive, PTL

\* A search that ends without the goal has reached all that can be reached.
THEOREM NothingIsMissed == Spec => []NothingMissed
<1>1. IInv => NothingMissed
  BY DEF IInv, SearchInv
<1> QED BY <1>1, Inductive, PTL

\* The walk of run_ai_on, which overwrites the goal's own entry on its way,
\* still comes back to the start in steps a creature can make.
THEOREM WalkComesBack == Spec => []WayBack
<1>1. IInv => WayBack
  <2> SUFFICES ASSUME IInv, phase = "arrived"
               PROVE  LET way == <<goal>> \o path \o <<start>>
                      IN  /\ goal \in walkable
                          /\ \A i \in DOMAIN path : path[i] \in walkable
                          /\ \A i \in 1 .. Len(way) - 1 : Adjacent(way[i], way[i + 1])
    BY DEF WayBack
  <2> DEFINE way == <<goal>> \o path \o <<start>>
  <2>1. /\ goal \in walkable /\ came_from[goal] = start
        /\ \A i \in DOMAIN path : path[i] \in walkable
        /\ path = <<>> => Adjacent(goal, start)
        /\ path # <<>> => Adjacent(goal, path[1]) /\ Adjacent(path[Len(path)], start)
        /\ \A i \in 1 .. Len(path) - 1 : Adjacent(path[i], path[i + 1])
    BY DEF IInv, WalkInv, OtherStepsPossible, WayToCursor
  <2>2. path \in Seq(Reached) /\ Reached \subseteq Tiles /\ goal \in Tiles /\ start \in Tiles
    BY DEF IInv, TypeOK
  <2>3. path \in Seq(Tiles) /\ Len(path) \in Nat /\ DOMAIN path = 1 .. Len(path)
    BY <2>2
  <2>4. /\ Len(way) = Len(path) + 2
        /\ way[1] = goal
        /\ \A i \in 1 .. Len(path) : way[i + 1] = path[i]
        /\ way[Len(path) + 2] = start
    BY <2>2, <2>3
  <2> HIDE DEF way
  <2>5. ASSUME NEW i \in 1 .. Len(way) - 1 PROVE Adjacent(way[i], way[i + 1])
    <3>1. CASE i = 1 /\ path = <<>>
      BY <2>1, <2>4, <3>1
    <3>2. CASE i = 1 /\ path # <<>>
      <4>1. way[2] = path[1]
        BY <2>3, <2>4, <3>2
      <4> QED BY <2>1, <2>4, <3>2, <4>1
    <3>3. CASE i # 1 /\ i = Len(path) + 1
      <4>1. path # <<>> /\ way[i] = path[Len(path)]
        BY <2>3, <2>4, <3>3
      <4> QED BY <2>1, <2>3, <2>4, <3>3, <4>1
    <3>4. CASE i # 1 /\ i < Len(path) + 1
      <4>1. i - 1 \in 1 .. Len(path) - 1
        BY <2>3, <3>4
      <4>2. way[i] = path[i - 1] /\ way[i + 1] = path[i - 1 + 1]
        BY <2>3, <2>4, <3>4, <4>1
      <4> QED BY <2>1, <4>1, <4>2
    <3> QED BY <2>3, <2>4, <3>1, <3>2, <3>3, <3>4
  <2> QED BY <2>1, <2>5 DEF way
<1> QED BY <1>1, Inductive, PTL

-----------------------------------------------------------------------------
(* The field of view. *)

\* A slope of line and cell, apart from the state.
Start(line, cell) == (24 * (2 * cell - 1)) \div line
End(line, cell) == IF line = 3 /\ cell = 2 THEN 39 ELSE (24 * (2 * cell + 1)) \div line

-----------------------------------------------------------------------------
\* Every set of naturals that is not empty has a least element.
LEMMA LeastNatural ==
  ASSUME NEW T, T \subseteq Nat, T # {} PROVE \E x \in T : \A y \in T : x <= y
<1>1. PICK x \in T : \A y \in T : <<y, x>> \notin OpToRel(<, Nat)
  BY NatLessThanWellFounded, WFMin
<1>2. \A y \in T : ~(y < x)
  BY <1>1 DEF OpToRel
<1> QED  BY <1>2

\* The greatest element of a set of numbers that is not empty.
LEMMA MaxOf ==
  ASSUME NEW n \in Nat, NEW s \in SUBSET (1 .. n), s # {}
  PROVE  Max(s) \in s /\ \A x \in s : Max(s) >= x
<1> DEFINE T == {n - x : x \in s}
<1>1. T \subseteq Nat /\ T # {}
  <2>1. \A x \in s : x \in Int /\ n - x \in Nat
    OBVIOUS
  <2> QED  BY <2>1
<1>2. PICK t \in T : \A u \in T : t <= u
  <2> HIDE DEF T
  <2> QED  BY <1>1, LeastNatural
<1>3. PICK x \in s : t = n - x
  BY <1>2
<1>4. \A y \in s : x >= y
  <2> TAKE y \in s
  <2>1. t <= n - y
    BY <1>2
  <2> QED  BY <1>3, <2>1
<1> QED  BY <1>4 DEF Max

\* Slopes are exact, but for the one that is rounded down.
LEMMA Slopes ==
  ASSUME NEW line \in 1 .. 4, NEW cell \in Int
  PROVE  /\ Start(line, cell) \in Int /\ End(line, cell) \in Int
         /\ line * Start(line, cell) = 24 * (2 * cell - 1)
         /\ line = 3 /\ cell = 2 => End(line, cell) = 39
         /\ ~(line = 3 /\ cell = 2) => line * End(line, cell) = 24 * (2 * cell + 1)
<1>1. CASE line = 1
  BY <1>1 DEF Start, End
<1>2. CASE line = 2
  BY <1>2 DEF Start, End
<1>3. CASE line = 3
  BY <1>3 DEF Start, End
<1>4. CASE line = 4
  BY <1>4 DEF Start, End
<1> QED  BY <1>1, <1>2, <1>3, <1>4

-----------------------------------------------------------------------------
(* A cell against the obstacles of the former lines. *)

Unhidden == [visible |-> TRUE, skip |-> FALSE, obstacles |-> obstacles]

\* What was found after each of the obstacles.
Finds(found) ==
  /\ found[0] = Unhidden
  /\ \A n \in 1 .. obstacles_in_last_line : found[n] = Against(found[n - 1], n)

\* The fold of Found goes through the obstacles in their order.
LEMMA Folding ==
  ASSUME obstacles_in_last_line \in Nat
  PROVE  \E found : /\ Finds(found)
                    /\ found[obstacles_in_last_line]
                         = FoldLeft(Against, Unhidden, [i \in 1 .. obstacles_in_last_line |-> i])
<1> DEFINE Body(g, s) == IF s = {} THEN Unhidden ELSE Against(g[s \ {Max(s)}], Max(s))
           Part(k) == \E g : g = [s \in SUBSET (1 .. k) |-> Body(g, s)]
<1>0. PICK N \in Nat : N = obstacles_in_last_line
  OBVIOUS
<1> DEFINE ids == [i \in 1 .. N |-> i]
           iter == CHOOSE g : g = [s \in SUBSET (1 .. N) |-> Body(g, s)]
<1>2. FoldLeft(Against, Unhidden, ids) = iter[1 .. N]
  <2>1. DOMAIN ids = 1 .. N
    OBVIOUS
  <2> DEFINE raw == CHOOSE g : g = [s \in SUBSET (1 .. N) |->
                        IF s = {} THEN Unhidden ELSE Against(g[s \ {Max(s)}], ids[Max(s)])]
  <2>2. FoldLeft(Against, Unhidden, ids) = raw[1 .. N]
    BY <2>1 DEF FoldLeft, MapThenFoldSet
  <2>3. \A s \in SUBSET (1 .. N) : s # {} => ids[Max(s)] = Max(s)
    BY MaxOf
  <2>4. ASSUME NEW g
        PROVE  [s \in SUBSET (1 .. N) |->
                  IF s = {} THEN Unhidden ELSE Against(g[s \ {Max(s)}], ids[Max(s)])]
                 = [s \in SUBSET (1 .. N) |-> Body(g, s)]
    BY <2>3
  <2>5. raw = iter
    <3> HIDE DEF Body, ids
    <3> QED  BY <2>4
  <2> QED  BY <2>2, <2>5
<1> HIDE DEF Unhidden, Against
<1>3. Part(0)
  <2> DEFINE g == [s \in SUBSET (1 .. 0) |-> Unhidden]
  <2>1. g = [s \in SUBSET (1 .. 0) |-> Body(g, s)]
    OBVIOUS
  <2> QED  BY <2>1
<1>4. ASSUME NEW k \in Nat, Part(k) PROVE Part(k + 1)
  <2>1. PICK g : g = [s \in SUBSET (1 .. k) |-> Body(g, s)]
    BY <1>4
  <2> DEFINE h == [s \in SUBSET (1 .. k + 1) |->
                     IF k + 1 \in s THEN Against(g[s \ {k + 1}], k + 1) ELSE g[s]]
  <2>2. ASSUME NEW s \in SUBSET (1 .. k + 1) PROVE h[s] = Body(h, s)
    <3>1. CASE s = {}
      BY <2>1, <3>1
    <3>2. CASE k + 1 \in s
      <4>1. Max(s) = k + 1
        <5>1. k + 1 \in Nat /\ s # {}
          BY <3>2
        <5>2. Max(s) \in s /\ \A x \in s : Max(s) >= x
          BY <5>1, MaxOf
        <5>3. Max(s) \in 1 .. k + 1 /\ Max(s) >= k + 1
          BY <3>2, <5>2
        <5> QED  BY <5>1, <5>3
      <4>2. s \ {k + 1} \in SUBSET (1 .. k + 1) /\ k + 1 \notin s \ {k + 1}
        OBVIOUS
      <4>3. h[s \ {k + 1}] = g[s \ {k + 1}]
        BY <4>2
      <4> QED  BY <3>2, <4>1, <4>3
    <3>3. CASE s # {} /\ k + 1 \notin s
      <4>1. s \in SUBSET (1 .. k)
        BY <3>3
      <4>2. s \ {Max(s)} \in SUBSET (1 .. k + 1) /\ k + 1 \notin s \ {Max(s)}
        BY <3>3
      <4>3. h[s \ {Max(s)}] = g[s \ {Max(s)}]
        BY <4>2
      <4>4. h[s] = g[s]
        BY <3>3
      <4>5. g[s] = Body(g, s)
        BY <2>1, <4>1
      <4> QED  BY <3>3, <4>3, <4>4, <4>5
    <3> QED  BY <3>1, <3>2, <3>3
  <2>3. h = [s \in SUBSET (1 .. k + 1) |-> Body(h, s)]
    <3>1. h = [s \in SUBSET (1 .. k + 1) |-> h[s]]
      OBVIOUS
    <3> HIDE DEF h
    <3> QED  BY <2>2, <3>1
  <2> QED  BY <2>3
<1>5. Part(N)
  <2> DEFINE T == {k \in Nat : ~Part(k)}
  <2> HIDE DEF Part
  <2>1. SUFFICES ASSUME T # {} PROVE FALSE
    BY <1>0
  <2>2. PICK k \in T : \A j \in T : k <= j
    BY <2>1, LeastNatural
  <2>3. k # 0 /\ k - 1 \in Nat
    BY <1>3, <2>2
  <2>4. Part(k - 1)
    BY <2>2, <2>3
  <2> QED  BY <1>4, <2>2, <2>3, <2>4
<1>6. iter = [s \in SUBSET (1 .. N) |-> Body(iter, s)]
  BY <1>5
<1> HIDE DEF iter
<1> DEFINE found == [n \in 0 .. N |-> iter[1 .. n]]
<1>7. found[0] = Unhidden
  <2>1. iter[1 .. 0] = Unhidden
    BY <1>0, <1>6
  <2> QED  BY <1>0, <2>1
<1>8. ASSUME NEW n \in 1 .. N PROVE found[n] = Against(found[n - 1], n)
  <2>1. 1 .. n \in SUBSET (1 .. N) /\ 1 .. n # {} /\ n \in Nat
    BY <1>0
  <2>2. Max(1 .. n) = n
    <3>1. 1 .. n \in SUBSET (1 .. n)
      OBVIOUS
    <3>2. Max(1 .. n) \in 1 .. n /\ \A x \in 1 .. n : Max(1 .. n) >= x
      BY <2>1, <3>1, MaxOf
    <3> QED  BY <2>1, <3>2
  <2>3. (1 .. n) \ {n} = 1 .. n - 1
    BY <2>1
  <2>4. iter[1 .. n] = Against(iter[1 .. n - 1], n)
    BY <1>6, <2>1, <2>2, <2>3
  <2>5. n \in 0 .. N /\ n - 1 \in 0 .. N
    BY <1>0
  <2> QED  BY <2>4, <2>5
<1>9. found[N] = iter[1 .. N]
  BY <1>0
<1> HIDE DEF found, ids
<1>10. FoldLeft(Against, Unhidden, ids) = found[N]
  BY <1>2, <1>9
<1> QED  BY <1>0, <1>7, <1>8, <1>10 DEF Finds, ids

\* The slopes of a cell are numbers.
LEMMA CellSlopes ==
  ASSUME iteration \in 1 .. 4, processed_cell \in Int
  PROVE  /\ StartSlope = Start(iteration, processed_cell) /\ StartSlope \in Int
         /\ EndSlope = End(iteration, processed_cell) /\ EndSlope \in Int
         /\ CentreSlope \in Int
<1>1. StartSlope = Start(iteration, processed_cell) /\ EndSlope = End(iteration, processed_cell)
  BY DEF StartSlope, EndSlope, Start, End
<1>2. CentreSlope \in Int
  BY DEF CentreSlope
<1> QED  BY <1>1, <1>2, Slopes

Shadows == Seq(Int \X Int)

\* What may be found when some of the obstacles have been gone through: none is gone,
\* and where one begins is where it began or where the cell begins.
Narrowed(found) ==
  /\ found.visible \in BOOLEAN
  /\ found = [visible |-> found.visible, skip |-> found.skip, obstacles |-> found.obstacles]
  /\ found.obstacles \in Shadows /\ Len(found.obstacles) = Len(obstacles)
  /\ \A i \in 1 .. Len(obstacles) :
       found.obstacles[i][1] \in {obstacles[i][1], IF IsOpaque THEN obstacles[i][1] ELSE StartSlope}

\* All obstacles begin behind the cell.
NothingBefore == \A i \in 1 .. obstacles_in_last_line : obstacles[i][1] > EndSlope

\* One more obstacle.
LEMMA AgainstOne ==
  ASSUME iteration \in 1 .. 4, processed_cell \in Int, obstacles \in Shadows,
         obstacles_in_last_line \in 0 .. Len(obstacles),
         NEW i \in 1 .. obstacles_in_last_line, NEW found, Narrowed(found)
  PROVE  /\ Narrowed(Against(found, i))
         /\ found = Unhidden /\ NothingBefore => Against(found, i) = Unhidden
<1>1. StartSlope \in Int /\ EndSlope \in Int
  BY CellSlopes
<1>2. i \in 1 .. Len(obstacles) /\ i \in 1 .. Len(found.obstacles)
  <2>1. Len(obstacles) \in Nat
    BY DEF Shadows
  <2>2. Len(found.obstacles) = Len(obstacles)
    BY DEF Narrowed
  <2> QED  BY <2>1, <2>2
<1> DEFINE from == found.obstacles[i][1]
           to == found.obstacles[i][2]
           wider == [found.obstacles EXCEPT ![i] = <<Lower(from, StartSlope), Higher(to, EndSlope)>>]
<1>3. from \in Int /\ to \in Int
  <2>1. found.obstacles \in Shadows
    BY DEF Narrowed
  <2>2. found.obstacles[i] \in Int \X Int
    BY <1>2, <2>1 DEF Shadows
  <2> QED  BY <2>2
<1>4. Lower(from, StartSlope) \in {from, StartSlope} /\ Lower(from, StartSlope) \in Int
      /\ Higher(to, EndSlope) \in Int
  BY <1>1, <1>3 DEF Lower, Higher
<1>5. wider \in Shadows /\ Len(wider) = Len(obstacles)
  <2>1. <<Lower(from, StartSlope), Higher(to, EndSlope)>> \in Int \X Int
    BY <1>4
  <2> QED  BY <1>2, <2>1 DEF Narrowed, Shadows
<1>6. ~IsOpaque => \A j \in 1 .. Len(obstacles) : wider[j][1] \in {obstacles[j][1], StartSlope}
  <2> SUFFICES ASSUME ~IsOpaque, NEW j \in 1 .. Len(obstacles)
               PROVE  wider[j][1] \in {obstacles[j][1], StartSlope}
    OBVIOUS
  <2>1. found.obstacles[j][1] \in {obstacles[j][1], StartSlope} /\ j \in DOMAIN found.obstacles
    <3>1. \A k \in 1 .. Len(obstacles) : found.obstacles[k][1] \in {obstacles[k][1], StartSlope}
      BY DEF Narrowed
    <3>2. found.obstacles \in Shadows /\ Len(found.obstacles) = Len(obstacles)
      BY DEF Narrowed
    <3> QED  BY <3>1, <3>2 DEF Shadows
  <2>2. CASE j = i
    <3>1. wider[j][1] = Lower(from, StartSlope)
      BY <2>1, <2>2
    <3> QED  BY <1>4, <2>1, <2>2, <3>1
  <2>3. CASE j # i
    <3>1. wider[j] = found.obstacles[j]
      BY <2>1, <2>3
    <3> QED  BY <2>1, <3>1
  <2> QED  BY <2>2, <2>3
<1>7. \/ Against(found, i) = found
      \/ \E skip : Against(found, i) = [found EXCEPT !.skip = skip]
      \/ Against(found, i) = [found EXCEPT !.visible = FALSE]
      \/ ~IsOpaque /\ \E skip : Against(found, i)
                                  = [visible |-> TRUE, skip |-> skip, obstacles |-> wider]
  BY DEF Against
<1>8. Narrowed(Against(found, i))
  <2>1. CASE Against(found, i) = found
    BY <2>1
  <2>2. CASE \E skip : Against(found, i) = [found EXCEPT !.skip = skip]
    BY <2>2 DEF Narrowed
  <2>3. CASE Against(found, i) = [found EXCEPT !.visible = FALSE]
    BY <2>3 DEF Narrowed
  <2>4. CASE ~IsOpaque /\ \E skip : Against(found, i)
                                  = [visible |-> TRUE, skip |-> skip, obstacles |-> wider]
    <3> HIDE DEF wider
    <3> QED  BY <1>5, <1>6, <2>4 DEF Narrowed
  <2> QED  BY <1>7, <2>1, <2>2, <2>3, <2>4
<1>9. ASSUME found = Unhidden, NothingBefore PROVE Against(found, i) = Unhidden
  <2>1. from = obstacles[i][1] /\ from > EndSlope
    BY <1>9 DEF Unhidden, NothingBefore
  <2>2. ~(StartSlope <= to /\ EndSlope >= from)
    BY <1>1, <1>3, <2>1
  <2>3. found.visible /\ ~found.skip
    BY <1>9 DEF Unhidden
  <2> HIDE DEF from, to
  <2> QED  BY <1>9, <2>2, <2>3 DEF Against, from, to
<1> QED  BY <1>8, <1>9

\* What is found of a cell: what hides it and by which obstacles it is not hidden.
LEMMA FoundOK ==
  ASSUME iteration \in 1 .. 4, processed_cell \in Int, obstacles \in Shadows,
         obstacles_in_last_line \in 0 .. Len(obstacles)
  PROVE  /\ Narrowed(Found)
         /\ obstacles_in_last_line = 0 => Found = Unhidden
         /\ obstacles_in_last_line # 0 /\ Found.visible
              => Passable(processed_cell) \/ Passable(processed_cell - 1)
         /\ /\ obstacles_in_last_line # 0 => Passable(processed_cell) \/ Passable(processed_cell - 1)
            /\ NothingBefore
            => Found = Unhidden
<1>1. Narrowed(Unhidden) /\ Narrowed([Unhidden EXCEPT !.visible = FALSE])
  <2>1. \A i \in 1 .. Len(obstacles) :
          obstacles[i][1] \in {obstacles[i][1], IF IsOpaque THEN obstacles[i][1] ELSE StartSlope}
    OBVIOUS
  <2>2. Narrowed(Unhidden)
    BY <2>1 DEF Narrowed, Unhidden
  <2>3. ASSUME NEW f, NEW g, Narrowed(f), g = [f EXCEPT !.visible = FALSE] PROVE Narrowed(g)
    BY <2>3 DEF Narrowed
  <2> QED  BY <2>2, <2>3
<1>2. /\ obstacles_in_last_line = 0 => Found = Unhidden
      /\ obstacles_in_last_line # 0 =>
           Found = IF ~Passable(processed_cell) /\ ~Passable(processed_cell - 1)
                     THEN [Unhidden EXCEPT !.visible = FALSE]
                     ELSE FoldLeft(Against, Unhidden, [i \in 1 .. obstacles_in_last_line |-> i])
  BY DEF Found, Unhidden
<1>3. PICK N \in Nat : N = obstacles_in_last_line
  BY DEF Shadows
<1>4. PICK found :
        /\ Finds(found)
        /\ found[N] = FoldLeft(Against, Unhidden, [i \in 1 .. obstacles_in_last_line |-> i])
  BY <1>3, Folding
<1> DEFINE Fine(n) == Narrowed(found[n]) /\ (NothingBefore => found[n] = Unhidden)
<1>5. Fine(0)
  BY <1>1, <1>4 DEF Finds
<1>6. ASSUME NEW n \in 1 .. N, Fine(n - 1) PROVE Fine(n)
  <2>1. found[n] = Against(found[n - 1], n)
    BY <1>3, <1>4 DEF Finds
  <2>2. n \in 1 .. obstacles_in_last_line
    BY <1>3
  <2> QED  BY <1>6, <2>1, <2>2, AgainstOne
<1>7. Fine(N)
  <2> HIDE DEF Fine
  <2> DEFINE T == {n \in 0 .. N : ~Fine(n)}
  <2> SUFFICES ASSUME T # {} PROVE FALSE
    BY <1>3
  <2>1. T \subseteq Nat
    OBVIOUS
  <2>2. PICK n \in T : \A m \in T : n <= m
    BY <2>1, LeastNatural
  <2>3. n # 0 /\ n \in 1 .. N /\ n - 1 \in 0 .. N
    BY <1>3, <1>5, <2>2
  <2>4. Fine(n - 1)
    BY <2>2, <2>3
  <2> QED  BY <1>6, <2>2, <2>3, <2>4
<1> HIDE DEF Unhidden
<1>8. ([Unhidden EXCEPT !.visible = FALSE]).visible = FALSE
  BY DEF Unhidden
<1>9. CASE obstacles_in_last_line = 0
  BY <1>1, <1>2, <1>9
<1>10. CASE obstacles_in_last_line # 0
  BY <1>1, <1>2, <1>4, <1>7, <1>8, <1>10
<1> QED  BY <1>9, <1>10

-----------------------------------------------------------------------------
(* The tiles of a quadrant. *)

\* A steps of s along an axis.
Along(p, s, a) == p + a * s

\* Steps along an axis, in either direction.
LEMMA AlongAxis ==
  ASSUME NEW p \in Int, NEW s \in {1, -1}, NEW a \in Int, NEW b \in Int
  PROVE  /\ Along(p, s, a) \in Int
         /\ Along(p, s, 0) = p
         /\ Along(p, s, a) = Along(p, s, b) <=> a = b
         /\ Distance(Along(p, s, a), Along(p, s, b)) = Distance(a, b)
         /\ a >= 0 => Distance(p, Along(p, s, a)) = a
         /\ a >= 0 => (Between(p, Along(p, s, b), Along(p, s, a)) <=> b \in 0 .. a)
         /\ \A n \in Int : p \in 0 .. n /\ Along(p, s, a) \in 0 .. n /\ b \in 0 .. a
                             => Along(p, s, b) \in 0 .. n
<1>1. CASE s = 1
  <2>1. Along(p, s, a) = p + a /\ Along(p, s, b) = p + b /\ Along(p, s, 0) = p
    BY <1>1 DEF Along
  <2> QED  BY <2>1 DEF Distance, Between
<1>2. CASE s = -1
  <2>1. Along(p, s, a) = p - a /\ Along(p, s, b) = p - b /\ Along(p, s, 0) = p
    BY <1>2 DEF Along
  <2> QED  BY <2>1 DEF Distance, Between
<1> QED  BY <1>1, <1>2

Octants == {"vertical", "horizontal"}

\* A quadrant begins at the player's tile.
Quadrant == player \in Tiles /\ dx \in {1, -1} /\ dy \in {1, -1}

\* A tile by its column and its row, in steps from the player's.
At(a, b) == <<Along(player[1], dx, a), Along(player[2], dy, b)>>

\* The two octants see the tiles of the quadrant with the axes exchanged.
LEMMA TileAtIs ==
  \A l, c : TileAt("vertical", l, c) = At(c, l) /\ TileAt("horizontal", l, c) = At(l, c)
BY DEF TileAt, At, Along

\* What a tile of the quadrant is, by its column and its row.
LEMMA AtIs ==
  ASSUME Quadrant, NEW a \in Nat, NEW b \in Nat, NEW i \in Int, NEW j \in Int
  PROVE  /\ At(a, b) = At(i, j) <=> a = i /\ b = j
         /\ At(0, 0) = player
         /\ At(a, b) \in Tiles /\ i \in 0 .. a /\ j \in 0 .. b => At(i, j) \in Tiles
         /\ heuristic(player, At(a, b)) = a + b
         /\ \A n : Within(n, player, At(a, b)) <=> a <= n /\ b <= n
         /\ Adjacent(At(i, j), At(a, b)) <=> Distance(i, a) <= 1 /\ Distance(j, b) <= 1
         /\ (Between(player[1], At(i, j)[1], At(a, b)[1]) /\ Between(player[2], At(i, j)[2], At(a, b)[2]))
              <=> i \in 0 .. a /\ j \in 0 .. b
         /\ (At(a, b)[1] = player[1] \/ At(a, b)[2] = player[2]) <=> a = 0 \/ b = 0
<1> DEFINE x == player[1]
           y == player[2]
<1>1. /\ x \in Int /\ y \in Int /\ player = <<x, y>> /\ x \in 0 .. Width - 1 /\ y \in 0 .. Height - 1
      /\ Width - 1 \in Int /\ Height - 1 \in Int /\ dx \in {1, -1} /\ dy \in {1, -1}
  BY SizeAssumption DEF Quadrant, Tiles
<1>2. \A m, n : At(m, n)[1] = Along(x, dx, m) /\ At(m, n)[2] = Along(y, dy, n)
                /\ At(m, n) = <<Along(x, dx, m), Along(y, dy, n)>>
  BY DEF At
<1>3. player[1] = x /\ player[2] = y
  OBVIOUS
<1> HIDE DEF x, y
<1>4. /\ Along(x, dx, 0) = x
      /\ Along(x, dx, a) = Along(x, dx, i) <=> a = i
      /\ Along(x, dx, a) = Along(x, dx, 0) <=> a = 0
      /\ Distance(Along(x, dx, i), Along(x, dx, a)) = Distance(i, a)
      /\ Distance(x, Along(x, dx, a)) = a
      /\ Between(x, Along(x, dx, i), Along(x, dx, a)) <=> i \in 0 .. a
      /\ Along(x, dx, a) \in 0 .. Width - 1 /\ i \in 0 .. a => Along(x, dx, i) \in 0 .. Width - 1
  <2>1. x \in Int /\ dx \in {1, -1} /\ a \in Int /\ i \in Int /\ a >= 0
    BY <1>1
  <2>2. /\ Along(x, dx, 0) = x
        /\ Along(x, dx, a) = Along(x, dx, i) <=> a = i
        /\ Distance(Along(x, dx, i), Along(x, dx, a)) = Distance(i, a)
    BY <2>1, AlongAxis
  <2>3. Along(x, dx, a) = Along(x, dx, 0) <=> a = 0
    BY <2>1, AlongAxis
  <2>4. /\ Distance(x, Along(x, dx, a)) = a
        /\ Between(x, Along(x, dx, i), Along(x, dx, a)) <=> i \in 0 .. a
    BY <2>1, AlongAxis
  <2>5. /\ Along(x, dx, a) \in 0 .. Width - 1 /\ i \in 0 .. a => Along(x, dx, i) \in 0 .. Width - 1
    <3>1. \A n \in Int : x \in 0 .. n /\ Along(x, dx, a) \in 0 .. n /\ i \in 0 .. a
                             => Along(x, dx, i) \in 0 .. n
      BY <2>1, AlongAxis
    <3> QED  BY <1>1, <3>1
  <2> QED  BY <2>2, <2>3, <2>4, <2>5
<1>5. /\ Along(y, dy, 0) = y
      /\ Along(y, dy, b) = Along(y, dy, j) <=> b = j
      /\ Along(y, dy, b) = Along(y, dy, 0) <=> b = 0
      /\ Distance(Along(y, dy, j), Along(y, dy, b)) = Distance(j, b)
      /\ Distance(y, Along(y, dy, b)) = b
      /\ Between(y, Along(y, dy, j), Along(y, dy, b)) <=> j \in 0 .. b
      /\ Along(y, dy, b) \in 0 .. Height - 1 /\ j \in 0 .. b => Along(y, dy, j) \in 0 .. Height - 1
  <2>1. y \in Int /\ dy \in {1, -1} /\ b \in Int /\ j \in Int /\ b >= 0
    BY <1>1
  <2>2. /\ Along(y, dy, 0) = y
        /\ Along(y, dy, b) = Along(y, dy, j) <=> b = j
        /\ Distance(Along(y, dy, j), Along(y, dy, b)) = Distance(j, b)
    BY <2>1, AlongAxis
  <2>3. Along(y, dy, b) = Along(y, dy, 0) <=> b = 0
    BY <2>1, AlongAxis
  <2>4. /\ Distance(y, Along(y, dy, b)) = b
        /\ Between(y, Along(y, dy, j), Along(y, dy, b)) <=> j \in 0 .. b
    BY <2>1, AlongAxis
  <2>5. /\ Along(y, dy, b) \in 0 .. Height - 1 /\ j \in 0 .. b => Along(y, dy, j) \in 0 .. Height - 1
    <3>1. \A n \in Int : y \in 0 .. n /\ Along(y, dy, b) \in 0 .. n /\ j \in 0 .. b
                             => Along(y, dy, j) \in 0 .. n
      BY <2>1, AlongAxis
    <3> QED  BY <1>1, <3>1
  <2> QED  BY <2>2, <2>3, <2>4, <2>5
<1>6. At(a, b) = At(i, j) <=> a = i /\ b = j
  BY <1>2, <1>4, <1>5
<1>7. At(0, 0) = player
  BY <1>1, <1>2, <1>4, <1>5
<1>8. At(a, b) \in Tiles /\ i \in 0 .. a /\ j \in 0 .. b => At(i, j) \in Tiles
  BY <1>2, <1>4, <1>5 DEF Tiles
<1>9. heuristic(player, At(a, b)) = a + b
  BY <1>2, <1>3, <1>4, <1>5 DEF heuristic
<1>10. \A n : Within(n, player, At(a, b)) <=> a <= n /\ b <= n
  BY <1>2, <1>3, <1>4, <1>5 DEF Within
<1>11. Adjacent(At(i, j), At(a, b)) <=> Distance(i, a) <= 1 /\ Distance(j, b) <= 1
  BY <1>2, <1>4, <1>5 DEF Adjacent, Within
<1>12. (Between(player[1], At(i, j)[1], At(a, b)[1]) /\ Between(player[2], At(i, j)[2], At(a, b)[2]))
         <=> i \in 0 .. a /\ j \in 0 .. b
  BY <1>2, <1>3, <1>4, <1>5
<1>13. (At(a, b)[1] = player[1] \/ At(a, b)[2] = player[2]) <=> a = 0 \/ b = 0
  BY <1>2, <1>3, <1>4, <1>5
<1> QED  BY <1>6, <1>7, <1>8, <1>9, <1>10, <1>11, <1>12, <1>13

-----------------------------------------------------------------------------
(* What holds of every step. *)

FovTypeOK ==
  /\ player \in Tiles /\ light_walls \in BOOLEAN /\ opaque \in SUBSET (Tiles \ {player})
  /\ quadrant \in 1 .. 5 /\ octant \in Octants
  /\ iteration \in 0 .. fov_max_distance /\ processed_cell \in Nat /\ min_angle \in Nat
  /\ obstacles \in Shadows /\ obstacles_in_last_line \in 0 .. Len(obstacles)
  /\ done \in BOOLEAN
  /\ fov \in SUBSET Tiles /\ seen \in SUBSET Tiles

\* The line is on the map, and the edge of the view ends before the cell does.
LineOK ==
  /\ TileAt(octant, iteration, 0) \in Tiles
  /\ iteration = 0 => /\ processed_cell = 1 /\ min_angle = 0
                      /\ obstacles = <<>> /\ ~done
  /\ iteration <= 1 => obstacles_in_last_line = 0
  /\ iteration > 0 => iteration * min_angle < 24 * (2 * processed_cell + 1)

\* WallsHide, of the tiles of one set.
SeenPast(S) ==
  \A t \in S : ~Adjacent(player, t) =>
    \E s \in S \ opaque : Adjacent(s, t) /\ heuristic(player, s) < heuristic(player, t)

StraightClear(S) == \A t \in S : t[1] = player[1] \/ t[2] = player[2] => Clear(t)

SeenOK ==
  /\ player \in seen
  /\ \A t \in seen : \E a, b \in Nat : t = At(a, b)
  /\ SeenPast(seen) /\ SeenPast(fov)
  /\ StraightClear(seen) /\ StraightClear(fov)

\* As long as there are no obstacles, whatever is not seen or is opaque is below the
\* edge of the view, and every cell looked at adjoins one of the former line that
\* can be looked through.
EdgeOK ==
  /\ iteration >= 1 /\ obstacles = <<>> =>
       \A c \in 0 .. iteration :
         c < processed_cell /\ TileAt(octant, iteration, c) \in Tiles =>
           TileAt(octant, iteration, c) \in seen \ opaque \/ End(iteration, c) <= min_angle
  /\ iteration >= 2 /\ obstacles_in_last_line = 0 =>
       \A c \in processed_cell .. iteration :
         TileAt(octant, iteration, c) \in Tiles => Passable(c) \/ Passable(c - 1)

FovInv == FovTypeOK /\ LineOK /\ SeenOK /\ EdgeOK

\* The player and the directions are always those of a quadrant.
LEMMA QuadrantOK == FovTypeOK => Quadrant
BY DEF FovTypeOK, Quadrant, dx, dy

\* A cell of a line.
Cell == Hidden \/ SeeOpen \/ SeeOpaque

\* A cell that is looked at.
LEMMA LookingAt ==
  ASSUME FovTypeOK, LineOK, Looking
  PROVE  /\ iteration \in 1 .. 4 /\ processed_cell \in 0 .. iteration
         /\ Tile \in Tiles /\ Tile = TileAt(octant, iteration, processed_cell)
         /\ StartSlope = Start(iteration, processed_cell) /\ StartSlope \in Int
         /\ EndSlope = End(iteration, processed_cell) /\ EndSlope \in Int
         /\ Narrowed(Found)
         /\ obstacles_in_last_line = 0 => Found = Unhidden
         /\ obstacles_in_last_line # 0 /\ Found.visible
              => Passable(processed_cell) \/ Passable(processed_cell - 1)
         /\ /\ obstacles_in_last_line # 0 => Passable(processed_cell) \/ Passable(processed_cell - 1)
            /\ NothingBefore
            => Found = Unhidden
<1>1. iteration \in 1 .. 4 /\ processed_cell \in 0 .. iteration
  BY SlopesExact DEF FovTypeOK, LineOK, Looking, LineOver
<1>2. Tile \in Tiles /\ Tile = TileAt(octant, iteration, processed_cell)
  BY DEF Looking, LineOver, Tile
<1>3. processed_cell \in Int
  BY <1>1
<1>4. obstacles \in Shadows /\ obstacles_in_last_line \in 0 .. Len(obstacles)
  BY DEF FovTypeOK
<1>5. /\ StartSlope = Start(iteration, processed_cell) /\ StartSlope \in Int
      /\ EndSlope = End(iteration, processed_cell) /\ EndSlope \in Int
  BY <1>1, <1>3, CellSlopes
<1> QED  BY <1>1, <1>2, <1>3, <1>4, <1>5, FoundOK

\* An opaque cell the edge has come to can only move it on.
LEMMA EdgeRises ==
  ASSUME NEW line \in 1 .. 4, NEW cell \in Nat, NEW m \in Nat, line * m < 24 * (2 * cell + 1)
  PROVE  /\ End(line, cell) \in Nat /\ End(line, cell) >= m
         /\ line * End(line, cell) <= 24 * (2 * cell + 1)
<1>0. cell \in Int
  OBVIOUS
<1>1. PICK e \in Int : e = End(line, cell)
  BY <1>0, Slopes
<1>2. /\ line = 3 /\ cell = 2 => e = 39
      /\ ~(line = 3 /\ cell = 2) => line * e = 24 * (2 * cell + 1)
  BY <1>0, <1>1, Slopes
<1>3. CASE line = 1
  BY <1>1, <1>2, <1>3
<1>4. CASE line = 2
  BY <1>1, <1>2, <1>4
<1>5. CASE line = 3
  BY <1>1, <1>2, <1>5
<1>6. CASE line = 4
  BY <1>1, <1>2, <1>6
<1> QED  BY <1>3, <1>4, <1>5, <1>6

\* What one cell changes.
LEMMA CellEffect ==
  ASSUME FovTypeOK, LineOK, Cell
  PROVE  /\ Looking
         /\ processed_cell' = processed_cell + 1
         /\ obstacles_in_last_line' = obstacles_in_last_line
         /\ UNCHANGED <<fov_input, fov, quadrant, octant, iteration>>
         /\ obstacles' \in Shadows /\ Len(obstacles') >= Len(obstacles)
         /\ obstacles' = <<>> => /\ obstacles = <<>> /\ obstacles_in_last_line = 0
                                 /\ IsOpaque => min_angle' = EndSlope
         /\ min_angle' \in Nat /\ min_angle' >= min_angle
         /\ iteration * min_angle' <= 24 * (2 * processed_cell + 1)
         /\ \/ ~Found.visible /\ seen' = seen
            \/ Found.visible /\ ~IsOpaque /\ seen' = seen \cup {Tile}
            \/ Found.visible /\ IsOpaque /\ seen' = IF light_walls THEN seen \cup {Tile}
                                                                  ELSE seen \ {Tile}
<1>1. Looking /\ NextCell
  BY DEF Cell, Hidden, SeeOpen, SeeOpaque
<1>2. /\ iteration \in 1 .. 4 /\ processed_cell \in 0 .. iteration
      /\ StartSlope = Start(iteration, processed_cell) /\ StartSlope \in Int
      /\ EndSlope = End(iteration, processed_cell) /\ EndSlope \in Int
      /\ Narrowed(Found)
      /\ obstacles_in_last_line = 0 => Found = Unhidden
  BY <1>1, LookingAt
<1>3. Found.obstacles \in Shadows /\ Len(Found.obstacles) = Len(obstacles) /\ obstacles \in Shadows
  BY <1>2 DEF Narrowed, FovTypeOK
<1>4. <<StartSlope, EndSlope>> \in Int \X Int
  BY <1>2
<1>5. /\ Append(Found.obstacles, <<StartSlope, EndSlope>>) \in Shadows
      /\ Len(Append(Found.obstacles, <<StartSlope, EndSlope>>)) = Len(obstacles) + 1
  BY <1>3, <1>4 DEF Shadows
<1>6. Len(obstacles) \in Nat
  BY <1>3 DEF Shadows
<1>7. \/ obstacles' = Found.obstacles
      \/ obstacles' = Append(Found.obstacles, <<StartSlope, EndSlope>>)
  BY DEF Cell, Hidden, SeeOpen, SeeOpaque
<1>8. \/ min_angle' = min_angle
      \/ min_angle' = EndSlope
  BY DEF Cell, Hidden, SeeOpen, SeeOpaque
<1>9. iteration * min_angle < 24 * (2 * processed_cell + 1) /\ min_angle \in Nat
  BY <1>2 DEF LineOK, FovTypeOK
<1>10. EndSlope \in Nat /\ EndSlope >= min_angle /\ iteration * EndSlope <= 24 * (2 * processed_cell + 1)
  <2>1. processed_cell \in Nat
    BY <1>2
  <2> QED  BY <1>2, <1>9, <2>1, EdgeRises
<1>11. /\ min_angle' \in Nat /\ min_angle' >= min_angle
       /\ iteration * min_angle' <= 24 * (2 * processed_cell + 1)
  BY <1>2, <1>8, <1>9, <1>10
<1>12. obstacles' \in Shadows /\ Len(obstacles') >= Len(obstacles)
  <2>1. CASE obstacles' = Found.obstacles
    BY <1>3, <1>6, <2>1
  <2>2. CASE obstacles' = Append(Found.obstacles, <<StartSlope, EndSlope>>)
    BY <1>5, <1>6, <2>2
  <2> QED  BY <1>7, <2>1, <2>2
<1>13. ASSUME obstacles' = <<>>
       PROVE  /\ obstacles = <<>> /\ obstacles_in_last_line = 0
              /\ IsOpaque => min_angle' = EndSlope
  <2>1. Len(obstacles) = 0
    BY <1>6, <1>12, <1>13
  <2>2. obstacles = <<>> /\ obstacles_in_last_line = 0
    BY <1>3, <2>1 DEF Shadows, FovTypeOK
  <2>3. Found.visible
    BY <1>2, <2>2 DEF Unhidden
  <2>4. obstacles' # Append(Found.obstacles, <<StartSlope, EndSlope>>)
    <3>1. Len(obstacles') = 0
      BY <1>13
    <3> QED  BY <1>5, <2>1, <3>1
  <2>5. IsOpaque => min_angle' = EndSlope
    BY <2>3, <2>4 DEF Cell, Hidden, SeeOpen, SeeOpaque
  <2> QED  BY <2>2, <2>5
<1>14. \/ ~Found.visible /\ seen' = seen
       \/ Found.visible /\ ~IsOpaque /\ seen' = seen \cup {Tile}
       \/ Found.visible /\ IsOpaque /\ seen' = IF light_walls THEN seen \cup {Tile}
                                                              ELSE seen \ {Tile}
  BY DEF Cell, Hidden, SeeOpen, SeeOpaque
<1> QED  BY <1>1, <1>11, <1>12, <1>13, <1>14 DEF NextCell

\* A tile has one column and one row.
LEMMA AtSame ==
  ASSUME Quadrant, NEW a \in Nat, NEW b \in Nat, NEW i \in Int, NEW j \in Int, At(a, b) = At(i, j)
  PROVE  a = i /\ b = j
BY AtIs

\* The steps to a tile, along the axes and as the king moves.
LEMMA AtSteps ==
  ASSUME Quadrant, NEW a \in Nat, NEW b \in Nat
  PROVE  /\ heuristic(player, At(a, b)) = a + b
         /\ \A n : Within(n, player, At(a, b)) <=> a <= n /\ b <= n
<1>1. 0 \in Int
  OBVIOUS
<1> QED  BY <1>1, AtIs

\* Tiles that differ by at most one in column and row are adjacent.
LEMMA AtAdjacent ==
  ASSUME Quadrant, NEW a \in Nat, NEW b \in Nat, NEW i \in Int, NEW j \in Int,
         Distance(i, a) <= 1, Distance(j, b) <= 1
  PROVE  Adjacent(At(i, j), At(a, b))
BY AtIs

\* What lies between the player and a tile of the quadrant.
LEMMA AtBetween ==
  ASSUME Quadrant, NEW a \in Nat, NEW b \in Nat, NEW i \in Int, NEW j \in Int,
         NEW o, NEW t, o = At(i, j), t = At(a, b)
  PROVE  (Between(player[1], o[1], t[1]) /\ Between(player[2], o[2], t[2]))
           <=> i \in 0 .. a /\ j \in 0 .. b
BY AtIs

\* Straight ahead is where the column or the row is the player's.
LEMMA AtStraight ==
  ASSUME Quadrant, NEW a \in Nat, NEW b \in Nat, NEW t, t = At(a, b)
  PROVE  t[1] = player[1] \/ t[2] = player[2] <=> a = 0 \/ b = 0
<1>1. 0 \in Int
  OBVIOUS
<1> QED  BY <1>1, AtIs

\* No steps lead to the player's tile.
LEMMA AtOrigin == ASSUME Quadrant PROVE At(0, 0) = player
<1>1. 0 \in Int /\ 0 \in Nat
  OBVIOUS
<1> QED  BY <1>1, AtIs

\* A tile nearer than one on the map is on the map.
LEMMA AtTiles ==
  ASSUME Quadrant, NEW a \in Nat, NEW b \in Nat, NEW i \in 0 .. a, NEW j \in 0 .. b,
         At(a, b) \in Tiles
  PROVE  At(i, j) \in Tiles
<1>1. i \in Int /\ j \in Int
  OBVIOUS
<1> QED  BY <1>1, AtIs

\* Every tile is some steps from the player's.
LEMMA AtAll ==
  ASSUME Quadrant, NEW t \in Tiles
  PROVE  \E i, j \in Int : t = At(i, j)
<1> DEFINE x == player[1]
           y == player[2]
<1>1. x \in Int /\ y \in Int /\ t[1] \in Int /\ t[2] \in Int /\ t = <<t[1], t[2]>>
      /\ dx \in {1, -1} /\ dy \in {1, -1}
  BY SizeAssumption DEF Quadrant, Tiles
<1>2. ASSUME NEW p \in Int, NEW q \in Int, NEW s \in {1, -1}
      PROVE  \E i \in Int : q = Along(p, s, i)
  <2>1. CASE s = 1
    <3>1. q - p \in Int /\ q = p + (q - p) * s
      BY <2>1
    <3> QED  BY <3>1 DEF Along
  <2>2. CASE s = -1
    <3>1. p - q \in Int /\ q = p + (p - q) * s
      BY <2>2
    <3> QED  BY <3>1 DEF Along
  <2> QED  BY <2>1, <2>2
<1>3. PICK i \in Int : t[1] = Along(x, dx, i)
  BY <1>1, <1>2
<1>4. PICK j \in Int : t[2] = Along(y, dy, j)
  BY <1>1, <1>2
<1> QED  BY <1>1, <1>3, <1>4 DEF At

\* A tile of a line, by its column and row.
LEMMA CellAt ==
  ASSUME FovTypeOK, NEW l, NEW c
  PROVE  \/ octant = "vertical" /\ TileAt(octant, l, c) = At(c, l)
         \/ octant = "horizontal" /\ TileAt(octant, l, c) = At(l, c)
BY TileAtIs DEF FovTypeOK, Octants

\* A cell seen beyond the first line is seen past a tile of the former line.
LEMMA SeenPastOne ==
  ASSUME FovInv, Looking, Found.visible, iteration >= 2
  PROVE  \E k \in {processed_cell, processed_cell - 1} :
           k \in Nat /\ TileAt(octant, iteration - 1, k) \in seen \ opaque
<1>1. /\ iteration \in 1 .. 4 /\ processed_cell \in 0 .. iteration /\ Tile \in Tiles
      /\ Tile = TileAt(octant, iteration, processed_cell)
      /\ obstacles_in_last_line # 0 => Passable(processed_cell) \/ Passable(processed_cell - 1)
  BY LookingAt DEF FovInv
<1>2. Passable(processed_cell) \/ Passable(processed_cell - 1)
  <2>1. processed_cell \in processed_cell .. iteration
    BY <1>1
  <2> QED  BY <1>1, <2>1 DEF FovInv, EdgeOK
<1>3. PICK k \in {processed_cell, processed_cell - 1} :
        TileAt(octant, iteration - 1, k) \in seen \ opaque
  BY <1>2 DEF Passable
<1>4. k \in Nat
  <2>1. PICK a \in Nat, b \in Nat : TileAt(octant, iteration - 1, k) = At(a, b)
    BY <1>3 DEF FovInv, SeenOK
  <2>2. k \in Int /\ iteration - 1 \in Int /\ Quadrant
    BY <1>1, QuadrantOK DEF FovInv
  <2>3. At(a, b) = At(k, iteration - 1) \/ At(a, b) = At(iteration - 1, k)
    BY <2>1, CellAt DEF FovInv
  <2>4. k = a \/ k = b
    BY <2>2, <2>3, AtSame
  <2> QED  BY <2>4
<1> QED  BY <1>3, <1>4

\* One more tile of a set is seen past another of the set.
LEMMA OneMorePast ==
  ASSUME FovInv, Looking, Found.visible
  PROVE  SeenPast(seen \cup {Tile})
<1>1. /\ iteration \in 1 .. 4 /\ processed_cell \in 0 .. iteration
      /\ Tile = TileAt(octant, iteration, processed_cell)
      /\ FovTypeOK /\ Quadrant /\ SeenPast(seen)
  BY LookingAt, QuadrantOK DEF FovInv, SeenOK
<1>2. PICK L \in 1 .. 4, c \in Nat : L = iteration /\ c = processed_cell /\ c <= L
  BY <1>1
<1>3. PICK t : t = Tile
  OBVIOUS
<1>4. (t = At(c, L) /\ octant = "vertical") \/ (t = At(L, c) /\ octant = "horizontal")
  <2>1. t = TileAt(octant, L, c)
    BY <1>1, <1>2, <1>3
  <2> QED  BY <1>1, <2>1, CellAt
<1>5. CASE L = 1
  <2>1. Within(1, player, t)
    <3>1. c <= 1 /\ L <= 1 /\ L \in Nat
      BY <1>2, <1>5
    <3>2. Within(1, player, At(c, L)) /\ Within(1, player, At(L, c))
      BY <1>1, <3>1, AtSteps
    <3> QED  BY <1>4, <3>2
  <2> QED  BY <1>1, <1>3, <2>1 DEF Adjacent, SeenPast
<1>6. CASE L >= 2
  <2>1. PICK k \in {c, c - 1} : k \in Nat /\ TileAt(octant, L - 1, k) \in seen \ opaque
    BY <1>2, <1>6, SeenPastOne
  <2>2. PICK s : s = TileAt(octant, L - 1, k) /\ s \in seen \ opaque
    BY <2>1
  <2>3. (s = At(k, L - 1) /\ octant = "vertical") \/ (s = At(L - 1, k) /\ octant = "horizontal")
    BY <1>1, <2>2, CellAt
  <2>4. L - 1 \in Nat /\ L \in Nat /\ k \in Nat /\ L - 1 \in Int /\ k \in Int
    BY <1>2, <1>6, <2>1
  <2>5. Distance(L - 1, L) <= 1 /\ Distance(k, c) <= 1
    BY <1>2, <2>1, <2>4 DEF Distance
  <2>6. heuristic(player, s) = k + (L - 1) /\ heuristic(player, t) = c + L
    <3>1. /\ heuristic(player, At(k, L - 1)) = k + (L - 1) /\ heuristic(player, At(c, L)) = c + L
          /\ heuristic(player, At(L - 1, k)) = (L - 1) + k /\ heuristic(player, At(L, c)) = L + c
      BY <1>1, <2>4, AtSteps
    <3> QED  BY <1>4, <2>3, <2>4, <3>1
  <2>7. Adjacent(s, t)
    <3>1. CASE octant = "vertical"
      BY <1>1, <1>2, <1>4, <2>3, <2>4, <2>5, <3>1, AtAdjacent
    <3>2. CASE octant = "horizontal"
      BY <1>1, <1>2, <1>4, <2>3, <2>4, <2>5, <3>2, AtAdjacent
    <3> QED  BY <2>3, <3>1, <3>2
  <2>8. heuristic(player, s) < heuristic(player, t)
    BY <1>2, <2>1, <2>4, <2>6
  <2> QED  BY <1>1, <1>3, <2>2, <2>7, <2>8 DEF SeenPast
<1> QED  BY <1>2, <1>5, <1>6

\* One more tile straight ahead has nothing opaque before it.
LEMMA OneMoreClear ==
  ASSUME FovInv, Looking, Found.visible
  PROVE  StraightClear(seen \cup {Tile})
<1>1. /\ iteration \in 1 .. 4 /\ processed_cell \in 0 .. iteration
      /\ Tile = TileAt(octant, iteration, processed_cell)
      /\ FovTypeOK /\ Quadrant /\ StraightClear(seen)
      /\ opaque \subseteq Tiles /\ player \notin opaque
  BY LookingAt, QuadrantOK DEF FovInv, SeenOK, FovTypeOK
<1>2. PICK L \in 1 .. 4, c \in Nat : L = iteration /\ c = processed_cell /\ c <= L
  BY <1>1
<1>3. PICK t : t = Tile
  OBVIOUS
<1>4. (t = At(c, L) /\ octant = "vertical") \/ (t = At(L, c) /\ octant = "horizontal")
  <2>1. t = TileAt(octant, L, c)
    BY <1>1, <1>2, <1>3
  <2> QED  BY <1>1, <2>1, CellAt
<1>5. SUFFICES ASSUME t[1] = player[1] \/ t[2] = player[2],
                      NEW o \in opaque \ {t},
                      Between(player[1], o[1], t[1]), Between(player[2], o[2], t[2])
               PROVE  FALSE
  BY <1>1, <1>3 DEF StraightClear, Clear
<1>6. c = 0
  <2>1. c = 0 \/ L = 0
    BY <1>1, <1>2, <1>4, <1>5, AtStraight
  <2> QED  BY <1>2, <2>1
<1>7. PICK i \in Int, j \in Int : o = At(i, j)
  BY <1>1, <1>5, AtAll
<1>8. PICK n \in Int : /\ n \in 0 .. L
                       /\ \/ octant = "vertical" /\ t = At(0, L) /\ o = At(0, n)
                          \/ octant = "horizontal" /\ t = At(L, 0) /\ o = At(n, 0)
  <2>1. CASE octant = "vertical"
    <3>1. t = At(0, L) /\ 0 \in Nat /\ L \in Nat
      BY <1>2, <1>4, <1>6, <2>1
    <3>2. i \in 0 .. 0 /\ j \in 0 .. L
      BY <1>1, <1>5, <1>7, <3>1, AtBetween
    <3>3. i = 0
      BY <3>2
    <3> QED  BY <1>7, <2>1, <3>1, <3>2, <3>3
  <2>2. CASE octant = "horizontal"
    <3>1. t = At(L, 0) /\ 0 \in Nat /\ L \in Nat
      BY <1>2, <1>4, <1>6, <2>2
    <3>2. i \in 0 .. L /\ j \in 0 .. 0
      BY <1>1, <1>5, <1>7, <3>1, AtBetween
    <3>3. j = 0
      BY <3>2
    <3> QED  BY <1>7, <2>2, <3>1, <3>2, <3>3
  <2> QED  BY <1>4, <2>1, <2>2
<1>9. n \in 1 .. L - 1
  <2>1. n # L
    BY <1>5, <1>8
  <2>2. n # 0
    <3>1. At(0, 0) = player
      BY <1>1, AtOrigin
    <3> QED  BY <1>1, <1>5, <1>8, <3>1
  <2> QED  BY <1>2, <1>8, <2>1, <2>2
<1>10. L >= 2 /\ L - 1 \in Nat
  BY <1>2, <1>9
<1>11. PICK s : s = TileAt(octant, L - 1, 0) /\ s \in seen \ opaque
  <2>1. PICK k \in {c, c - 1} : k \in Nat /\ TileAt(octant, L - 1, k) \in seen \ opaque
    BY <1>2, <1>10, SeenPastOne
  <2>2. k = 0
    BY <1>6, <2>1
  <2> QED  BY <2>1, <2>2
<1>12. \/ octant = "vertical" /\ s = At(0, L - 1)
       \/ octant = "horizontal" /\ s = At(L - 1, 0)
  BY <1>1, <1>11, CellAt
<1>13. /\ s[1] = player[1] \/ s[2] = player[2]
       /\ Between(player[1], o[1], s[1]) /\ Between(player[2], o[2], s[2])
  <2>1. n \in 0 .. L - 1 /\ 0 \in 0 .. 0 /\ 0 \in Nat /\ 0 \in Int /\ n \in Int
    BY <1>2, <1>9
  <2>2. CASE octant = "vertical"
    BY <1>1, <1>8, <1>10, <1>12, <2>1, <2>2, AtBetween, AtStraight
  <2>3. CASE octant = "horizontal"
    BY <1>1, <1>8, <1>10, <1>12, <2>1, <2>3, AtBetween, AtStraight
  <2> QED  BY <1>8, <2>2, <2>3
<1>14. Clear(s)
  BY <1>1, <1>11, <1>13 DEF StraightClear
<1> QED  BY <1>5, <1>11, <1>13, <1>14 DEF Clear

\* What does not depend on the progress in a quadrant.
LEMMA SameView ==
  ASSUME UNCHANGED <<fov_input, quadrant>>
  PROVE  /\ \A oct, l, c : TileAt(oct, l, c)' = TileAt(oct, l, c)
         /\ \A a, b : At(a, b)' = At(a, b)
         /\ \A t : Clear(t)' <=> Clear(t)
         /\ \A S : SeenPast(S)' <=> SeenPast(S)
         /\ \A S : StraightClear(S)' <=> StraightClear(S)
<1>1. player' = player /\ opaque' = opaque /\ dx' = dx /\ dy' = dy
  BY DEF fov_input, dx, dy
<1>2. \A oct, l, c : TileAt(oct, l, c)' = TileAt(oct, l, c)
  BY <1>1 DEF TileAt
<1>3. \A a, b : At(a, b)' = At(a, b)
  BY <1>1 DEF At, Along
<1>4. \A t : Clear(t)' <=> Clear(t)
  BY <1>1 DEF Clear, Between
<1>5. \A S : SeenPast(S)' <=> SeenPast(S)
  BY <1>1 DEF SeenPast
<1>6. \A S : StraightClear(S)' <=> StraightClear(S)
  BY <1>1, <1>4 DEF StraightClear
<1> QED  BY <1>2, <1>3, <1>4, <1>5, <1>6

\* The tiles that are seen after a cell.
LEMMA CellSeen ==
  ASSUME FovInv, Cell
  PROVE  /\ seen' \subseteq seen \cup {Tile} /\ player \in seen' /\ seen \ opaque \subseteq seen'
         /\ Found.visible /\ ~IsOpaque => Tile \in seen'
         /\ SeenPast(seen') /\ StraightClear(seen')
<1>1. /\ Looking
      /\ \/ ~Found.visible /\ seen' = seen
         \/ Found.visible /\ ~IsOpaque /\ seen' = seen \cup {Tile}
         \/ Found.visible /\ IsOpaque /\ seen' = IF light_walls THEN seen \cup {Tile}
                                                               ELSE seen \ {Tile}
  BY CellEffect DEF FovInv
<1>2. player \in seen /\ player \notin opaque /\ SeenPast(seen) /\ StraightClear(seen)
  BY DEF FovInv, FovTypeOK, SeenOK
<1>3. PICK S : S = seen'
  OBVIOUS
<1>4. CASE S = seen
  BY <1>1, <1>2, <1>3, <1>4
<1>5. CASE Found.visible /\ S = seen \cup {Tile}
  BY <1>1, <1>2, <1>3, <1>5, OneMorePast, OneMoreClear
<1>6. CASE IsOpaque /\ S = seen \ {Tile}
  <2>1. Tile \in opaque
    BY <1>6 DEF IsOpaque
  <2>2. SeenPast(S)
    BY <1>2, <1>6, <2>1 DEF SeenPast
  <2>3. StraightClear(S)
    BY <1>2, <1>6 DEF StraightClear
  <2> QED  BY <1>2, <1>3, <1>6, <2>1, <2>2, <2>3
<1> QED  BY <1>1, <1>3, <1>4, <1>5, <1>6

\* A cell keeps the invariant.
LEMMA CellStep == FovInv /\ Cell => FovInv'
<1> SUFFICES ASSUME FovInv, Cell PROVE FovInv'
  OBVIOUS
<1>1. FovTypeOK /\ LineOK /\ SeenOK /\ EdgeOK /\ Quadrant
  BY QuadrantOK DEF FovInv
<1>2. /\ processed_cell' = processed_cell + 1
      /\ obstacles_in_last_line' = obstacles_in_last_line
      /\ UNCHANGED <<fov_input, fov, quadrant, octant, iteration>>
      /\ obstacles' \in Shadows /\ Len(obstacles') >= Len(obstacles)
      /\ obstacles' = <<>> => /\ obstacles = <<>> /\ obstacles_in_last_line = 0
                              /\ IsOpaque => min_angle' = EndSlope
      /\ min_angle' \in Nat /\ min_angle' >= min_angle
      /\ iteration * min_angle' <= 24 * (2 * processed_cell + 1)
  BY <1>1, CellEffect
<1>3. /\ Looking /\ iteration \in 1 .. 4 /\ processed_cell \in 0 .. iteration
      /\ Tile \in Tiles /\ Tile = TileAt(octant, iteration, processed_cell)
      /\ EndSlope = End(iteration, processed_cell)
      /\ obstacles_in_last_line = 0 => Found = Unhidden
  BY <1>1, CellEffect, LookingAt
<1>4. /\ seen' \subseteq seen \cup {Tile} /\ player \in seen' /\ seen \ opaque \subseteq seen'
      /\ Found.visible /\ ~IsOpaque => Tile \in seen'
      /\ SeenPast(seen') /\ StraightClear(seen')
  BY CellSeen
<1>5. PICK oct, line, cell : oct = octant /\ line = iteration /\ cell = processed_cell
  OBVIOUS
<1>6. oct' = octant' /\ line' = iteration' /\ oct = octant' /\ line = iteration'
  BY <1>2, <1>5
<1>7. /\ \A l, c : TileAt(octant, l, c)' = TileAt(octant, l, c)
      /\ \A a, b : At(a, b)' = At(a, b)
  BY <1>2, <1>5, <1>6, SameView
<1>8. FovTypeOK'
  <2>1. done' \in BOOLEAN
    BY <1>1 DEF Cell, Hidden, SeeOpen, SeeOpaque, FovTypeOK
  <2>2. obstacles_in_last_line' \in 0 .. Len(obstacles')
    <3>1. Len(obstacles) \in Nat /\ Len(obstacles') \in Nat
      BY <1>1, <1>2 DEF FovTypeOK, Shadows
    <3> QED  BY <1>1, <1>2, <3>1 DEF FovTypeOK
  <2>3. processed_cell' \in Nat
    BY <1>1, <1>2 DEF FovTypeOK
  <2>4. seen' \in SUBSET Tiles
    BY <1>1, <1>3, <1>4 DEF FovTypeOK
  <2> QED  BY <1>1, <1>2, <2>1, <2>2, <2>3, <2>4 DEF FovTypeOK, fov_input
<1>9. LineOK'
  <2>1. TileAt(octant, iteration, 0)' \in Tiles
    BY <1>1, <1>2, <1>5, <1>6, <1>7 DEF LineOK
  <2>2. iteration' > 0
    BY <1>2, <1>3
  <2>3. iteration' * min_angle' < 24 * (2 * processed_cell' + 1)
    <3>1. PICK edge : edge = min_angle'
      OBVIOUS
    <3>2. line * edge <= 24 * (2 * cell + 1)
      BY <1>2, <1>5, <3>1
    <3>3. edge \in Nat /\ line \in Nat /\ cell \in Nat
      BY <1>2, <1>3, <1>5, <3>1
    <3>4. line * edge \in Nat
      BY <3>3
    <3>5. line * edge < 24 * (2 * (cell + 1) + 1)
      BY <3>2, <3>3, <3>4
    <3> QED  BY <1>2, <1>5, <1>6, <3>1, <3>5
  <2> QED  BY <1>1, <1>2, <2>1, <2>2, <2>3 DEF LineOK
<1>10. SeenOK'
  <2>1. \A t \in seen' : \E a, b \in Nat : t = At(a, b)
    <3>1. \E a, b \in Nat : Tile = At(a, b)
      <4>1. iteration \in Nat /\ processed_cell \in Nat
        BY <1>3
      <4> QED  BY <1>1, <1>3, <4>1, CellAt
    <3> QED  BY <1>1, <1>4, <3>1 DEF SeenOK
  <2>2. \A t \in seen' : \E a, b \in Nat : t = At(a, b)'
    BY <1>7, <2>1
  <2>3. SeenPast(fov) /\ StraightClear(fov)
    BY <1>1 DEF SeenOK
  <2>4. PICK S, F : S = seen' /\ F = fov
    OBVIOUS
  <2>5. F = fov'
    BY <1>2, <2>4
  <2>6. SeenPast(S)' /\ StraightClear(S)' /\ SeenPast(F)' /\ StraightClear(F)'
    BY <1>2, <1>4, <2>3, <2>4, SameView
  <2>7. SeenPast(seen)' /\ StraightClear(seen)' /\ SeenPast(fov)' /\ StraightClear(fov)'
    BY <2>4, <2>5, <2>6 DEF SeenPast, StraightClear
  <2>8. player' \in seen'
    BY <1>2, <1>4 DEF fov_input
  <2> QED  BY <2>2, <2>7, <2>8 DEF SeenOK
<1>11. EdgeOK'
  <2>1. opaque' = opaque
    BY <1>2 DEF fov_input
  <2>2. ASSUME obstacles' = <<>>, NEW c \in 0 .. line, c < cell + 1, TileAt(octant, line, c) \in Tiles
        PROVE  TileAt(octant, line, c) \in seen' \ opaque \/ End(line, c) <= min_angle'
    <3>1. obstacles = <<>> /\ Found.visible
      BY <1>2, <1>3, <2>2 DEF Unhidden
    <3>2. line \in 1 .. 4 /\ cell \in Nat /\ c \in Int /\ min_angle \in Nat
      BY <1>1, <1>3, <1>5 DEF FovTypeOK
    <3>3. CASE c < cell
      <4>1. TileAt(octant, line, c) \in seen \ opaque \/ End(line, c) <= min_angle
        BY <1>1, <1>5, <2>2, <3>1, <3>2, <3>3 DEF EdgeOK
      <4>2. End(line, c) \in Int
        BY <3>2, Slopes
      <4> QED  BY <1>2, <1>4, <3>2, <4>1, <4>2
    <3>4. CASE c = cell
      <4>1. Tile = TileAt(octant, line, c) /\ EndSlope = End(line, c)
        BY <1>3, <1>5, <3>4
      <4>2. End(line, c) \in Int
        BY <3>2, Slopes
      <4>3. CASE IsOpaque
        BY <1>2, <2>2, <4>1, <4>2, <4>3
      <4>4. CASE ~IsOpaque
        BY <1>4, <3>1, <4>1, <4>4 DEF IsOpaque
      <4> QED  BY <4>3, <4>4
    <3> QED  BY <2>2, <3>2, <3>3, <3>4
  <2>3. ASSUME line >= 2, obstacles_in_last_line = 0, NEW c \in cell + 1 .. line,
               TileAt(octant, line, c) \in Tiles
        PROVE  \/ TileAt(octant, line - 1, c) \in seen' \ opaque
               \/ TileAt(octant, line - 1, c - 1) \in seen' \ opaque
    <3>1. c \in cell .. line
      BY <1>3, <1>5, <2>3
    <3>2. Passable(c) \/ Passable(c - 1)
      BY <1>1, <1>5, <2>3, <3>1 DEF EdgeOK
    <3> QED  BY <1>4, <1>5, <3>2 DEF Passable
  <2>4. \A l, c : TileAt(octant, l, c)' = TileAt(oct, l, c) /\ TileAt(oct, l, c) = TileAt(octant, l, c)
    BY <1>5, <1>7
  <2>5. iteration' = line /\ processed_cell' = cell + 1 /\ obstacles_in_last_line' = obstacles_in_last_line
    BY <1>2, <1>5
  <2>6. \A c : Passable(c)' <=> TileAt(octant, line - 1, c) \in seen' \ opaque
    BY <1>5, <1>6, <1>7, <2>1, <2>5 DEF Passable
  <2>7. iteration' >= 1 /\ obstacles' = <<>> =>
          \A c \in 0 .. iteration' :
            c < processed_cell' /\ TileAt(octant, iteration, c)' \in Tiles =>
              TileAt(octant, iteration, c)' \in (seen \ opaque)' \/ End(iteration, c)' <= min_angle'
    <3>1. \A c : TileAt(octant, iteration, c)' = TileAt(octant, line, c) /\ End(iteration, c)' = End(line, c)
      BY <1>5, <1>6, <1>7 DEF End
    <3> QED  BY <2>1, <2>2, <2>5, <3>1
  <2>8. iteration' >= 2 /\ obstacles_in_last_line' = 0 =>
          \A c \in processed_cell' .. iteration' :
            TileAt(octant, iteration, c)' \in Tiles => Passable(c)' \/ Passable(c - 1)'
    <3>1. \A c : TileAt(octant, iteration, c)' = TileAt(octant, line, c)
      BY <1>5, <1>6, <1>7
    <3> QED  BY <2>3, <2>5, <2>6, <3>1
  <2> QED  BY <2>7, <2>8 DEF EdgeOK
<1> QED  BY <1>8, <1>9, <1>10, <1>11 DEF FovInv

\* FirstCell, for an edge at m.
First(line, m) == (line * (m + 24 \div line)) \div 48

\* The first cell of a line is the one the edge falls into.
LEMMA FirstCellIs ==
  ASSUME NEW line \in 1 .. 4, NEW m \in Nat, NEW f, f = First(line, m)
  PROVE  /\ f \in Nat /\ line * m < 24 * (2 * f + 1)
         /\ \A c \in Nat : c < f => End(line, c) <= m
         /\ \A c \in Nat : line * m < 24 * (2 * c + 1) => f <= c
         /\ \A c \in Nat : f <= c => line * m < 24 * (2 * c + 1)
<1>1. line * (m + 24 \div line) = line * m + 24 /\ line * m \in Nat
  <2>1. CASE line = 1
    BY <2>1
  <2>2. CASE line = 2
    BY <2>2
  <2>3. CASE line = 3
    BY <2>3
  <2>4. CASE line = 4
    BY <2>4
  <2> QED  BY <2>1, <2>2, <2>3, <2>4
<1>2. PICK x \in Nat : x = line * m
  BY <1>1
<1>3. f = (x + 24) \div 48
  BY <1>1, <1>2 DEF First
<1>4. f \in Nat /\ 48 * f <= x + 24 /\ x + 24 < 48 * f + 48
  BY <1>3
<1>5. ASSUME NEW c \in Nat, c < f PROVE End(line, c) <= m
  <2>1. x >= 24 * (2 * c + 1)
    BY <1>4, <1>5
  <2>2. c \in Int
    OBVIOUS
  <2>3. PICK e \in Int : e = End(line, c)
    BY <2>2, Slopes
  <2>4. /\ line = 3 /\ c = 2 => e = 39
        /\ ~(line = 3 /\ c = 2) => line * e = 24 * (2 * c + 1)
    BY <2>2, <2>3, Slopes
  <2>5. CASE line = 1
    BY <1>2, <2>1, <2>3, <2>4, <2>5
  <2>6. CASE line = 2
    BY <1>2, <2>1, <2>3, <2>4, <2>6
  <2>7. CASE line = 3
    BY <1>2, <2>1, <2>3, <2>4, <2>7
  <2>8. CASE line = 4
    BY <1>2, <2>1, <2>3, <2>4, <2>8
  <2> QED  BY <2>5, <2>6, <2>7, <2>8
<1>6. x < 24 * (2 * f + 1)
  BY <1>4
<1>7. ASSUME NEW c \in Nat, x < 24 * (2 * c + 1) PROVE f <= c
  BY <1>4, <1>7
<1>8. ASSUME NEW c \in Nat, f <= c PROVE x < 24 * (2 * c + 1)
  BY <1>4, <1>8
<1> QED  BY <1>2, <1>4, <1>5, <1>6, <1>7, <1>8

\* A cell below the edge is below what the next line begins with.
LEMMA EdgeHides ==
  ASSUME NEW line \in 1 .. 3, NEW m \in Nat, NEW c \in 0 .. line + 1,
         NEW d \in 0 .. line, c <= line => d = c, c > line => d = line,
         (line + 1) * m < 24 * (2 * c + 1)
  PROVE  ~(End(line, d) <= m)
<1>1. line \in 1 .. 4 /\ d \in Int /\ c \in Int
  OBVIOUS
<1>2. PICK e \in Int : e = End(line, d)
  BY <1>1, Slopes
<1>3. /\ line = 3 /\ d = 2 => e = 39
      /\ ~(line = 3 /\ d = 2) => line * e = 24 * (2 * d + 1)
  BY <1>1, <1>2, Slopes
<1>4. CASE line = 1
  BY <1>1, <1>2, <1>3, <1>4
<1>5. CASE line = 2
  BY <1>1, <1>2, <1>3, <1>5
<1>6. CASE line = 3
  BY <1>1, <1>2, <1>3, <1>6
<1> QED  BY <1>4, <1>5, <1>6

\* A cell of a line that is over was looked at.
LEMMA LineLookedAt ==
  ASSUME FovTypeOK, LineOver, NEW c \in 0 .. iteration, TileAt(octant, iteration, c) \in Tiles
  PROVE  c < processed_cell
<1>1. processed_cell \in Nat /\ iteration \in Nat /\ c \in Nat /\ Quadrant
  BY SlopesExact, QuadrantOK DEF FovTypeOK
<1>2. SUFFICES ASSUME processed_cell <= c PROVE FALSE
  BY <1>1
<1>3. processed_cell \in 0 .. c /\ iteration \in 0 .. iteration /\ ~(processed_cell > iteration)
  BY <1>1, <1>2
<1>4. TileAt(octant, iteration, processed_cell) \in Tiles
  <2>1. CASE octant = "vertical"
    <3>1. At(c, iteration) \in Tiles /\ TileAt(octant, iteration, processed_cell) = At(processed_cell, iteration)
      BY <2>1, CellAt
    <3> QED  BY <1>1, <1>3, <3>1, AtTiles
  <2>2. CASE octant = "horizontal"
    <3>1. At(iteration, c) \in Tiles /\ TileAt(octant, iteration, processed_cell) = At(iteration, processed_cell)
      BY <2>2, CellAt
    <3> QED  BY <1>1, <1>3, <3>1, AtTiles
  <2> QED  BY <2>1, <2>2 DEF FovTypeOK, Octants
<1> QED  BY <1>3, <1>4 DEF LineOver, Tile

\* A tile of a former line, and of a lower cell, is on the map too.
LEMMA CellBefore ==
  ASSUME FovTypeOK, NEW l \in Nat, NEW c \in Nat, NEW m \in 0 .. l, NEW d \in 0 .. c,
         NEW oct \in Octants, TileAt(oct, l, c) \in Tiles
  PROVE  TileAt(oct, m, d) \in Tiles
<1>1. Quadrant
  BY QuadrantOK
<1>2. CASE oct = "vertical"
  BY <1>1, <1>2, TileAtIs, AtTiles
<1>3. CASE oct = "horizontal"
  BY <1>1, <1>3, TileAtIs, AtTiles
<1> QED  BY <1>2, <1>3 DEF Octants

\* The end of a line keeps the invariant.
LEMMA EndLineStep == FovInv /\ EndLine => FovInv'
<1> SUFFICES ASSUME FovInv, EndLine PROVE FovInv'
  OBVIOUS
<1>1. FovTypeOK /\ LineOK /\ SeenOK /\ EdgeOK
  BY DEF FovInv
<1>2. /\ ~Returned /\ LineOver /\ ~NoMoreLines
      /\ iteration' = iteration + 1
      /\ processed_cell' = FirstCell(iteration + 1)
      /\ obstacles_in_last_line' = Len(obstacles)
      /\ done' = TRUE
      /\ UNCHANGED <<fov_input, fov, quadrant, octant, min_angle, obstacles, seen>>
  BY DEF EndLine
<1>0. PICK f : f = FirstCell(iteration + 1)
  OBVIOUS
<1>3. PICK L \in 0 .. 3, m \in Nat : L = iteration /\ m = min_angle /\ f = FirstCell(iteration + 1)
  BY <1>0, <1>1, <1>2, SlopesExact DEF NoMoreLines, FovTypeOK
<1>4. /\ f \in Nat /\ (L + 1) * m < 24 * (2 * f + 1)
      /\ \A c \in Nat : c < f => End(L + 1, c) <= m
      /\ \A c \in Nat : f <= c => (L + 1) * m < 24 * (2 * c + 1)
  <2>1. PICK n \in 1 .. 4 : n = L + 1
    OBVIOUS
  <2>2. f = First(n, m)
    BY <1>3, <2>1 DEF FirstCell, First
  <2>3. /\ f \in Nat /\ n * m < 24 * (2 * f + 1)
        /\ \A c \in Nat : c < f => End(n, c) <= m
        /\ \A c \in Nat : f <= c => n * m < 24 * (2 * c + 1)
    BY <2>2, FirstCellIs
  <2> QED  BY <2>1, <2>3
<1>5. PICK oct \in Octants : oct = octant
  BY <1>1 DEF FovTypeOK
<1>6. oct = octant' /\ L + 1 = iteration' /\ m = min_angle' /\ f = processed_cell'
  BY <1>2, <1>3, <1>5
<1>7. /\ \A o, l, c : TileAt(o, l, c)' = TileAt(o, l, c)
      /\ \A a, b : At(a, b)' = At(a, b)
  BY <1>2, SameView
<1>8. FovTypeOK'
  <2>1. Len(obstacles) \in Nat
    BY <1>1 DEF FovTypeOK, Shadows
  <2>2. iteration' \in 0 .. fov_max_distance
    BY <1>1, <1>2, SlopesExact DEF NoMoreLines, FovTypeOK
  <2>3. min_angle' \in Nat /\ processed_cell' \in Nat
    BY <1>4, <1>6
  <2> QED  BY <1>1, <1>2, <2>1, <2>2, <2>3 DEF FovTypeOK, fov_input
<1>9. LineOK'
  <2>1. TileAt(octant, iteration, 0)' \in Tiles
    BY <1>2, <1>3, <1>5, <1>6, <1>7 DEF NoMoreLines
  <2>2. iteration' # 0 /\ (iteration' <= 1 => obstacles_in_last_line' = 0)
    <3>1. L + 1 <= 1 => L = 0
      OBVIOUS
    <3>2. L = 0 => Len(obstacles) = 0
      BY <1>1, <1>3 DEF LineOK
    <3> QED  BY <1>2, <1>3, <1>6, <3>1, <3>2
  <2>3. iteration' * min_angle' < 24 * (2 * processed_cell' + 1)
    BY <1>4, <1>6
  <2> QED  BY <2>1, <2>2, <2>3 DEF LineOK
<1>10. SeenOK'
  <2>1. PICK S, F : S = seen /\ F = fov
    OBVIOUS
  <2>2. S = seen' /\ F = fov'
    BY <1>2, <2>1
  <2>3. SeenPast(S)' /\ StraightClear(S)' /\ SeenPast(F)' /\ StraightClear(F)'
    BY <1>1, <1>2, <2>1, SameView DEF SeenOK
  <2>4. SeenPast(seen)' /\ StraightClear(seen)' /\ SeenPast(fov)' /\ StraightClear(fov)'
    BY <2>2, <2>3 DEF SeenPast, StraightClear
  <2>5. player' \in seen' /\ \A t \in seen' : \E a, b \in Nat : t = At(a, b)'
    BY <1>1, <1>2, <1>7 DEF SeenOK, fov_input
  <2> QED  BY <2>4, <2>5 DEF SeenOK
<1>11. EdgeOK'
  <2>1. opaque' = opaque /\ seen' = seen
    BY <1>2 DEF fov_input
  <2>2. \A c : TileAt(octant, iteration, c)' = TileAt(oct, L + 1, c) /\ End(iteration, c)' = End(L + 1, c)
    BY <1>6, <1>7 DEF End
  <2>3. ASSUME NEW c \in 0 .. L + 1, c < f PROVE End(L + 1, c) <= m
    BY <1>4, <2>3
  <2>4. ASSUME L + 1 >= 2, Len(obstacles) = 0, NEW c \in f .. L + 1, TileAt(oct, L + 1, c) \in Tiles
        PROVE  \/ TileAt(oct, L, c) \in seen \ opaque
               \/ TileAt(oct, L, c - 1) \in seen \ opaque
    <3>1. PICK d \in 0 .. L : (c <= L => d = c) /\ (c > L => d = L)
      <4>1. c \in 0 .. L + 1
        BY <1>4
      <4>2. CASE c <= L
        BY <4>1, <4>2
      <4>3. CASE c > L
        BY <4>1, <4>3
      <4> QED  BY <4>1, <4>2, <4>3
    <3>2. c \in Nat /\ d \in 0 .. c /\ L \in 0 .. L + 1 /\ L + 1 \in Nat /\ d \in {c, c - 1}
      BY <1>4, <3>1
    <3>3. TileAt(oct, L, d) \in Tiles
      BY <1>1, <2>4, <3>2, CellBefore
    <3>4. d < processed_cell
      BY <1>1, <1>2, <1>3, <1>5, <3>3, LineLookedAt
    <3>5. obstacles = <<>>
      BY <1>1, <2>4 DEF FovTypeOK, Shadows
    <3>6. L >= 1
      BY <2>4
    <3>7. TileAt(oct, L, d) \in seen \ opaque \/ End(L, d) <= m
      BY <1>1, <1>3, <1>5, <3>3, <3>4, <3>5, <3>6 DEF EdgeOK
    <3>8. ~(End(L, d) <= m)
      <4>1. L \in 1 .. 3 /\ c \in 0 .. L + 1 /\ f <= c
        BY <1>4, <3>2, <3>6
      <4>2. (L + 1) * m < 24 * (2 * c + 1)
        BY <1>4, <3>2, <4>1
      <4> QED  BY <3>1, <4>1, <4>2, EdgeHides
    <3> QED  BY <3>2, <3>7, <3>8
  <2>5. \A c : Passable(c)' <=> TileAt(oct, L, c) \in seen \ opaque
    <3>1. iteration' - 1 = L
      BY <1>6
    <3> QED  BY <1>6, <1>7, <2>1, <3>1 DEF Passable
  <2>6. iteration' >= 1 /\ obstacles' = <<>> =>
          \A c \in 0 .. iteration' :
            c < processed_cell' /\ TileAt(octant, iteration, c)' \in Tiles =>
              TileAt(octant, iteration, c)' \in (seen \ opaque)' \/ End(iteration, c)' <= min_angle'
    BY <1>6, <2>2, <2>3
  <2>7. iteration' >= 2 /\ obstacles_in_last_line' = 0 =>
          \A c \in processed_cell' .. iteration' :
            TileAt(octant, iteration, c)' \in Tiles => Passable(c)' \/ Passable(c - 1)'
    BY <1>2, <1>6, <2>2, <2>4, <2>5
  <2> QED  BY <2>6, <2>7 DEF EdgeOK
<1> QED  BY <1>8, <1>9, <1>10, <1>11 DEF FovInv

\* The player's own tile is seen past none.
LEMMA OwnTile ==
  ASSUME player \in Tiles, opaque \subseteq Tiles
  PROVE  SeenPast({player}) /\ StraightClear({player})
<1>1. player[1] \in Int /\ player[2] \in Int /\ player = <<player[1], player[2]>>
  BY DEF Tiles
<1>2. Adjacent(player, player)
  BY <1>1 DEF Adjacent, Within, Distance
<1>3. Clear(player)
  <2> SUFFICES ASSUME NEW o \in opaque \ {player},
                      Between(player[1], o[1], player[1]), Between(player[2], o[2], player[2])
               PROVE  FALSE
    BY DEF Clear
  <2>1. o[1] \in Int /\ o[2] \in Int /\ o = <<o[1], o[2]>>
    BY DEF Tiles
  <2>2. o[1] = player[1] /\ o[2] = player[2]
    BY <1>1, <2>1 DEF Between
  <2> QED  BY <1>1, <2>1, <2>2
<1> QED  BY <1>2, <1>3 DEF SeenPast, StraightClear

\* Two sets of tiles together.
LEMMA Together ==
  ASSUME NEW S, NEW T, SeenPast(S), SeenPast(T), StraightClear(S), StraightClear(T)
  PROVE  SeenPast(S \cup T) /\ StraightClear(S \cup T)
<1>1. SeenPast(S \cup T)
  BY DEF SeenPast
<1>2. StraightClear(S \cup T)
  BY DEF StraightClear
<1> QED  BY <1>1, <1>2

\* The end of an octant keeps the invariant.
LEMMA EndOctantStep == FovInv /\ EndOctant => FovInv'
<1> SUFFICES ASSUME FovInv, EndOctant PROVE FovInv'
  OBVIOUS
<1>1. FovTypeOK /\ LineOK /\ SeenOK /\ EdgeOK
  BY DEF FovInv
<1>2. /\ ~Returned /\ NextOctant
      /\ iteration' = 0 /\ processed_cell' = 1 /\ min_angle' = 0
      /\ obstacles' = <<>> /\ obstacles_in_last_line' = 0 /\ done' = FALSE
      /\ UNCHANGED fov_input
  BY DEF EndOctant
<1>3. player' = player /\ opaque' = opaque /\ light_walls' = light_walls
  BY <1>2 DEF fov_input
<1>4. \/ octant' = "horizontal" /\ quadrant' = quadrant /\ fov' = fov /\ seen' = seen
      \/ octant' = "vertical" /\ quadrant' = quadrant + 1 /\ fov' = fov \cup seen /\ seen' = {player}
  BY <1>2 DEF NextOctant
<1>5. FovTypeOK'
  <2>1. quadrant' \in 1 .. 5 /\ octant' \in Octants
    BY <1>1, <1>2, <1>4 DEF FovTypeOK, Returned, Octants
  <2>2. <<>> \in Shadows /\ Len(<<>>) = 0
    BY DEF Shadows
  <2>3. fov' \in SUBSET Tiles /\ seen' \in SUBSET Tiles
    BY <1>1, <1>4 DEF FovTypeOK
  <2>4. iteration' \in 0 .. fov_max_distance /\ processed_cell' \in Nat /\ min_angle' \in Nat
    BY <1>2, SlopesExact
  <2>5. obstacles' \in Shadows /\ obstacles_in_last_line' \in 0 .. Len(obstacles') /\ done' \in BOOLEAN
    <3>1. obstacles' \in Shadows /\ Len(obstacles') = 0
      BY <1>2, <2>2
    <3>2. PICK n : n = Len(obstacles')
      OBVIOUS
    <3>3. obstacles_in_last_line' \in 0 .. n
      BY <1>2, <3>1, <3>2
    <3>4. done' \in BOOLEAN
      BY <1>2
    <3> QED  BY <3>1, <3>2, <3>3, <3>4
  <2>6. player' \in Tiles /\ light_walls' \in BOOLEAN /\ opaque' \in SUBSET (Tiles \ {player'})
    BY <1>1, <1>3 DEF FovTypeOK
  <2> QED  BY <2>1, <2>3, <2>4, <2>5, <2>6 DEF FovTypeOK
<1>6. Quadrant'
  BY <1>5 DEF FovTypeOK, Quadrant, dx, dy
<1>7. At(0, 0)' = player'
  <2>1. player'[1] \in Int /\ player'[2] \in Int /\ player' = <<player'[1], player'[2]>>
        /\ dx' \in {1, -1} /\ dy' \in {1, -1}
    BY <1>6 DEF Quadrant, Tiles
  <2> QED  BY <2>1 DEF At, Along
<1>8. LineOK'
  <2>1. TileAt(octant, iteration, 0)' = At(0, 0)'
    BY <1>2 DEF TileAt, At, Along
  <2> QED  BY <1>2, <1>5, <1>7, <2>1 DEF LineOK, FovTypeOK
<1>9. EdgeOK'
  BY <1>2 DEF EdgeOK
<1>10. SeenOK'
  <2>1. CASE quadrant' = quadrant /\ fov' = fov /\ seen' = seen
    <3>1. UNCHANGED <<fov_input, quadrant>>
      BY <1>2, <2>1
    <3>2. PICK S, F : S = seen /\ F = fov
      OBVIOUS
    <3>3. S = seen' /\ F = fov'
      BY <2>1, <3>2
    <3>4. SeenPast(S)' /\ StraightClear(S)' /\ SeenPast(F)' /\ StraightClear(F)'
      BY <1>1, <3>1, <3>2, SameView DEF SeenOK
    <3>5. SeenPast(seen)' /\ StraightClear(seen)' /\ SeenPast(fov)' /\ StraightClear(fov)'
      BY <3>3, <3>4 DEF SeenPast, StraightClear
    <3>6. player' \in seen' /\ \A t \in seen' : \E a, b \in Nat : t = At(a, b)'
      BY <1>1, <1>3, <2>1, <3>1, SameView DEF SeenOK
    <3> QED  BY <3>5, <3>6 DEF SeenOK
  <2>2. CASE fov' = fov \cup seen /\ seen' = {player}
    <3>1. SeenPast({player}) /\ StraightClear({player})
      BY <1>1, OwnTile DEF FovTypeOK
    <3>2. SeenPast(fov \cup seen) /\ StraightClear(fov \cup seen)
      BY <1>1, Together DEF SeenOK
    <3>3. PICK S, F : S = {player} /\ F = fov \cup seen
      OBVIOUS
    <3>4. SeenPast(S) /\ SeenPast(F) /\ StraightClear(S) /\ StraightClear(F)
      BY <3>1, <3>2, <3>3
    <3>5. S = seen' /\ F = fov'
      BY <2>2, <3>3
    <3>6. SeenPast(seen)' /\ SeenPast(fov)'
      BY <1>3, <3>4, <3>5 DEF SeenPast
    <3>7. StraightClear(seen)' /\ StraightClear(fov)'
      BY <1>3, <3>4, <3>5 DEF StraightClear, Clear
    <3>8. player' \in seen' /\ \A t \in seen' : \E a, b \in Nat : t = At(a, b)'
      <4>1. seen' = {player'} /\ 0 \in Nat
        BY <1>3, <2>2
      <4> QED  BY <1>7, <4>1
    <3> QED  BY <3>6, <3>7, <3>8 DEF SeenOK
  <2> QED  BY <1>4, <2>1, <2>2
<1> QED  BY <1>5, <1>8, <1>9, <1>10 DEF FovInv

\* A search begins with the player's tile.
LEMMA FovStart == FovInit => FovInv
<1> SUFFICES ASSUME FovInit PROVE FovInv
  OBVIOUS
<1>1. FovTypeOK
  <2>1. player \in Tiles /\ opaque \in SUBSET (Tiles \ {player}) /\ light_walls \in BOOLEAN
    BY LayoutAssumption DEF FovInit
  <2>2. <<>> \in Shadows /\ Len(<<>>) = 0
    BY DEF Shadows
  <2>3. iteration \in 0 .. fov_max_distance /\ quadrant \in 1 .. 5 /\ octant \in Octants
    BY SlopesExact DEF FovInit, Octants
  <2>4. obstacles \in Shadows /\ obstacles_in_last_line \in 0 .. Len(obstacles)
    BY <2>2 DEF FovInit
  <2>5. /\ processed_cell \in Nat /\ min_angle \in Nat /\ done \in BOOLEAN
        /\ fov \in SUBSET Tiles /\ seen \in SUBSET Tiles
    BY <2>1 DEF FovInit
  <2> QED  BY <2>1, <2>3, <2>4, <2>5 DEF FovTypeOK
<1>2. Quadrant
  BY <1>1, QuadrantOK
<1>3. At(0, 0) = player
  BY <1>2, AtOrigin
<1>4. LineOK
  <2>1. TileAt(octant, iteration, 0) = At(0, 0)
    BY TileAtIs DEF FovInit
  <2> QED  BY <1>1, <1>3, <2>1 DEF FovInit, FovTypeOK, LineOK
<1>5. SeenOK
  <2>1. SeenPast({player}) /\ StraightClear({player})
    BY <1>1, OwnTile DEF FovTypeOK
  <2>2. SeenPast({}) /\ StraightClear({})
    BY DEF SeenPast, StraightClear
  <2>3. 0 \in Nat
    OBVIOUS
  <2> QED  BY <1>3, <2>1, <2>2, <2>3 DEF FovInit, SeenOK
<1>6. EdgeOK
  BY DEF FovInit, EdgeOK
<1> QED  BY <1>1, <1>4, <1>5, <1>6 DEF FovInv

\* The invariant holds of every state of every map.
THEOREM FovInvariant == FovSpec => []FovInv
<1>1. FovInit => FovInv
  BY FovStart
<1>2. FovInv /\ [FovNext]_fov_vars => FovInv'
  <2> SUFFICES ASSUME FovInv, [FovNext]_fov_vars PROVE FovInv'
    OBVIOUS
  <2>1. CASE Cell
    BY <2>1, CellStep
  <2>2. CASE EndLine
    BY <2>2, EndLineStep
  <2>3. CASE EndOctant
    BY <2>3, EndOctantStep
  <2>4. CASE UNCHANGED fov_vars
    <3>1. UNCHANGED <<opaque, player, light_walls, fov, quadrant, octant, iteration,
              processed_cell, min_angle, obstacles, obstacles_in_last_line, done, seen>>
      BY <2>4 DEF fov_vars
    <3>2. UNCHANGED <<fov_input, quadrant>>
      BY <3>1 DEF fov_input
    <3>3. FovTypeOK'
      BY <3>1 DEF FovInv, FovTypeOK
    <3>4. LineOK'
      BY <3>1, <3>2, SameView DEF FovInv, LineOK
    <3>5. SeenOK'
      BY <3>1, <3>2 DEF FovInv, SeenOK, SeenPast, StraightClear, Clear, At, dx, dy
    <3>6. EdgeOK'
      <4>1. \A c : TileAt(octant, iteration, c)' = TileAt(octant, iteration, c)
        BY <3>1, <3>2, SameView
      <4>2. \A c : Passable(c)' <=> Passable(c)
        <5>1. dx' = dx /\ dy' = dy
          BY <3>1 DEF dx, dy
        <5> QED  BY <3>1, <5>1 DEF Passable, TileAt
      <4>3. \A c : End(iteration, c)' = End(iteration, c)
        BY <3>1 DEF End
      <4> QED  BY <3>1, <4>1, <4>2, <4>3 DEF FovInv, EdgeOK
    <3> QED  BY <3>3, <3>4, <3>5, <3>6 DEF FovInv
  <2> QED  BY <2>1, <2>2, <2>3, <2>4 DEF FovNext, Cell
<1> QED  BY <1>1, <1>2, PTL DEF FovSpec

\* No wall is seen through, on no map, not while the view is computed either.
THEOREM NoWallSeenThrough == FovSpec => []WallsHide
<1>1. FovInv => WallsHide
  BY DEF FovInv, SeenOK, SeenPast, StraightClear, WallsHide, SeenThroughOpen, AxisBlocked
<1> QED  BY <1>1, FovInvariant, PTL

-----------------------------------------------------------------------------
(* What is seen with nothing in the way. *)

\* Nothing opaque is in the rectangle between the player and the cell of a line, but
\* perhaps the cell itself, which is lit then.
Unblocked(oct, line, cell) ==
  /\ line \in 1 .. fov_max_distance /\ cell \in 0 .. line
  /\ TileAt(oct, line, cell) \in Tiles
  /\ TileAt(oct, line, cell) \in opaque => light_walls
  /\ \A l \in 0 .. line, c \in 0 .. cell :
       TileAt(oct, l, c) \in opaque => l = line /\ c = cell

\* Such a cell is seen once it was looked at.
SeenSoFar ==
  \A l, c \in 0 .. 4 :
    Unblocked(octant, l, c) /\ (l < iteration \/ (l = iteration /\ c < processed_cell))
      => TileAt(octant, l, c) \in seen

\* It is still to be looked at.
ToCome(l, c) ==
  Unblocked(octant, l, c) /\ (l > iteration \/ (l = iteration /\ c >= processed_cell))

\* As long as there is one to come the edge of the view is where it began, and
\* every obstacle begins behind it.
EdgeStays == \A l, c \in 0 .. 4 : ToCome(l, c) => min_angle = 0

ShadowsBehind ==
  \A l, c \in 0 .. 4 : ToCome(l, c) =>
    \A i \in 1 .. (IF l = iteration THEN obstacles_in_last_line ELSE Len(obstacles)) :
      obstacles[i][1] > End(l, c)

\* The octant goes on as long as there is one in a later line.
GoesOn ==
  processed_cell >= 1 /\ (\E l, c \in 0 .. 4 : l > iteration /\ Unblocked(octant, l, c)) => ~done

FirstOctantSeen ==
  octant = "horizontal" =>
    \A l, c \in 0 .. 4 : Unblocked("vertical", l, c) => TileAt("vertical", l, c) \in seen

\* The tiles of a quadrant.
InQuadrant(q, t) ==
  /\ IF q <= 2 THEN t[1] >= player[1] ELSE t[1] <= player[1]
  /\ IF q % 2 = 1 THEN t[2] >= player[2] ELSE t[2] <= player[2]

\* OpenViewSeen, of one quadrant.
QuadrantSeen(q) ==
  \A t \in Tiles :
    InQuadrant(q, t) /\ Within(fov_max_distance, player, t) /\ (t \in opaque => light_walls)
      /\ Clear(t)
      => t \in fov

ViewInv == /\ SeenSoFar /\ EdgeStays /\ ShadowsBehind /\ GoesOn /\ FirstOctantSeen
           /\ \A q \in 1 .. 4 : q < quadrant => QuadrantSeen(q)

\* What is nearer than an unblocked cell is unblocked, and open.
LEMMA Nearer ==
  ASSUME FovTypeOK, NEW oct \in Octants, NEW l, NEW c, Unblocked(oct, l, c),
         NEW m \in 1 .. l, NEW d \in 0 .. c, d <= m
  PROVE  Unblocked(oct, m, d) /\ (m # l \/ d # c => TileAt(oct, m, d) \notin opaque)
<1>1. /\ l \in 1 .. fov_max_distance /\ c \in 0 .. l /\ TileAt(oct, l, c) \in Tiles
      /\ TileAt(oct, l, c) \in opaque => light_walls
      /\ \A k \in 0 .. l, e \in 0 .. c : TileAt(oct, k, e) \in opaque => k = l /\ e = c
  BY DEF Unblocked
<1>2. l \in Nat /\ c \in Nat /\ m \in 0 .. l /\ fov_max_distance \in Nat
  BY <1>1, SlopesExact
<1>3. TileAt(oct, m, d) \in Tiles
  BY <1>1, <1>2, CellBefore
<1>4. m \in 1 .. fov_max_distance /\ d \in 0 .. m
  BY <1>1, <1>2
<1>5. TileAt(oct, m, d) \in opaque => m = l /\ d = c
  BY <1>1, <1>2
<1>6. ASSUME NEW k \in 0 .. m, NEW e \in 0 .. d, TileAt(oct, k, e) \in opaque PROVE k = m /\ e = d
  <2>1. k \in 0 .. l /\ e \in 0 .. c
    BY <1>2
  <2>2. k = l /\ e = c
    BY <1>1, <1>6, <2>1
  <2> QED  BY <1>2, <2>2
<1> QED  BY <1>1, <1>3, <1>4, <1>5, <1>6 DEF Unblocked

\* An obstacle that begins beside a nearer line begins behind the cell.
LEMMA StartsAbove ==
  ASSUME NEW line \in 1 .. 4, NEW cell \in 0 .. line, NEW l \in 1 .. 4, NEW c \in 0 .. l,
         line < l, c < cell
  PROVE  Start(line, cell) > End(l, c) /\ Start(line, cell) > 0
<1>1. cell \in Int /\ c \in Int
  OBVIOUS
<1>2. PICK s \in Int : s = Start(line, cell)
  BY <1>1, Slopes
<1>3. PICK e \in Int : e = End(l, c)
  BY <1>1, Slopes
<1>4. line * s = 24 * (2 * cell - 1)
  BY <1>1, <1>2, Slopes
<1>5. /\ l = 3 /\ c = 2 => e = 39
      /\ ~(l = 3 /\ c = 2) => l * e = 24 * (2 * c + 1)
  BY <1>1, <1>3, Slopes
<1>6. CASE l = 2
  <2>1. line = 1
    BY <1>6
  <2> QED  BY <1>2, <1>3, <1>4, <1>5, <1>6, <2>1
<1>7. CASE l = 3
  <2>1. CASE line = 1
    BY <1>2, <1>3, <1>4, <1>5, <1>7, <2>1
  <2>2. CASE line = 2
    BY <1>2, <1>3, <1>4, <1>5, <1>7, <2>2
  <2> QED  BY <1>7, <2>1, <2>2
<1>8. CASE l = 4
  <2>1. CASE line = 1
    BY <1>2, <1>3, <1>4, <1>5, <1>8, <2>1
  <2>2. CASE line = 2
    BY <1>2, <1>3, <1>4, <1>5, <1>8, <2>2
  <2>3. CASE line = 3
    BY <1>2, <1>3, <1>4, <1>5, <1>8, <2>3
  <2> QED  BY <1>8, <2>1, <2>2, <2>3
<1> QED  BY <1>6, <1>7, <1>8

\* An unblocked cell that is looked at is hidden by no obstacle.
LEMMA NotHidden ==
  ASSUME FovInv, SeenSoFar, ShadowsBehind, Looking, Unblocked(octant, iteration, processed_cell)
  PROVE  Found = Unhidden
<1>1. /\ iteration \in 1 .. 4 /\ processed_cell \in 0 .. iteration
      /\ EndSlope = End(iteration, processed_cell)
      /\ /\ obstacles_in_last_line # 0 => Passable(processed_cell) \/ Passable(processed_cell - 1)
         /\ NothingBefore
         => Found = Unhidden
      /\ FovTypeOK /\ LineOK
  BY LookingAt DEF FovInv
<1>2. PICK L \in 1 .. 4, c \in 0 .. 4 : L = iteration /\ c = processed_cell /\ c <= L
  BY <1>1
<1>3. NothingBefore
  <2>1. ToCome(L, c)
    BY <1>2 DEF ToCome
  <2>2. \A i \in 1 .. obstacles_in_last_line : obstacles[i][1] > End(L, c)
    BY <1>2, <2>1 DEF ShadowsBehind
  <2> QED  BY <1>1, <1>2, <2>2 DEF NothingBefore
<1>4. ASSUME obstacles_in_last_line # 0
      PROVE  Passable(processed_cell) \/ Passable(processed_cell - 1)
  <2>1. L >= 2
    BY <1>1, <1>2, <1>4 DEF LineOK
  <2>2. PICK d \in {c, c - 1} : d \in 0 .. c /\ d <= L - 1
    <3>1. CASE c <= L - 1
      BY <3>1
    <3>2. CASE c = L
      BY <2>1, <3>2
    <3> QED  BY <1>2, <3>1, <3>2
  <2>3. L - 1 \in 1 .. L /\ L - 1 # L /\ L - 1 \in 0 .. 4 /\ d \in 0 .. 4 /\ L - 1 < L
    BY <2>1, <2>2
  <2>4. Unblocked(octant, L - 1, d) /\ TileAt(octant, L - 1, d) \notin opaque
    BY <1>1, <1>2, <2>2, <2>3, Nearer DEF FovTypeOK
  <2>5. TileAt(octant, L - 1, d) \in seen
    BY <1>2, <2>3, <2>4 DEF SeenSoFar
  <2> QED  BY <1>2, <2>2, <2>4, <2>5 DEF Passable
<1> QED  BY <1>1, <1>3, <1>4

\* Where an obstacle begins after a cell.
LEMMA CellObstacles ==
  ASSUME FovInv, Cell, NEW i \in 1 .. Len(obstacles')
  PROVE  \/ i \in 1 .. Len(obstacles) /\ obstacles'[i][1] = obstacles[i][1]
         \/ i \in 1 .. Len(obstacles) /\ obstacles'[i][1] = StartSlope /\ Found # Unhidden
         \/ i \notin 1 .. Len(obstacles) /\ obstacles'[i][1] = StartSlope /\ IsOpaque
<1>1. /\ Narrowed(Found) /\ StartSlope \in Int /\ EndSlope \in Int /\ FovTypeOK
      /\ Looking
  <2>1. Looking /\ FovTypeOK /\ LineOK
    BY CellEffect DEF FovInv
  <2> QED  BY <2>1, LookingAt
<1>2. /\ Found.obstacles \in Shadows /\ Len(Found.obstacles) = Len(obstacles)
      /\ obstacles \in Shadows /\ Len(obstacles) \in Nat
  BY <1>1 DEF Narrowed, FovTypeOK, Shadows
<1>3. \/ obstacles' = Found.obstacles
      \/ IsOpaque /\ obstacles' = Append(Found.obstacles, <<StartSlope, EndSlope>>)
  BY DEF Cell, Hidden, SeeOpen, SeeOpaque
<1>4. ASSUME NEW k \in 1 .. Len(obstacles)
      PROVE  \/ Found.obstacles[k][1] = obstacles[k][1]
             \/ Found.obstacles[k][1] = StartSlope /\ Found # Unhidden
  <2>1. Found.obstacles[k][1] \in {obstacles[k][1], StartSlope}
    BY <1>1 DEF Narrowed
  <2>2. Found = Unhidden => Found.obstacles[k][1] = obstacles[k][1]
    <3>1. Unhidden.obstacles = obstacles
      BY DEF Unhidden
    <3> QED  BY <3>1
  <2> QED  BY <2>1, <2>2
<1>5. CASE obstacles' = Found.obstacles
  <2>1. i \in 1 .. Len(obstacles)
    BY <1>2, <1>5
  <2> QED  BY <1>4, <1>5, <2>1
<1>6. CASE IsOpaque /\ obstacles' = Append(Found.obstacles, <<StartSlope, EndSlope>>)
  <2>1. <<StartSlope, EndSlope>> \in Int \X Int
    BY <1>1
  <2>2. PICK o, n, p : o = Found.obstacles /\ n = Len(obstacles) /\ p = <<StartSlope, EndSlope>>
    OBVIOUS
  <2>3. o \in Seq(Int \X Int) /\ p \in Int \X Int /\ Len(o) = n /\ n \in Nat /\ obstacles' = Append(o, p)
    BY <1>2, <1>6, <2>1, <2>2 DEF Shadows
  <2>4. Len(Append(o, p)) = n + 1 /\ i \in 1 .. n + 1
    BY <2>3
  <2>5. CASE i \in 1 .. n
    <3>1. Append(o, p)[i] = o[i]
      BY <2>3, <2>5
    <3> QED  BY <1>4, <2>2, <2>3, <2>5, <3>1
  <2>6. CASE i = n + 1
    <3>1. Append(o, p)[i] = p
      BY <2>3, <2>6
    <3>2. i \notin 1 .. n
      BY <2>3, <2>6
    <3>3. p[1] = StartSlope
      BY <2>2
    <3> QED  BY <1>6, <2>2, <2>3, <3>1, <3>2, <3>3
  <2> QED  BY <2>3, <2>4, <2>5, <2>6
<1> QED  BY <1>3, <1>5, <1>6

\* As long as an unblocked cell is to come beyond it, a cell looked at leaves the edge
\* of the view, and no obstacle comes to begin before that cell ends.
LEMMA CellLeaves ==
  ASSUME FovInv, ViewInv, Cell, NEW l \in 0 .. 4, NEW c \in 0 .. 4, Unblocked(octant, l, c),
         l > iteration \/ (l = iteration /\ c > processed_cell)
  PROVE  /\ min_angle' = 0
         /\ processed_cell = 0 => ~done'
         /\ processed_cell >= 1 /\ ~done => ~done'
         /\ \A i \in 1 .. (IF l = iteration THEN obstacles_in_last_line ELSE Len(obstacles')) :
              obstacles'[i][1] > End(l, c)
<1>1. FovTypeOK /\ LineOK /\ SeenSoFar /\ EdgeStays /\ ShadowsBehind /\ Looking
  BY CellEffect DEF FovInv, ViewInv
<1>2. /\ iteration \in 1 .. 4 /\ processed_cell \in 0 .. iteration
      /\ StartSlope = Start(iteration, processed_cell) /\ StartSlope \in Int
      /\ Tile = TileAt(octant, iteration, processed_cell)
  BY <1>1, LookingAt
<1>3. PICK L \in 1 .. 4, k \in 0 .. 4 : L = iteration /\ k = processed_cell /\ k <= L
  BY <1>2
<1>4. l \in 1 .. 4 /\ c \in 0 .. l
  BY <1>3 DEF Unblocked
<1>5. ToCome(l, c)
  BY <1>3 DEF ToCome
<1>6. min_angle = 0
  BY <1>1, <1>5 DEF EdgeStays
<1>7. \/ k <= c /\ Found = Unhidden /\ ~IsOpaque
      \/ l > L /\ c < k /\ StartSlope > End(l, c) /\ StartSlope > 0
  <2>1. CASE k <= c
    <3>1. L \in 1 .. l /\ k \in 0 .. c /\ (L # l \/ k # c)
      BY <1>3, <1>4, <2>1
    <3>2. Unblocked(octant, L, k) /\ TileAt(octant, L, k) \notin opaque
      BY <1>1, <1>3, <3>1, Nearer DEF FovTypeOK
    <3>3. Found = Unhidden
      BY <1>1, <1>3, <3>2, NotHidden
    <3> QED  BY <1>2, <1>3, <2>1, <3>2, <3>3 DEF IsOpaque
  <2>2. CASE c < k
    <3>1. l > L
      BY <1>3, <2>2
    <3>2. k \in 0 .. L
      BY <1>3
    <3>3. Start(L, k) > End(l, c) /\ Start(L, k) > 0
      BY <1>4, <2>2, <3>1, <3>2, StartsAbove
    <3> QED  BY <1>2, <1>3, <2>2, <3>1, <3>3
  <2> QED  BY <2>1, <2>2
<1>8. ~(IsOpaque /\ min_angle >= StartSlope)
  BY <1>2, <1>6, <1>7
<1>9. min_angle' = 0
  BY <1>6, <1>8 DEF Cell, Hidden, SeeOpen, SeeOpaque
<1>10. processed_cell >= 1 /\ ~done => ~done'
  BY <1>8 DEF Cell, Hidden, SeeOpen, SeeOpaque
<1>11. ASSUME processed_cell = 0 PROVE ~done'
  <2>1. Found = Unhidden /\ ~IsOpaque
    BY <1>3, <1>7, <1>11
  <2>2. Found.visible
    BY <2>1 DEF Unhidden
  <2> QED  BY <2>1, <2>2 DEF Cell, Hidden, SeeOpen, SeeOpaque
<1>12. ASSUME NEW i \in 1 .. (IF l = iteration THEN obstacles_in_last_line ELSE Len(obstacles'))
       PROVE  obstacles'[i][1] > End(l, c)
  <2>1. PICK n \in Nat, h \in Nat : n = Len(obstacles) /\ h = obstacles_in_last_line /\ h <= n
    BY <1>1 DEF FovTypeOK, Shadows
  <2>2. PICK g : g = Len(obstacles')
    OBVIOUS
  <2>3. g \in Nat /\ g >= n
    <3>1. obstacles' \in Shadows /\ Len(obstacles') >= Len(obstacles)
      BY <1>1, CellEffect
    <3>2. Len(obstacles') \in Nat
      BY <3>1 DEF Shadows
    <3> QED  BY <2>1, <2>2, <3>1, <3>2
  <2>4. i \in 1 .. g
    <3>1. l = iteration => i \in 1 .. h
      BY <1>12, <2>1
    <3>2. l # iteration => i \in 1 .. g
      BY <1>12, <2>2
    <3> QED  BY <2>1, <2>3, <3>1, <3>2
  <2>5. i \in 1 .. n => obstacles[i][1] > End(l, c)
    <3> SUFFICES ASSUME i \in 1 .. n PROVE obstacles[i][1] > End(l, c)
      OBVIOUS
    <3>1. i \in 1 .. (IF l = iteration THEN obstacles_in_last_line ELSE Len(obstacles))
      BY <1>12, <2>1
    <3> QED  BY <1>1, <1>5, <3>1 DEF ShadowsBehind
  <2>6. i \in 1 .. n \/ l > L
    <3>1. CASE l = L
      BY <1>3, <1>12, <2>1, <3>1
    <3> QED  BY <1>3, <3>1
  <2>7. CASE i \in 1 .. Len(obstacles) /\ obstacles'[i][1] = obstacles[i][1]
    BY <2>1, <2>5, <2>7
  <2>8. CASE i \in 1 .. Len(obstacles) /\ obstacles'[i][1] = StartSlope /\ Found # Unhidden
    BY <1>7, <2>8
  <2>9. CASE i \notin 1 .. Len(obstacles) /\ obstacles'[i][1] = StartSlope /\ IsOpaque
    BY <1>7, <2>9
  <2> QED  BY <2>2, <2>4, <2>7, <2>8, <2>9, CellObstacles
<1> QED  BY <1>9, <1>10, <1>11, <1>12

\* What is in the way does not depend on the progress in a quadrant.
LEMMA SameWay ==
  ASSUME UNCHANGED <<fov_input, quadrant>>
  PROVE  /\ \A o, l, c : Unblocked(o, l, c)' <=> Unblocked(o, l, c)
         /\ fov' = fov => \A q : QuadrantSeen(q)' <=> QuadrantSeen(q)
<1>1. player' = player /\ opaque' = opaque /\ light_walls' = light_walls
  BY DEF fov_input
<1>2. /\ \A o, l, c : TileAt(o, l, c)' = TileAt(o, l, c)
      /\ \A t : Clear(t)' <=> Clear(t)
  BY SameView
<1>3. \A o, l, c : Unblocked(o, l, c)' <=> Unblocked(o, l, c)
  BY <1>1, <1>2 DEF Unblocked
<1>4. ASSUME fov' = fov, NEW q PROVE QuadrantSeen(q)' <=> QuadrantSeen(q)
  BY <1>1, <1>2, <1>4 DEF QuadrantSeen, InQuadrant
<1> QED  BY <1>3, <1>4

\* The unblocked cells of either octant that were seen stay seen.
LEMMA StaySeen ==
  ASSUME FovInv, Cell, NEW o, NEW l, NEW c, Unblocked(o, l, c), TileAt(o, l, c) \in seen
  PROVE  TileAt(o, l, c) \in seen'
<1>1. seen' = seen \/ seen' = seen \cup {Tile} \/ (~light_walls /\ IsOpaque /\ seen' = seen \ {Tile})
  BY CellEffect DEF FovInv
<1>2. TileAt(o, l, c) \in opaque => light_walls
  BY DEF Unblocked
<1> QED  BY <1>1, <1>2 DEF IsOpaque

\* A cell keeps what is seen.
LEMMA ViewCell == FovInv /\ ViewInv /\ Cell => ViewInv'
<1> SUFFICES ASSUME FovInv, ViewInv, Cell PROVE ViewInv'
  OBVIOUS
<1>1. /\ FovTypeOK /\ LineOK /\ SeenSoFar /\ EdgeStays /\ ShadowsBehind /\ GoesOn
      /\ FirstOctantSeen /\ \A q \in 1 .. 4 : q < quadrant => QuadrantSeen(q)
  BY DEF FovInv, ViewInv
<1>2. /\ Looking
      /\ processed_cell' = processed_cell + 1
      /\ obstacles_in_last_line' = obstacles_in_last_line
      /\ UNCHANGED <<fov_input, fov, quadrant, octant, iteration>>
      /\ seen' = seen \/ seen' = seen \cup {Tile} \/ (~light_walls /\ IsOpaque /\ seen' = seen \ {Tile})
  BY <1>1, CellEffect
<1>3. /\ iteration \in 1 .. 4 /\ processed_cell \in 0 .. iteration
      /\ Tile = TileAt(octant, iteration, processed_cell)
  BY <1>1, <1>2, LookingAt
<1>4. PICK oct, L, k : oct = octant /\ L = iteration /\ k = processed_cell
  OBVIOUS
<1>5. oct = octant' /\ L = iteration' /\ k + 1 = processed_cell' /\ L \in 1 .. 4 /\ k \in 0 .. L
      /\ oct \in Octants
  BY <1>1, <1>2, <1>3, <1>4 DEF FovTypeOK
<1>6. /\ \A o, l, c : TileAt(o, l, c)' = TileAt(o, l, c)
      /\ \A o, l, c : Unblocked(o, l, c)' <=> Unblocked(o, l, c)
      /\ \A q : QuadrantSeen(q)' <=> QuadrantSeen(q)
  BY <1>2, SameView, SameWay
<1>7. \A l, c : TileAt(octant, l, c)' = TileAt(oct, l, c) /\ (Unblocked(octant, l, c)' <=> Unblocked(oct, l, c))
  BY <1>5, <1>6
<1>8. \A l, c \in 0 .. 4 : ToCome(l, c)' => Unblocked(octant, l, c) /\ (l > L \/ (l = L /\ c > k))
  BY <1>4, <1>5, <1>7 DEF ToCome
<1>9. SeenSoFar'
  <2>1. ASSUME NEW l \in 0 .. 4, NEW c \in 0 .. 4, Unblocked(oct, l, c),
               l < L \/ (l = L /\ c < k + 1)
        PROVE  TileAt(oct, l, c) \in seen'
    <3>1. CASE l < L \/ (l = L /\ c < k)
      <4>1. TileAt(octant, l, c) \in seen
        BY <1>1, <1>4, <2>1, <3>1 DEF SeenSoFar
      <4> QED  BY <1>4, <2>1, <4>1, StaySeen
    <3>2. CASE l = L /\ c = k
      <4>1. Found = Unhidden
        BY <1>1, <1>2, <1>4, <2>1, <3>2, NotHidden
      <4>2. Found.visible
        BY <4>1 DEF Unhidden
      <4>3. IsOpaque => light_walls
        BY <1>3, <1>4, <2>1, <3>2 DEF Unblocked, IsOpaque
      <4>4. seen' = seen \cup {Tile}
        BY <4>2, <4>3 DEF Cell, Hidden, SeeOpen, SeeOpaque
      <4> QED  BY <1>3, <1>4, <3>2, <4>4
    <3> QED  BY <1>5, <2>1, <3>1, <3>2
  <2> QED  BY <1>5, <1>7, <2>1 DEF SeenSoFar
<1>10. EdgeStays'
  <2>1. ASSUME NEW l \in 0 .. 4, NEW c \in 0 .. 4, ToCome(l, c)' PROVE min_angle' = 0
    BY <1>4, <1>8, <2>1, CellLeaves
  <2> QED  BY <2>1 DEF EdgeStays
<1>11. ShadowsBehind'
  <2>1. ASSUME NEW l \in 0 .. 4, NEW c \in 0 .. 4, ToCome(l, c)',
               NEW i \in 1 .. (IF l = L THEN obstacles_in_last_line ELSE Len(obstacles'))
        PROVE  obstacles'[i][1] > End(l, c)
    BY <1>4, <1>8, <2>1, CellLeaves
  <2>2. PICK h : h = obstacles_in_last_line
    OBVIOUS
  <2>3. h = obstacles_in_last_line'
    BY <1>2, <2>2
  <2> QED  BY <1>5, <2>1, <2>2, <2>3 DEF ShadowsBehind
<1>12. GoesOn'
  <2>1. ASSUME NEW l \in 0 .. 4, NEW c \in 0 .. 4, l > L, Unblocked(octant, l, c) PROVE ~done'
    <3>1. processed_cell = 0 \/ processed_cell >= 1
      BY <1>3
    <3>2. processed_cell >= 1 => ~done
      BY <1>1, <1>4, <2>1 DEF GoesOn
    <3>3. l > iteration
      BY <1>4, <2>1
    <3> QED  BY <2>1, <3>1, <3>2, <3>3, CellLeaves
  <2> QED  BY <1>4, <1>5, <1>7, <2>1 DEF GoesOn
<1>13. FirstOctantSeen'
  <2>1. ASSUME oct = "horizontal", NEW l \in 0 .. 4, NEW c \in 0 .. 4, Unblocked("vertical", l, c)
        PROVE  TileAt("vertical", l, c) \in seen'
    <3>1. TileAt("vertical", l, c) \in seen
      BY <1>1, <1>4, <2>1 DEF FirstOctantSeen
    <3> QED  BY <2>1, <3>1, StaySeen
  <2> QED  BY <1>5, <1>6, <2>1 DEF FirstOctantSeen
<1>14. \A q \in 1 .. 4 : q < quadrant' => QuadrantSeen(q)'
  BY <1>1, <1>2, <1>6
<1> QED  BY <1>9, <1>10, <1>11, <1>12, <1>13, <1>14 DEF ViewInv

\* The end of a line keeps what is seen.
LEMMA ViewEndLine == FovInv /\ ViewInv /\ EndLine => ViewInv'
<1> SUFFICES ASSUME FovInv, ViewInv, EndLine PROVE ViewInv'
  OBVIOUS
<1>1. /\ FovTypeOK /\ LineOK /\ SeenSoFar /\ EdgeStays /\ ShadowsBehind /\ GoesOn
      /\ FirstOctantSeen /\ \A q \in 1 .. 4 : q < quadrant => QuadrantSeen(q)
  BY DEF FovInv, ViewInv
<1>2. /\ LineOver /\ ~NoMoreLines
      /\ iteration' = iteration + 1
      /\ processed_cell' = FirstCell(iteration + 1)
      /\ obstacles_in_last_line' = Len(obstacles)
      /\ UNCHANGED <<fov_input, fov, quadrant, octant, min_angle, obstacles, seen>>
  BY DEF EndLine
<1>0. PICK f : f = FirstCell(iteration + 1)
  OBVIOUS
<1>3. PICK L \in 0 .. 3, oct \in Octants : L = iteration /\ oct = octant /\ f = FirstCell(iteration + 1)
  BY <1>0, <1>1, <1>2, SlopesExact DEF NoMoreLines, FovTypeOK
<1>4. oct = octant' /\ L + 1 = iteration' /\ f = processed_cell'
  BY <1>2, <1>3
<1>5. min_angle = 0 => f = 0
  <2>1. L + 1 \in 1 .. 4
    OBVIOUS
  <2>2. CASE L + 1 = 1
    BY <1>3, <2>2 DEF FirstCell
  <2>3. CASE L + 1 = 2
    BY <1>3, <2>3 DEF FirstCell
  <2>4. CASE L + 1 = 3
    BY <1>3, <2>4 DEF FirstCell
  <2>5. CASE L + 1 = 4
    BY <1>3, <2>5 DEF FirstCell
  <2> QED  BY <2>1, <2>2, <2>3, <2>4, <2>5
<1>6. /\ \A o, l, c : TileAt(o, l, c)' = TileAt(o, l, c)
      /\ \A o, l, c : Unblocked(o, l, c)' <=> Unblocked(o, l, c)
      /\ \A q : QuadrantSeen(q)' <=> QuadrantSeen(q)
  BY <1>2, SameView, SameWay
<1>7. \A l, c : TileAt(octant, l, c)' = TileAt(oct, l, c) /\ (Unblocked(octant, l, c)' <=> Unblocked(oct, l, c))
  BY <1>4, <1>6
<1>8. \A l, c \in 0 .. 4 : l > L /\ Unblocked(oct, l, c) => ToCome(l, c) /\ f = 0
  <2> TAKE l, c \in 0 .. 4
  <2> HAVE l > L /\ Unblocked(oct, l, c)
  <2>1. ToCome(l, c)
    BY <1>3 DEF ToCome
  <2> QED  BY <1>1, <1>5, <2>1 DEF EdgeStays
<1>9. \A l, c \in 0 .. 4 : ToCome(l, c)' => l > L /\ Unblocked(oct, l, c)
  BY <1>4, <1>7 DEF ToCome
<1>10. SeenSoFar'
  <2>1. ASSUME NEW l \in 0 .. 4, NEW c \in 0 .. 4, Unblocked(oct, l, c),
               l < L + 1 \/ (l = L + 1 /\ c < f)
        PROVE  TileAt(oct, l, c) \in seen
    <3>1. CASE l <= L
      <4>1. TileAt(oct, l, c) \in Tiles /\ c \in 0 .. l
        BY <2>1 DEF Unblocked
      <4>2. l = L => c < processed_cell
        <5> SUFFICES ASSUME l = L PROVE c < processed_cell
          OBVIOUS
        <5>1. c \in 0 .. iteration /\ TileAt(octant, iteration, c) \in Tiles
          BY <1>3, <4>1
        <5> QED  BY <1>1, <1>2, <5>1, LineLookedAt
      <4> QED  BY <1>1, <1>3, <2>1, <3>1, <4>2 DEF SeenSoFar
    <3>2. CASE l > L
      BY <1>8, <2>1, <3>2
    <3> QED  BY <3>1, <3>2
  <2> QED  BY <1>2, <1>4, <1>7, <2>1 DEF SeenSoFar
<1>11. EdgeStays'
  <2>1. ASSUME NEW l \in 0 .. 4, NEW c \in 0 .. 4, ToCome(l, c)' PROVE min_angle' = 0
    BY <1>1, <1>2, <1>8, <1>9, <2>1 DEF EdgeStays
  <2> QED  BY <2>1 DEF EdgeStays
<1>12. ShadowsBehind'
  <2>1. PICK n, o : n = Len(obstacles) /\ o = obstacles
    OBVIOUS
  <2>2. n = obstacles_in_last_line' /\ o = obstacles' /\ n = Len(o)
    BY <1>2, <2>1
  <2>3. ASSUME NEW l \in 0 .. 4, NEW c \in 0 .. 4, ToCome(l, c)', NEW i \in 1 .. n
        PROVE  o[i][1] > End(l, c)
    <3>1. l > L /\ ToCome(l, c)
      BY <1>8, <1>9, <2>3
    <3>2. i \in 1 .. (IF l = iteration THEN obstacles_in_last_line ELSE Len(obstacles))
      BY <1>3, <2>1, <3>1
    <3> QED  BY <1>1, <2>1, <3>1, <3>2 DEF ShadowsBehind
  <2>4. \A l, c \in 0 .. 4 : ToCome(l, c)' =>
          \A i \in 1 .. (IF l = iteration' THEN obstacles_in_last_line' ELSE Len(obstacles')) :
            obstacles'[i][1] > End(l, c)
    BY <2>2, <2>3
  <2> QED  BY <2>4 DEF ShadowsBehind
<1>13. GoesOn'
  <2>1. ASSUME NEW l \in 0 .. 4, NEW c \in 0 .. 4, l > L + 1, Unblocked(oct, l, c) PROVE ~(f >= 1)
    BY <1>8, <2>1
  <2> QED  BY <1>4, <1>7, <2>1 DEF GoesOn
<1>14. FirstOctantSeen'
  BY <1>1, <1>2, <1>6 DEF FirstOctantSeen
<1>15. \A q \in 1 .. 4 : q < quadrant' => QuadrantSeen(q)'
  BY <1>1, <1>2, <1>6
<1> QED  BY <1>10, <1>11, <1>12, <1>13, <1>14, <1>15 DEF ViewInv

\* All unblocked cells of an octant are seen at its end.
LEMMA OctantSeen ==
  ASSUME FovInv, ViewInv, LineOver, NoMoreLines, NEW l \in 0 .. 4, NEW c \in 0 .. 4,
         Unblocked(octant, l, c)
  PROVE  TileAt(octant, l, c) \in seen
<1>1. FovTypeOK /\ LineOK /\ SeenSoFar /\ GoesOn
  BY DEF FovInv, ViewInv
<1>2. PICK L \in 0 .. 4, oct \in Octants : L = iteration /\ oct = octant /\ L <= fov_max_distance
  BY <1>1, SlopesExact DEF FovTypeOK
<1>3. TileAt(oct, l, c) \in Tiles /\ c \in 0 .. l /\ l \in 1 .. fov_max_distance
  BY <1>2 DEF Unblocked
<1>4. ~(l > L)
  <2> SUFFICES ASSUME l > L PROVE FALSE
    OBVIOUS
  <2>1. processed_cell >= 1
    <3>1. 0 \in 0 .. iteration /\ TileAt(octant, iteration, 0) \in Tiles
      BY <1>1, <1>2 DEF LineOK
    <3>2. 0 < processed_cell
      BY <1>1, <3>1, LineLookedAt
    <3> QED  BY <1>1, <3>2 DEF FovTypeOK
  <2>2. ~done
    BY <1>1, <1>2, <2>1 DEF GoesOn
  <2>3. iteration # fov_max_distance
    BY <1>2, <1>3, SlopesExact
  <2>4. TileAt(octant, iteration + 1, 0) \in Tiles
    <3>1. l \in Nat /\ c \in Nat /\ L + 1 \in 0 .. l /\ 0 \in 0 .. c
      OBVIOUS
    <3>2. TileAt(oct, L + 1, 0) \in Tiles
      BY <1>1, <1>3, <3>1, CellBefore
    <3> QED  BY <1>2, <3>2
  <2> QED  BY <2>2, <2>3, <2>4 DEF NoMoreLines
<1>5. CASE l < L
  BY <1>1, <1>2, <1>5 DEF SeenSoFar
<1>6. CASE l = L
  <2>1. c < processed_cell
    BY <1>1, <1>2, <1>3, <1>6, LineLookedAt
  <2> QED  BY <1>1, <1>2, <1>6, <2>1 DEF SeenSoFar
<1> QED  BY <1>2, <1>4, <1>5, <1>6

\* A tile of the quadrant with nothing in the way is an unblocked cell of an octant.
LEMMA ClearIsUnblocked ==
  ASSUME FovTypeOK, quadrant \in 1 .. 4, NEW t \in Tiles, InQuadrant(quadrant, t), t # player,
         Within(fov_max_distance, player, t), t \in opaque => light_walls, Clear(t)
  PROVE  \E oct \in Octants, l, c \in 0 .. 4 : Unblocked(oct, l, c) /\ t = TileAt(oct, l, c)
<1>1. Quadrant
  BY QuadrantOK
<1>2. PICK a \in Int, b \in Int : t = At(a, b)
  BY <1>1, AtAll
<1>3. a \in Nat /\ b \in Nat
  <2>1. player[1] \in Int /\ player[2] \in Int
    BY <1>1 DEF Quadrant, Tiles
  <2>2. t[1] = player[1] + a * dx /\ t[2] = player[2] + b * dy
    BY <1>2 DEF At, Along
  <2>3. a >= 0
    <3>1. CASE quadrant <= 2
      BY <2>1, <2>2, <3>1 DEF InQuadrant, dx
    <3>2. CASE ~(quadrant <= 2)
      BY <2>1, <2>2, <3>2 DEF InQuadrant, dx
    <3> QED  BY <3>1, <3>2
  <2>4. b >= 0
    <3>1. CASE quadrant % 2 = 1
      BY <2>1, <2>2, <3>1 DEF InQuadrant, dy
    <3>2. CASE ~(quadrant % 2 = 1)
      BY <2>1, <2>2, <3>2 DEF InQuadrant, dy
    <3> QED  BY <3>1, <3>2
  <2> QED  BY <2>3, <2>4
<1>4. a <= fov_max_distance /\ b <= fov_max_distance /\ fov_max_distance \in 1 .. 4
  BY <1>1, <1>2, <1>3, AtSteps, SlopesExact
<1>5. ~(a = 0 /\ b = 0)
  BY <1>1, <1>2, AtOrigin
<1>6. ASSUME NEW i \in 0 .. a, NEW j \in 0 .. b, At(i, j) \in opaque PROVE i = a /\ j = b
  <2>1. PICK o : o = At(i, j)
    OBVIOUS
  <2>2. i \in Int /\ j \in Int
    OBVIOUS
  <2>3. Between(player[1], o[1], t[1]) /\ Between(player[2], o[2], t[2])
    BY <1>1, <1>2, <1>3, <2>1, <2>2, AtBetween
  <2>4. o = t
    BY <1>6, <2>1, <2>3 DEF Clear
  <2>5. At(a, b) = At(i, j)
    BY <1>2, <2>1, <2>4
  <2>6. a = i /\ b = j
    BY <1>1, <1>3, <2>2, <2>5, AtSame
  <2> QED  BY <2>6
<1>7. CASE a <= b
  <2>1. b \in 1 .. fov_max_distance /\ a \in 0 .. b /\ b \in 0 .. 4 /\ a \in 0 .. 4
    BY <1>3, <1>4, <1>5, <1>7
  <2>2. \A l, c : TileAt("vertical", l, c) = At(c, l)
    BY TileAtIs
  <2>3. \A l \in 0 .. b, c \in 0 .. a : TileAt("vertical", l, c) \in opaque => l = b /\ c = a
    BY <1>6, <2>2
  <2>4. Unblocked("vertical", b, a)
    BY <1>2, <2>1, <2>2, <2>3 DEF Unblocked
  <2> QED  BY <1>2, <2>1, <2>2, <2>4 DEF Octants
<1>8. CASE b < a
  <2>1. a \in 1 .. fov_max_distance /\ b \in 0 .. a /\ b \in 0 .. 4 /\ a \in 0 .. 4
    BY <1>3, <1>4, <1>5, <1>8
  <2>2. \A l, c : TileAt("horizontal", l, c) = At(l, c)
    BY TileAtIs
  <2>3. \A l \in 0 .. a, c \in 0 .. b : TileAt("horizontal", l, c) \in opaque => l = a /\ c = b
    BY <1>6, <2>2
  <2>4. Unblocked("horizontal", a, b)
    BY <1>2, <2>1, <2>2, <2>3 DEF Unblocked
  <2> QED  BY <1>2, <2>1, <2>2, <2>4 DEF Octants
<1> QED  BY <1>3, <1>7, <1>8

\* The end of an octant keeps what is seen.
LEMMA ViewEndOctant == FovInv /\ ViewInv /\ EndOctant => ViewInv'
<1> SUFFICES ASSUME FovInv, ViewInv, EndOctant PROVE ViewInv'
  OBVIOUS
<1>1. /\ FovTypeOK /\ LineOK /\ SeenOK
      /\ FirstOctantSeen /\ \A q \in 1 .. 4 : q < quadrant => QuadrantSeen(q)
  BY DEF FovInv, ViewInv
<1>2. /\ ~Returned /\ NextOctant /\ LineOver /\ NoMoreLines
      /\ iteration' = 0 /\ processed_cell' = 1 /\ min_angle' = 0
      /\ obstacles' = <<>> /\ obstacles_in_last_line' = 0 /\ done' = FALSE
      /\ UNCHANGED fov_input
  BY DEF EndOctant
<1>3. player' = player /\ opaque' = opaque /\ light_walls' = light_walls
  BY <1>2 DEF fov_input
<1>4. quadrant \in 1 .. 4
  BY <1>1, <1>2 DEF FovTypeOK, Returned
<1>5. SeenSoFar'
  <2>1. \A l \in 0 .. 4 : Unblocked(octant, l, 0)' => l # 0
    BY DEF Unblocked
  <2>2. ASSUME NEW l \in 0 .. 4, NEW c, Unblocked(octant, l, c)' PROVE l # 0 /\ l \in Nat
    BY <2>2 DEF Unblocked
  <2> QED  BY <1>2, <2>2 DEF SeenSoFar
<1>6. EdgeStays'
  BY <1>2 DEF EdgeStays
<1>7. ShadowsBehind'
  <2>1. PICK o : o = <<>>
    OBVIOUS
  <2>2. Len(o) = 0 /\ \A l : (IF l = iteration' THEN 0 ELSE Len(o)) = 0
    BY <2>1
  <2>3. o = obstacles' /\ obstacles_in_last_line' = 0
    BY <1>2, <2>1
  <2>4. \A l : (IF l = iteration' THEN obstacles_in_last_line' ELSE Len(obstacles')) = 0
    BY <2>2, <2>3
  <2>5. \A l, i : i \notin 1 .. (IF l = iteration' THEN obstacles_in_last_line' ELSE Len(obstacles'))
    BY <2>4
  <2> QED  BY <2>5 DEF ShadowsBehind
<1>8. GoesOn'
  BY <1>2 DEF GoesOn
<1>9. CASE octant = "vertical"
  <2>1. octant' = "horizontal" /\ UNCHANGED <<fov, quadrant, seen>>
    BY <1>2, <1>9 DEF NextOctant
  <2>2. /\ \A o, l, c : TileAt(o, l, c)' = TileAt(o, l, c)
        /\ \A o, l, c : Unblocked(o, l, c)' <=> Unblocked(o, l, c)
        /\ \A q : QuadrantSeen(q)' <=> QuadrantSeen(q)
    BY <1>2, <2>1, SameView, SameWay
  <2>3. \A l, c \in 0 .. 4 : Unblocked("vertical", l, c) => TileAt("vertical", l, c) \in seen
    BY <1>2, <1>9, OctantSeen
  <2>4. FirstOctantSeen'
    BY <2>1, <2>2, <2>3 DEF FirstOctantSeen
  <2>5. \A q \in 1 .. 4 : q < quadrant' => QuadrantSeen(q)'
    BY <1>1, <2>1, <2>2
  <2> QED  BY <1>5, <1>6, <1>7, <1>8, <2>4, <2>5 DEF ViewInv
<1>10. CASE octant = "horizontal"
  <2>1. octant' = "vertical" /\ quadrant' = quadrant + 1 /\ fov' = fov \cup seen
    BY <1>2, <1>10 DEF NextOctant
  <2>2. FirstOctantSeen'
    BY <2>1 DEF FirstOctantSeen
  <2>3. \A o \in Octants, l, c \in 0 .. 4 : Unblocked(o, l, c) => TileAt(o, l, c) \in seen
    <3>1. \A l, c \in 0 .. 4 : Unblocked("horizontal", l, c) => TileAt("horizontal", l, c) \in seen
      BY <1>2, <1>10, OctantSeen
    <3>2. \A l, c \in 0 .. 4 : Unblocked("vertical", l, c) => TileAt("vertical", l, c) \in seen
      BY <1>1, <1>10 DEF FirstOctantSeen
    <3> QED  BY <3>1, <3>2 DEF Octants
  <2>4. ASSUME NEW q \in 1 .. 4, q < quadrant + 1, NEW t \in Tiles, InQuadrant(q, t),
               Within(fov_max_distance, player, t), t \in opaque => light_walls, Clear(t)
        PROVE  t \in fov \cup seen
    <3>1. CASE q < quadrant
      BY <1>1, <2>4, <3>1 DEF QuadrantSeen
    <3>2. CASE q = quadrant /\ t = player
      BY <1>1, <3>2 DEF SeenOK
    <3>3. CASE q = quadrant /\ t # player
      BY <1>1, <1>4, <2>3, <2>4, <3>3, ClearIsUnblocked
    <3> QED  BY <1>4, <2>4, <3>1, <3>2, <3>3
  <2>5. \A q \in 1 .. 4 : q < quadrant' => QuadrantSeen(q)'
    <3>1. \A t : Clear(t)' <=> Clear(t)
      BY <1>3 DEF Clear
    <3>2. \A q, t : InQuadrant(q, t)' <=> InQuadrant(q, t)
      BY <1>3 DEF InQuadrant
    <3> QED  BY <1>3, <2>1, <2>4, <3>1, <3>2 DEF QuadrantSeen
  <2> QED  BY <1>5, <1>6, <1>7, <1>8, <2>2, <2>5 DEF ViewInv
<1> QED  BY <1>1, <1>9, <1>10 DEF FovTypeOK, Octants

\* At the beginning nothing was looked at.
LEMMA ViewStart == FovInit => ViewInv
<1> SUFFICES ASSUME FovInit PROVE ViewInv
  OBVIOUS
<1>1. /\ quadrant = 1 /\ octant = "vertical" /\ iteration = 0 /\ min_angle = 0
      /\ obstacles = <<>> /\ obstacles_in_last_line = 0 /\ done = FALSE
  BY DEF FovInit
<1>2. SeenSoFar
  <2>1. ASSUME NEW l \in 0 .. 4, NEW c, Unblocked(octant, l, c) PROVE l # 0 /\ l \in Nat
    BY <2>1 DEF Unblocked
  <2> QED  BY <1>1, <2>1 DEF SeenSoFar
<1>3. EdgeStays
  BY <1>1 DEF EdgeStays
<1>4. ShadowsBehind
  <2>1. Len(obstacles) = 0
    BY <1>1
  <2>2. \A l : (IF l = iteration THEN obstacles_in_last_line ELSE Len(obstacles)) = 0
    BY <1>1, <2>1
  <2>3. \A l, i : i \notin 1 .. (IF l = iteration THEN obstacles_in_last_line ELSE Len(obstacles))
    BY <2>2
  <2> QED  BY <2>3 DEF ShadowsBehind
<1>5. GoesOn /\ FirstOctantSeen /\ \A q \in 1 .. 4 : q < quadrant => QuadrantSeen(q)
  BY <1>1 DEF GoesOn, FirstOctantSeen
<1> QED  BY <1>2, <1>3, <1>4, <1>5 DEF ViewInv

\* Whatever is unblocked is seen in the end, in every state of every map.
THEOREM ViewInvariant == FovSpec => [](FovInv /\ ViewInv)
<1>1. FovInit => ViewInv
  BY ViewStart
<1>2. FovInv /\ ViewInv /\ [FovNext]_fov_vars => ViewInv'
  <2> SUFFICES ASSUME FovInv, ViewInv, [FovNext]_fov_vars PROVE ViewInv'
    OBVIOUS
  <2>1. CASE Cell
    BY <2>1, ViewCell
  <2>2. CASE EndLine
    BY <2>2, ViewEndLine
  <2>3. CASE EndOctant
    BY <2>3, ViewEndOctant
  <2>4. CASE UNCHANGED fov_vars
    <3>1. UNCHANGED <<opaque, player, light_walls, fov, quadrant, octant, iteration,
              processed_cell, min_angle, obstacles, obstacles_in_last_line, done, seen>>
      BY <2>4 DEF fov_vars
    <3>2. UNCHANGED <<fov_input, quadrant>>
      BY <3>1 DEF fov_input
    <3>3. /\ \A o, l, c : TileAt(o, l, c)' = TileAt(o, l, c)
          /\ \A o, l, c : Unblocked(o, l, c)' <=> Unblocked(o, l, c)
          /\ \A q : QuadrantSeen(q)' <=> QuadrantSeen(q)
      BY <3>1, <3>2, SameView, SameWay
    <3>4. \A l, c : /\ TileAt(octant, l, c)' = TileAt(octant, l, c)
                    /\ Unblocked(octant, l, c)' <=> Unblocked(octant, l, c)
      <4>1. PICK o : o = octant
        OBVIOUS
      <4>2. o = octant'
        BY <3>1, <4>1
      <4>3. \A l, c : TileAt(o, l, c)' = TileAt(octant, l, c) /\ (Unblocked(o, l, c)' <=> Unblocked(octant, l, c))
        BY <3>3, <4>1
      <4>4. dx' = dx /\ dy' = dy
        BY <3>1 DEF dx, dy
      <4> QED  BY <3>1, <4>4 DEF TileAt, Unblocked
    <3>5. SeenSoFar' /\ GoesOn' /\ FirstOctantSeen'
      BY <3>1, <3>3, <3>4 DEF ViewInv, SeenSoFar, GoesOn, FirstOctantSeen
    <3>6. EdgeStays' /\ ShadowsBehind'
      <4>1. \A l, c : ToCome(l, c)' <=> ToCome(l, c)
        BY <3>1, <3>4 DEF ToCome
      <4> QED  BY <3>1, <4>1 DEF ViewInv, EdgeStays, ShadowsBehind
    <3>7. \A q \in 1 .. 4 : q < quadrant' => QuadrantSeen(q)'
      BY <3>1, <3>3 DEF ViewInv
    <3> QED  BY <3>5, <3>6, <3>7 DEF ViewInv
  <2> QED  BY <2>1, <2>2, <2>3, <2>4 DEF FovNext, Cell
<1> QED  BY <1>1, <1>2, FovInvariant, PTL DEF FovSpec

\* What is within reach with nothing in the way is seen, on every map.
THEOREM OpenViewIsSeen == FovSpec => []OpenViewSeen
<1>1. FovInv /\ ViewInv => OpenViewSeen
  <2> SUFFICES ASSUME FovInv, ViewInv, Returned, NEW t \in Tiles,
                      Within(fov_max_distance, player, t), t \in opaque => light_walls, Clear(t)
               PROVE  t \in fov
    BY DEF OpenViewSeen
  <2>1. \E q \in 1 .. 4 : InQuadrant(q, t)
    <3>1. player[1] \in Int /\ player[2] \in Int /\ t[1] \in Int /\ t[2] \in Int
      BY DEF FovInv, FovTypeOK, Tiles
    <3>2. InQuadrant(1, t) \/ InQuadrant(2, t) \/ InQuadrant(3, t) \/ InQuadrant(4, t)
      BY <3>1 DEF InQuadrant
    <3> QED  BY <3>2
  <2>2. \A q \in 1 .. 4 : QuadrantSeen(q)
    BY DEF ViewInv, Returned
  <2> QED  BY <2>1, <2>2 DEF QuadrantSeen
<1> QED  BY <1>1, ViewInvariant, PTL
=============================================================================
