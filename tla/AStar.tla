--------------------------------- MODULE AStar ---------------------------------
(***************************************************************************)
(* a_star_path: the search over the tiles of a map, and the walk back from *)
(* the goal that run_ai_on and a_star_tests.cpp do with its result.        *)
(*                                                                         *)
(* One action is one turn of the while loop.  The walk is here only for a  *)
(* goal that was reached: of another goal the caller would read entries    *)
(* that came_from does not have.                                           *)
(***************************************************************************)
EXTENDS TileMap, Sequences, Functions

VARIABLES
  walkable,      \* the tiles without a wall and without an opaque object
  start, goal,
  frontier,      \* frontier_queue: pairs <<priority, tile>>
  came_from,     \* tile -> the tile it was reached from
  cost_so_far,
  phase,         \* "searching", "returned", "walking", "arrived"
  path           \* the tiles of the walk so far, from the goal backwards

vars == <<walkable, start, goal, frontier, came_from, cost_so_far, phase, path>>
input == <<walkable, start, goal>>

Reached == DOMAIN cost_so_far

\* Mutant of tile_is_walkable: x > width instead of x >= width; the index runs on
\* into the next row.
tile_is_walkable_overrun(x, y) ==
  /\ x \in 0 .. Width /\ y \in 0 .. Height - 1
  /\ <<x % Width, y + x \div Width>> \in walkable

tile_is_walkable(x, y) ==
  /\ x \in 0 .. Width - 1 /\ y \in 0 .. Height - 1
  /\ <<x, y>> \in walkable

\* What the loops of get_neighbours go over: up to size, which is one too many.
Around(at, size) == (IF at > 0 THEN at - 1 ELSE 0) .. (IF at < size THEN at + 1 ELSE size)

\* Mutant of get_neighbours: no diagonal steps.
NeighboursStraight(t) == {n \in walkable : heuristic(t, n) <= 1}

\* Mutant of get_neighbours: the tile is not asked whether it is walkable.
NeighboursThroughWalls(t) == Around(t[1], Width) \X Around(t[2], Height)

\* The tile itself is among its neighbours.
get_neighbours(t) ==
  {n \in Around(t[1], Width) \X Around(t[2], Height) : tile_is_walkable(n[1], n[2])}

\* The order of pair<int, location>.
Before(e, f) ==
  \/ e[1] < f[1]
  \/ e[1] = f[1] /\ e[2][1] < f[2][1]
  \/ e[1] = f[1] /\ e[2][1] = f[2][1] /\ e[2][2] <= f[2][2]

new_cost(n) == IF n \in Reached THEN cost_so_far[n] + 1 ELSE 1

\* Mutant of Improved: the comparison is the wrong way round.
ImprovedInverted(n) == n \in Reached => new_cost(n) > cost_so_far[n]

\* A tile that was reached before never passes: its new cost is one more.
Improved(n) == n \in Reached => new_cost(n) < cost_so_far[n]

Init ==
  /\ walkable \in SUBSET Tiles
  /\ start \in Tiles
  /\ goal \in Tiles \ {start}
  /\ frontier = {<<0, start>>}
  /\ came_from = <<>>
  /\ cost_so_far = [t \in {start} |-> 0]
  /\ phase = "searching"
  /\ path = <<>>

\* frontier_queue.top()
IsBest(e) == e \in frontier /\ \A other \in frontier : Before(e, other)

\* The neighbours of current that are new go into the three containers.
Visit(current, rest) ==
  LET next == {n \in get_neighbours(current) : Improved(n)}
  IN  /\ cost_so_far' = [n \in Reached \cup next |->
                           IF n \in next THEN new_cost(n) ELSE cost_so_far[n]]
      /\ came_from' = [n \in DOMAIN came_from \cup next |->
                         IF n \in next THEN current ELSE came_from[n]]
      /\ frontier' = rest \cup {<<new_cost(n) + heuristic(n, goal), n>> : n \in next}

\* Mutant of Search: the best tile stays on the frontier.
SearchWithoutPop ==
  /\ phase = "searching"
  /\ \E best \in frontier :
       /\ IsBest(best)
       /\ IF best[2] = goal
            THEN phase' = "returned" /\ UNCHANGED <<frontier, came_from, cost_so_far>>
            ELSE Visit(best[2], frontier) /\ UNCHANGED phase
  /\ UNCHANGED <<input, path>>

\* The best tile is taken from the frontier; the goal ends the search.
Search ==
  /\ phase = "searching"
  /\ \E best \in frontier :
       /\ IsBest(best)
       /\ IF best[2] = goal
            THEN /\ phase' = "returned"
                 /\ frontier' = frontier \ {best}
                 /\ UNCHANGED <<came_from, cost_so_far>>
            ELSE /\ Visit(best[2], frontier \ {best})
                 /\ UNCHANGED phase
  /\ UNCHANGED <<input, path>>

Exhausted ==
  /\ phase = "searching"
  /\ frontier = {}
  /\ phase' = "returned"
  /\ UNCHANGED <<input, frontier, came_from, cost_so_far, path>>

\* auto &next = paths[goal]
StartWalk ==
  /\ phase = "returned"
  /\ goal \in DOMAIN came_from
  /\ phase' = "walking"
  /\ UNCHANGED <<input, frontier, came_from, cost_so_far, path>>

\* next is the entry of the goal itself, which the walk overwrites.
Walk ==
  LET next == came_from[goal]
  IN  /\ phase = "walking"
      /\ IF next = start
           THEN phase' = "arrived" /\ UNCHANGED <<came_from, path>>
           ELSE /\ came_from' = [came_from EXCEPT ![goal] = came_from[next]]
                /\ path' = Append(path, next)
                /\ UNCHANGED phase
      /\ UNCHANGED <<input, frontier, cost_so_far>>

Next == Search \/ Exhausted \/ StartWalk \/ Walk

\* The calling thread goes on.
Spec == Init /\ [][Next]_vars /\ WF_vars(Next)

-----------------------------------------------------------------------------
TypeOK ==
  /\ walkable \in SUBSET Tiles
  /\ start \in Tiles
  /\ goal \in Tiles \ {start}
  /\ Reached \subseteq Tiles
  /\ cost_so_far \in [Reached -> Nat]
  /\ came_from \in [Reached \ {start} -> Reached]
  /\ frontier \in SUBSET (Nat \X Reached)
  /\ phase \in {"searching", "returned", "walking", "arrived"}
  /\ path \in Seq(Reached)

\* Every entry of the result is a step a creature can make.
StepsPossible ==
  phase \in {"searching", "returned"} =>
    \A t \in DOMAIN came_from : t \in walkable /\ Adjacent(t, came_from[t])

\* Whatever set of reached tiles one looks at, one of them was reached from
\* outside of it: the entries never lead around in a circle.
NoCircle ==
  phase \in {"searching", "returned"} =>
    \A S \in SUBSET DOMAIN came_from : S # {} => \E t \in S : came_from[t] \notin S

\* When the goal was not reached there is no way: what was reached is closed.
NothingMissed ==
  phase = "returned" /\ goal \notin Reached =>
    \A s \in Reached : \A t \in walkable : Adjacent(s, t) => t \in Reached

\* The walk comes back to the start along tiles a creature can stand on.
WayBack ==
  phase = "arrived" =>
    LET way == <<goal>> \o path \o <<start>>
    IN  /\ goal \in walkable
        /\ \A i \in DOMAIN path : path[i] \in walkable
        /\ \A i \in 1 .. Len(way) - 1 : Adjacent(way[i], way[i + 1])

\* Search and walk end.
Ends == <>(phase = "arrived" \/ (phase = "returned" /\ goal \notin Reached))
=============================================================================
