-------------------------------- MODULE TileMap --------------------------------
(***************************************************************************)
(* The tiles of one map, for the two computations over them: the search    *)
(* for a path and the field of view.                                       *)
(***************************************************************************)
EXTENDS Integers

CONSTANTS Width, Height

ASSUME SizeAssumption == Width \in Nat /\ Height \in Nat

Tiles == (0 .. Width - 1) \X (0 .. Height - 1)

Distance(a, b) == IF a < b THEN b - a ELSE a - b

heuristic(a, b) == Distance(a[1], b[1]) + Distance(a[2], b[2])

\* No coordinate differs by more than n.
Within(n, s, t) == Distance(s[1], t[1]) <= n /\ Distance(s[2], t[2]) <= n

\* A creature can step from one to the other.
Adjacent(s, t) == Within(1, s, t)
=============================================================================
