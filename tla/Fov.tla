---------------------------------- MODULE Fov ----------------------------------
(***************************************************************************)
(* compute_fov_restrictive_shadowcasting: what a player sees, quadrant by  *)
(* quadrant, and is_visible, which looks a creature up in it.              *)
(*                                                                         *)
(* The two octants of a quadrant share its field of view, first the one    *)
(* whose lines run along x ("vertical"), then the one whose lines run      *)
(* along y.  Both are written here in coordinates of their own: the number *)
(* of the line, counted from the player, and the cell in the line.  Every  *)
(* tile looked at is a step, every end of a line another.  Slopes are      *)
(* integers, in units of 1/48, which is exact for the four lines there     *)
(* are; see EndSlope for the one double that differs.                      *)
(***************************************************************************)
EXTENDS TileMap, SequencesExt

CONSTANTS Layouts,            \* what the opaque tiles of a map may be
          Players,            \* where the player may stand
          fov_max_distance

ASSUME LayoutAssumption == Players \subseteq Tiles /\ Layouts \subseteq SUBSET Tiles
ASSUME SlopesExact == fov_max_distance \in 1 .. 4

VARIABLES
  opaque,                  \* the tiles with a wall or an opaque object
  player, light_walls,
  fov,                     \* the tiles set in the quadrants that are done
  quadrant,                \* 1 to 4, and 5 when all are done
  octant,                  \* "vertical" or "horizontal"
  iteration,               \* the line; 0 before the first one
  processed_cell,
  min_angle,
  obstacles,               \* start_angle and end_angle, one pair for each obstacle
  obstacles_in_last_line,
  done,
  seen                     \* the tiles set in fov_array

fov_vars == <<opaque, player, light_walls, fov, quadrant, octant, iteration,
              processed_cell, min_angle, obstacles, obstacles_in_last_line, done, seen>>
fov_input == <<opaque, player, light_walls>>

Returned == quadrant = 5
dx == IF quadrant <= 2 THEN 1 ELSE -1
dy == IF quadrant % 2 = 1 THEN 1 ELSE -1

Lower(a, b) == IF a < b THEN a ELSE b
Higher(a, b) == IF a > b THEN a ELSE b

TileAt(oct, line, cell) ==
  IF oct = "vertical" THEN <<player[1] + cell * dx, player[2] + line * dy>>
                      ELSE <<player[1] + line * dx, player[2] + cell * dy>>

Tile == TileAt(octant, iteration, processed_cell)
IsOpaque == Tile \in opaque

\* The slopes of the cell's middle and of its edges.
CentreSlope == (48 * processed_cell) \div iteration
StartSlope == (24 * (2 * processed_cell - 1)) \div iteration

\* 2.0 * (1.0 / 3.0) + 0.5 * (1.0 / 3.0), the end of cell 2 in line 3, is the double
\* just below the start of cell 3, which is 40 units.
EndSlope == IF iteration = 3 /\ processed_cell = 2
              THEN 39 ELSE (24 * (2 * processed_cell + 1)) \div iteration

\* The cell that min_angle falls into.
FirstCell(line) == (line * (min_angle + 24 \div line)) \div 48

LineOver == processed_cell > iteration \/ Tile \notin Tiles

\* Mutant of Passable: a wall that is seen can be looked through.
PassableIfSeen(cell) == TileAt(octant, iteration - 1, cell) \in seen

\* One of the two tiles of the former line that adjoin this one.
Passable(cell) == TileAt(octant, iteration - 1, cell) \in seen \ opaque

\* The obstacle of index idx hides the cell, is made wider by it, or lets it be.
\* In the horizontal octant the index goes on once more after an overlap.  (The flag
\* "extended" is set by open cells and asked of opaque ones only.)
Against(found, idx) ==
  LET from == found.obstacles[idx][1]
      to == found.obstacles[idx][2]
      overlaps == StartSlope <= to /\ EndSlope >= from
      hides == IF IsOpaque THEN CentreSlope > from /\ CentreSlope < to
                           ELSE StartSlope >= from /\ EndSlope <= to
  IN  IF ~found.visible THEN found
      ELSE IF found.skip THEN [found EXCEPT !.skip = FALSE]
      ELSE IF ~overlaps THEN found
      ELSE IF hides THEN [found EXCEPT !.visible = FALSE]
      ELSE IF IsOpaque THEN [found EXCEPT !.skip = (octant = "horizontal")]
      ELSE [visible |-> TRUE,
            skip |-> (octant = "horizontal"),
            obstacles |-> [found.obstacles EXCEPT
                             ![idx] = <<Lower(from, StartSlope), Higher(to, EndSlope)>>]]

\* The cell against all obstacles of the former lines.
Found ==
  LET unhidden == [visible |-> TRUE, skip |-> FALSE, obstacles |-> obstacles]
  IN  IF obstacles_in_last_line = 0 THEN unhidden
      ELSE IF ~Passable(processed_cell) /\ ~Passable(processed_cell - 1)
        THEN [unhidden EXCEPT !.visible = FALSE]
      ELSE FoldLeft(Against, unhidden, [i \in 1 .. obstacles_in_last_line |-> i])

FovInit ==
  /\ player \in Players
  /\ light_walls \in BOOLEAN
  /\ opaque \in {layout \ {player} : layout \in Layouts}
  /\ fov = {}
  /\ quadrant = 1
  /\ seen = {player}
  /\ octant = "vertical"
  /\ iteration = 0
  /\ processed_cell = 1
  /\ min_angle = 0
  /\ obstacles = <<>>
  /\ obstacles_in_last_line = 0
  /\ done = FALSE

Looking == ~Returned /\ ~LineOver

NextCell ==
  /\ processed_cell' = processed_cell + 1
  /\ obstacles_in_last_line' = obstacles_in_last_line
  /\ UNCHANGED <<fov_input, fov, quadrant, octant, iteration>>

Hidden ==
  /\ Looking
  /\ ~Found.visible
  /\ obstacles' = Found.obstacles
  /\ NextCell
  /\ UNCHANGED <<min_angle, done, seen>>

SeeOpen ==
  /\ Looking
  /\ Found.visible /\ ~IsOpaque
  /\ obstacles' = Found.obstacles
  /\ done' = FALSE
  /\ seen' = seen \cup {Tile}
  /\ NextCell
  /\ UNCHANGED min_angle

\* What is opaque either narrows the view from its edge, or is an obstacle in it.
SeeOpaque ==
  /\ Looking
  /\ Found.visible /\ IsOpaque
  /\ IF min_angle >= StartSlope
       THEN /\ min_angle' = EndSlope
            /\ done' = (processed_cell = iteration)
            /\ obstacles' = Found.obstacles
       ELSE /\ obstacles' = Append(Found.obstacles, <<StartSlope, EndSlope>>)
            /\ done' = FALSE
            /\ UNCHANGED min_angle
  /\ seen' = IF light_walls THEN seen \cup {Tile} ELSE seen \ {Tile}
  /\ NextCell

\* Nothing was seen in the line, or it was the last one.
NoMoreLines ==
  \/ done
  \/ iteration = fov_max_distance
  \/ TileAt(octant, iteration + 1, 0) \notin Tiles

EndLine ==
  /\ ~Returned
  /\ LineOver
  /\ ~NoMoreLines
  /\ iteration' = iteration + 1
  /\ processed_cell' = FirstCell(iteration + 1)
  /\ obstacles_in_last_line' = Len(obstacles)
  /\ done' = TRUE
  /\ UNCHANGED <<fov_input, fov, quadrant, octant, min_angle, obstacles, seen>>

\* The horizontal octant goes on with the field of view of the vertical one; the
\* next quadrant begins with the player's tile.
NextOctant ==
  IF octant = "vertical"
    THEN octant' = "horizontal" /\ UNCHANGED <<fov, quadrant, seen>>
    ELSE /\ octant' = "vertical"
         /\ quadrant' = quadrant + 1
         /\ fov' = fov \cup seen
         /\ seen' = {player}

\* Mutant of EndOctant: the next octant begins with this one's edge.
EndOctantKeepsAngle ==
  /\ ~Returned
  /\ LineOver
  /\ NoMoreLines
  /\ NextOctant
  /\ iteration' = 0
  /\ processed_cell' = 1
  /\ obstacles' = <<>>
  /\ obstacles_in_last_line' = 0
  /\ done' = FALSE
  /\ UNCHANGED <<fov_input, min_angle>>

EndOctant ==
  /\ ~Returned
  /\ LineOver
  /\ NoMoreLines
  /\ NextOctant
  /\ iteration' = 0
  /\ processed_cell' = 1
  /\ min_angle' = 0
  /\ obstacles' = <<>>
  /\ obstacles_in_last_line' = 0
  /\ done' = FALSE
  /\ UNCHANGED fov_input

\* What the game loop shows the player: the column of the tile is looked up on
\* the other side of the player.
is_visible(other) ==
  /\ other[1] \in player[1] - fov_max_distance .. player[1] + fov_max_distance
  /\ other[2] \in player[2] - fov_max_distance .. player[2] + fov_max_distance
  /\ <<2 * player[1] - other[1], other[2]>> \in fov

FovNext == Hidden \/ SeeOpen \/ SeeOpaque \/ EndLine \/ EndOctant

FovSpec == FovInit /\ [][FovNext]_fov_vars

-----------------------------------------------------------------------------
Between(a, b, c) == (a <= b /\ b <= c) \/ (c <= b /\ b <= a)

\* What is seen beyond the player's neighbours is seen past a tile that adjoins it, is
\* nearer, is open and is seen itself: nobody sees out of a closed ring of walls.
\* Nearer means fewer steps along the axes; the tile need not be of the former line:
\* the horizontal octant may look past one that the vertical octant saw in the same.
SeenThroughOpen ==
  \A t \in fov : ~Adjacent(player, t) =>
    \E s \in fov \ opaque : Adjacent(s, t) /\ heuristic(player, s) < heuristic(player, t)

\* Nothing is opaque in the rectangle between the player and the tile.
Clear(t) == \A o \in opaque \ {t} :
              ~(Between(player[1], o[1], t[1]) /\ Between(player[2], o[2], t[2]))

\* A tile within reach is seen if there is nothing in the way; if it is opaque
\* itself, only with walls lit.
OpenViewSeen ==
  Returned =>
    \A t \in Tiles :
      Within(fov_max_distance, player, t) /\ (t \in opaque => light_walls) /\ Clear(t)
        => t \in fov

\* Straight ahead whatever is opaque hides all that is behind it.
AxisBlocked == \A t \in fov : t[1] = player[1] \/ t[2] = player[2] => Clear(t)

\* No wall is seen through, by either of these measures: not by a closed ring of
\* them, and not straight ahead, whatever the second octant takes over from the
\* first and however the slopes of two lines are rounded.
WallsHide == Returned => SeenThroughOpen /\ AxisBlocked

\* A creature is shown to the player if its tile is seen.  The layout of fov_array
\* is what fov_tests.cpp says it is; is_visible reads another one.
ShownIfSeen ==
  Returned => \A t \in Tiles : is_visible(t) <=> t \in fov
=============================================================================
