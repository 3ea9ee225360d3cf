SPECIFICATION FovSpec
CONSTANTS
  Width = 5
  Height = 5
  Layouts <- MCLayouts
  Players <- MCPlayers
  fov_max_distance = 4
INVARIANTS WallsHide OpenViewSeen
CHECK_DEADLOCK FALSE
