SPECIFICATION FovSpec
CONSTANTS
  Width = 4
  Height = 4
  Layouts <- MCAtMostOne
  Players <- MCPlayers
  fov_max_distance = 4
INVARIANT ShownIfSeen
CHECK_DEADLOCK FALSE
