SPECIFICATION Spec
CONSTANTS
  MaxConnections = 2
  u1 = u1 u2 = u2 u3 = u3 ann = ann bob = bob cyd = cyd dan = dan tutorial = tutorial cellar = cellar
  start = start floor = floor wall = wall
  Users = {u1}
  Slots = {0, 1}
  Names = {ann, bob, cyd, dan}
  MapNames = {tutorial}
  LoadedMaps = {tutorial}
  Tiles = {start, floor, wall}
  Walkable = {start, floor}
  OffMap = OffMap
  NoUser = NoUser
  NoRow = NoRow
  NoConnection = NoConnection
  Registered0 = {u1}
  Banned = {}
  Characters0 <- TwoCharacters
  StartMap = tutorial
  StartTile = start
  BaseStats = TRUE
  UndecidedServed = TRUE
  MoveTargets = {floor, wall}
  MaxQueued = 3
INVARIANTS MovesKept OldPlayerLeavesFirst
PROPERTY EnterAnswered
