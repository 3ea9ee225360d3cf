SPECIFICATION Spec
CONSTANTS
  MaxConnections = 2
  u1 = u1 u2 = u2 u3 = u3 ann = ann bob = bob cyd = cyd dan = dan tutorial = tutorial cellar = cellar
  start = start floor = floor wall = wall
  Users = {u1, u2, u3}
  Slots = {0, 1}
  Names = {ann, bob}
  MapNames = {tutorial, cellar}
  LoadedMaps = {tutorial}
  Tiles = {start, floor}
  Walkable = {start, floor}
  OffMap = OffMap
  NoUser = NoUser
  NoRow = NoRow
  NoConnection = NoConnection
  Registered0 = {u1, u3}
  Banned = {u3}
  Characters0 <- OldCharacter
  StartMap = tutorial
  StartTile = start
  BaseStats = FALSE
  UndecidedServed = FALSE
  MoveTargets = {}
  MaxQueued = 2
INVARIANT PlayedRowKept
