SPECIFICATION Spec
CONSTANTS
  MaxConnections = 3
  u1 = u1 u2 = u2 u3 = u3 ann = ann bob = bob cyd = cyd dan = dan tutorial = tutorial cellar = cellar
  start = start floor = floor wall = wall
  Users = {u1, u2}
  Slots = {0}
  Names = {ann}
  MapNames = {tutorial}
  LoadedMaps = {tutorial}
  Tiles = {start, floor}
  Walkable = {start, floor}
  OffMap = OffMap
  NoUser = NoUser
  NoRow = NoRow
  NoConnection = NoConnection
  Registered0 = {u1, u2}
  Banned = {}
  Characters0 <- Namesakes
  StartMap = tutorial
  StartTile = start
  BaseStats = TRUE
  UndecidedServed = TRUE
  MoveTargets = {}
  MaxQueued = 2
INVARIANTS SlotExclusive OneCharacterEach NoGhosts LeavesAreStale
PROPERTIES NoEviction GhostsLeave ImplementsWorldEntry
