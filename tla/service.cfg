SPECIFICATION ServiceSpec
CONSTANTS
  MaxConnections = 2
  gm = gm u2 = u2 u3 = u3 ann = ann tutorial = tutorial start = start
  Users = {gm, u2, u3}
  Slots = {0}
  Names = {ann}
  MapNames = {tutorial}
  LoadedMaps = {tutorial}
  Tiles = {start}
  Walkable = {start}
  OffMap = OffMap
  NoUser = NoUser
  NoRow = NoRow
  NoConnection = NoConnection
  Registered0 = {gm, u3}
  Banned = {u3}
  Characters0 <- FreshRows
  StartMap = tutorial
  StartTile = start
  BaseStats = FALSE
  UndecidedServed = TRUE
  MoveTargets = {start}
  MaxQueued = 1
  GameMasters = {gm}
  welcome = welcome
  NoMotd = NoMotd
  Motds = {NoMotd, welcome}
  Nothing = Nothing
INVARIANTS OnlineKnown MotdAgreed ThreadJoined
PROPERTIES EntrantsKnown NoRoundOnDeadServer QuitEnds
CHECK_DEADLOCK FALSE
