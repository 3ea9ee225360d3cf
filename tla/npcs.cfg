SPECIFICATION Spec
CONSTANTS
  p1 = p1 p2 = p2
  MapFileLists <- MCMapFileLists
  Scripts <- MCScripts
  GlobalNpcs <- MCGlobalNpcs
  Players = {p1, p2}
  UintSize = 32
  nullopt = nullopt
  Nowhere = Nowhere
INVARIANTS NearHome KeepsTicking SpawnsItsOwn Populated
CHECK_DEADLOCK FALSE
SYMMETRY PlayersAlike
