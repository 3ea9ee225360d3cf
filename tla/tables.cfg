SPECIFICATION Spec
CONSTANTS
  ann = ann bob = bob mage = mage thief = thief tutorial = tutorial hp = hp mp = mp ip = ip
  UserNames = {ann, bob}
  Slots = {0, 1}
  Names = {mage, thief}
  MapNames = {tutorial}
  Levels = {1}
  Values = {1}
  StartMap = tutorial
  BaseStats = {hp}
  Ips = {ip}
  nullopt = nullopt
  MaxId <- FewIds
  MaxNow = 1
INVARIANTS NothingHalf ReadsAgree
PROPERTIES IdentityKept BansHold
