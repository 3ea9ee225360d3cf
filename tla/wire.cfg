SPECIFICATION WireSpec
CONSTANTS
  UintSize = 16
  nullopt = nullopt
  null = null
  Nothing = Nothing
  Dictionary <- Words
  LowerCase <- ABC
  Phrases <- Texts
  Samples <- MCSamples
INVARIANTS RoundTrip NoMixUp IncompleteRefused FilterHolds
