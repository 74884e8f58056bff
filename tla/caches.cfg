\* Two workers, four caches and the timer thread, with restarts.
CONSTANTS
  ka = ka  kb = kb  kc = kc
  N = 2
  Keys <- MCKeys
  ReadBack <- MCReadBack
  OnlyColons <- MCOnlyColons
  Garbled = Garbled
  CacheCapacity = 1
  MaxQueries = 3
SPECIFICATION Spec
INVARIANTS
  TypeOK
  WrongNeedsOverlapOrMisreading
  FlagsKeepApart
  RoundShares
