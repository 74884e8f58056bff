\* Three caches of two entries, four keys, queries between any two turns of a round.
CONSTANTS
  k1 = k1  k2 = k2  k3 = k3  k4 = k4
  LastCache = 2
  Keys <- MCKeys
  Libraries <- MCLibraries
  CacheCapacity = 2
  MaxQueries = 4
SPECIFICATION Spec
INVARIANTS
  ForgetsLeastRecent
  OnlyLateIsLost
