\* Two workers asked for two keys; the file gives every key back as it was.
CONSTANTS
  ka = ka  kb = kb  kc = kc
  N = 2
  Keys <- MCTwoKeys
  ReadBack <- MCWholeKeys
  OnlyColons = {}
  Garbled = Garbled
  CacheCapacity = 1
  MaxQueries = 2
SPECIFICATION Spec
INVARIANTS
  AnswersTheQuestion
