\* Every dictionary of up to four of eight words, asked for up to three characters.
CONSTANTS
  MaxWord = 2
  MaxSought = 3
  Words <- MCWords
  Soughts <- MCSoughts
  Freq <- MCFreq
  Bytes <- MCBytes
  Digits <- MCDigits
  DictSize = 4
  MaxResults = 3
  NoTop = NoTop
SPECIFICATION Spec
INVARIANTS
  EditDistanceIsLeast
  ResultsAreBest
  UndefinedNeedsFew
  RepetitionNeedsCopies
  SolitaireGoesOn
CHECK_DEADLOCK FALSE
