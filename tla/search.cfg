\* Every library of three pages of up to three, three and one words, asked for up to four words.
CONSTANTS
  MaxWords = 3
  CharSizes <- MCCharSizes
  Skipped <- MCSkipped
  Log2 <- MCLog2
  Stored <- MCStored
  Corpora <- MCCorpora
  Queries <- MCQueries
  Around = 6
  Stray <- MCStray
SPECIFICATION SearchSpec
INVARIANTS
  MatchesAreFound
  PartialNeedsThirdKey
  NaNIsAlone
  ExcerptsShowWords
CHECK_DEADLOCK FALSE
