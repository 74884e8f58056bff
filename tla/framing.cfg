\* Two requests of an empty, a short and a ten-byte content, in any pieces.
CONSTANTS
  LineMax = 24
  ParseMax = 20
  Lengths <- MCLengths
  MaxRequests = 2
SPECIFICATION Spec
INVARIANTS
  TypeOK
  MisreadNeedsNewlineOrReset
  ReadlineNeverBlocks
CHECK_DEADLOCK FALSE
