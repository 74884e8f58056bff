\* One request, of any of five lengths around ten.
CONSTANTS
  LineMax = 24
  ParseMax = 20
  Lengths <- MCShortLengths
  MaxRequests = 1
SPECIFICATION Spec
INVARIANTS
  ServedAsAsked
CHECK_DEADLOCK FALSE
