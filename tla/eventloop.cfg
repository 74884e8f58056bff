CONSTANTS
  f1 = f1  f2 = f2  f3 = f3  s1 = s1  s2 = s2  s3 = s3
  w1 = w1  w2 = w2  efd = efd
  Functors <- MCFunctors3
  Sockets <- MCSockets3
  Workers <- MCWorkers
  EventFd = efd
  ListSize = 1
SPECIFICATION FairSpec
INVARIANTS
  TypeOK
  FunctorNotForgotten
  HandleReadNeverBlocks
PROPERTIES
  ImplementsMailboxSafely
  ImplementsMailbox
  UnloopStops
CHECK_DEADLOCK FALSE
