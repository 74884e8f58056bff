\* Three clients, one of which may leave before it is answered, share two descriptors,
\* two workers and a queue of one.
CONSTANTS
  c1 = c1  c2 = c2  c3 = c3  w1 = w1  w2 = w2
  Clients <- MCClients3
  Impatient <- MCOneImpatient
  FdNums = {5, 6}
  Workers <- MCWorkers
  Capacity = 1
  MaxRequests = 2
  Listen = Listen
  EventFd = EventFd
  NoClient = NoClient
  NoTask = NoTask
SPECIFICATION Spec
SYMMETRY ImpatientSymmetric
INVARIANTS
  TypeOK
  FunctorTargetAlive
  ConnsMatchFds
  EventsAreCurrent
  HarmNeedsAbandonment
CHECK_DEADLOCK FALSE
