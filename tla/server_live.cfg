\* What must eventually happen, for patient clients and fair threads.
CONSTANTS
  c1 = c1  c2 = c2  c3 = c3  w1 = w1  w2 = w2
  Clients <- MCClients2
  Impatient = {}
  FdNums = {5, 6}
  Workers <- MCWorkers
  Capacity = 1
  MaxRequests = 2
  Listen = Listen
  EventFd = EventFd
  NoClient = NoClient
  NoTask = NoTask
SPECIFICATION FairSpec
PROPERTIES
  RequestAnswered
  ConnectionReleased
CHECK_DEADLOCK FALSE
