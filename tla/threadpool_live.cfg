\* What must eventually happen, under fair scheduling of the threads and with no spurious wakeup.
CONSTANTS
  t1 = t1  t2 = t2  t3 = t3  t4 = t4
  w1 = w1  w2 = w2  w3 = w3  io0 = io0
  Tasks <- MCTasks4
  Workers <- MCWorkers3
  IO = io0
  Capacity = 2
  NoTask = NoTask
  Spurious = {}
SPECIFICATION FairSpec
INVARIANTS
  QueueWithinCapacity
PROPERTIES
  ImplementsPoolSafely
  ImplementsPool
  StopReturns
CHECK_DEADLOCK FALSE
