\* The pool with three workers and one slot fewer than tasks; any thread may wake up spuriously.
CONSTANTS
  t1 = t1  t2 = t2  t3 = t3  t4 = t4
  w1 = w1  w2 = w2  w3 = w3  io0 = io0
  Tasks <- MCTasks4
  Workers <- MCWorkers3
  IO = io0
  Capacity = 2
  NoTask = NoTask
  Spurious <- MCSpuriousAll
SPECIFICATION Spec
INVARIANTS
  TypeOK
  NothingLostOrDuplicated
  TakeFindsTask
  WakeupPerTask
  StopDrains
CHECK_DEADLOCK FALSE
