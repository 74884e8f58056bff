--------------------------- MODULE ThreadpoolProofs ---------------------------
(***************************************************************************)
(* What holds of Threadpool for every number of tasks and workers and      *)
(* every capacity.  The invariants come in layers, each inductive given    *)
(* the ones before it: Control (where the threads are, against the two     *)
(* flags), Guarded (what the mutex protects), and then the properties.     *)
(***************************************************************************)
EXTENDS Threadpool, DataLemmas

Exiting == {"setClear", "broadcast", "join", "stopped"}
Pushing == {"push", "asleep", "pushResume"}
Critical == {"toWait", "toTake"}

(* Where the threads are says what the flags and the variables in hand are. *)
Control ==
  /\ (io \in Pushing) => arg \in Tasks \ accepted
  /\ isExit <=> io \in Exiting
  /\ clearFlag <=> io \in Exiting \ {"setClear"}
  /\ \A w \in Workers : data[w] \in Tasks <=> pc[w] = "run"
  /\ io = "stopped" => \A w \in Workers : pc[w] = "exited"

(* What is true of the queue while a worker is inside pop, and while the   *)
(* IO thread is in stop().                                                 *)
Guarded ==
  /\ \A v, w \in Workers :
        (v # w /\ pc[v] \in Critical) => pc[w] \notin Critical
  /\ \A w \in Workers : pc[w] = "toWait" => que = <<>>
  /\ TakeFindsTask
  /\ isExit => que = <<>>

-------------------------------------------------------------------------------
(* Every variable keeps its type: in particular front() is only called on  *)
(* a queue that has one.                                                   *)
LEMMA InitTyped == Init => TypeOK /\ Control /\ Guarded
BY EmptySeq, NoTaskAssumption
   DEF Init, TypeOK, Control, Guarded, IOLocations, WorkerLocations, Exiting,
       Pushing, Critical, TakeFindsTask

LEMMA TypedStep ==
  ASSUME TypeOK, Control, Guarded, [Next]_vars
  PROVE  TypeOK'
<1> USE DEF TypeOK, IOLocations, WorkerLocations
<1>1. CASE \E w \in Workers : StartThread(w)
  BY <1>1 DEF StartThread
<1>2. CASE \E t \in Tasks : AddTask(t)
  BY <1>2 DEF AddTask
<1>3. CASE PushWait
  BY <1>3 DEF PushWait
<1>4. ASSUME Enqueue, io \in Pushing PROVE TypeOK'
  BY <1>4, AppendProperties DEF Enqueue, Control, Pushing
<1>5. CASE PushEnqueue \/ PushResume
  BY <1>4, <1>5 DEF PushEnqueue, PushResume, Pushing
<1>6. CASE NotifyEmpty
  BY <1>6 DEF NotifyEmpty
<1>7. CASE Stop \/ SetExit \/ SetClear \/ Broadcast \/ Join
  BY <1>7 DEF Stop, SetExit, SetClear, Broadcast, Join
<1>8. ASSUME NEW w \in Workers, Loop(w) \/ PopCheck(w) \/ PopWait(w) \/ PopNull(w)
      PROVE  TypeOK'
  BY <1>8 DEF Loop, PopCheck, PopWait, PopNull
<1>9. ASSUME NEW w \in Workers, PopTake(w) PROVE TypeOK'
  <2>1. Head(que) \in Tasks /\ Tail(que) \in Seq(Tasks)
    BY <1>9, HeadTailProperties DEF PopTake, Guarded, TakeFindsTask
  <2> QED BY <1>9, <2>1 DEF PopTake
<1>10. ASSUME NEW w \in Workers, Run(w) PROVE TypeOK'
  BY <1>10 DEF Run, Control
<1>11. CASE SpuriousIO \/ \E w \in Workers : SpuriousWorker(w)
  BY <1>11 DEF SpuriousIO, SpuriousWorker
<1>12. CASE UNCHANGED vars
  BY <1>12 DEF vars
<1> QED
  BY <1>1, <1>2, <1>3, <1>5, <1>6, <1>7, <1>8, <1>9, <1>10, <1>11, <1>12
     DEF Next, IOStep, WorkerStep

LEMMA ControlStep ==
  ASSUME TypeOK, Control, Guarded, [Next]_vars
  PROVE  Control'
<1> USE NoTaskAssumption DEF TypeOK, Control, IOLocations, WorkerLocations, Exiting, Pushing
<1>1. CASE \E w \in Workers : StartThread(w)
  BY <1>1 DEF StartThread
<1>2. CASE \E t \in Tasks : AddTask(t)
  BY <1>2 DEF AddTask
<1>3. CASE PushWait
  BY <1>3 DEF PushWait
<1>4. CASE PushEnqueue \/ PushResume
  BY <1>4 DEF PushEnqueue, PushResume, Enqueue
<1>5. CASE NotifyEmpty
  BY <1>5 DEF NotifyEmpty
<1>6. CASE Stop \/ SetExit \/ SetClear \/ Broadcast \/ Join
  BY <1>6 DEF Stop, SetExit, SetClear, Broadcast, Join
<1>7. ASSUME NEW w \in Workers, Loop(w) \/ PopCheck(w) \/ PopWait(w) \/ PopNull(w)
      PROVE  Control'
  BY <1>7 DEF Loop, PopCheck, PopWait, PopNull
<1>8. ASSUME NEW w \in Workers, PopTake(w) PROVE Control'
  <2>1. Head(que) \in Tasks
    BY <1>8, HeadTailProperties DEF PopTake, Guarded, TakeFindsTask
  <2> QED BY <1>8, <2>1 DEF PopTake
<1>9. ASSUME NEW w \in Workers, Run(w) PROVE Control'
  BY <1>9 DEF Run
<1>10. CASE SpuriousIO \/ \E w \in Workers : SpuriousWorker(w)
  BY <1>10 DEF SpuriousIO, SpuriousWorker
<1>11. CASE UNCHANGED vars
  BY <1>11 DEF vars
<1> QED
  BY <1>1, <1>2, <1>3, <1>4, <1>5, <1>6, <1>7, <1>8, <1>9, <1>10, <1>11
     DEF Next, IOStep, WorkerStep

LEMMA GuardedStep ==
  ASSUME TypeOK, Control, Guarded, [Next]_vars
  PROVE  Guarded'
<1> USE DEF TypeOK, Control, Guarded, IOLocations, WorkerLocations, Exiting, Pushing,
            Critical, TakeFindsTask, MutexFree
<1>1. CASE \E w \in Workers : StartThread(w)
  BY <1>1 DEF StartThread
<1>2. CASE \E t \in Tasks : AddTask(t)
  BY <1>2 DEF AddTask
<1>3. CASE PushWait
  BY <1>3 DEF PushWait
<1>4. CASE PushEnqueue \/ PushResume
  BY <1>4 DEF PushEnqueue, PushResume, Enqueue
<1>5. CASE NotifyEmpty
  BY <1>5 DEF NotifyEmpty
<1>6. CASE Stop \/ SetExit \/ SetClear \/ Broadcast \/ Join
  BY <1>6 DEF Stop, SetExit, SetClear, Broadcast, Join
<1>7. ASSUME NEW w \in Workers, Loop(w) \/ PopCheck(w) \/ PopWait(w) \/ PopNull(w)
      PROVE  Guarded'
  BY <1>7 DEF Loop, PopCheck, PopWait, PopNull
<1>8. ASSUME NEW w \in Workers, PopTake(w) PROVE Guarded'
  BY <1>8 DEF PopTake
<1>9. ASSUME NEW w \in Workers, Run(w) PROVE Guarded'
  BY <1>9 DEF Run
<1>10. CASE SpuriousIO \/ \E w \in Workers : SpuriousWorker(w)
  BY <1>10 DEF SpuriousIO, SpuriousWorker
<1>11. CASE UNCHANGED vars
  BY <1>11 DEF vars
<1> QED
  BY <1>1, <1>2, <1>3, <1>4, <1>5, <1>6, <1>7, <1>8, <1>9, <1>10, <1>11
     DEF Next, IOStep, WorkerStep

LEMMA Base == Spec => [](TypeOK /\ Control /\ Guarded)
<1>1. TypeOK /\ Control /\ Guarded /\ [Next]_vars => (TypeOK /\ Control /\ Guarded)'
  BY TypedStep, ControlStep, GuardedStep
<1> QED BY <1>1, InitTyped, PTL DEF Spec

THEOREM TypeCorrect == Spec => []TypeOK
BY Base, PTL

-------------------------------------------------------------------------------
(* The capacity.  push tests isFull() once, before it waits; that it need  *)
(* not test again rests on what is true at the two ends of the wait.       *)
CapacityKept ==
  /\ QueueWithinCapacity
  /\ io = "asleep" => Len(que) = Capacity
  /\ io = "pushResume" => Len(que) < Capacity

LEMMA CapacityStep ==
  ASSUME IO \notin Spurious, TypeOK, Control, Guarded, CapacityKept, [Next]_vars
  PROVE  CapacityKept'
<1> USE CapacityAssumption DEF TypeOK, CapacityKept, QueueWithinCapacity
<1>1. CASE PushEnqueue \/ PushResume
  <2>1. arg \in Tasks BY <1>1 DEF Control, Pushing, PushEnqueue, PushResume
  <2>2. Len(que) < Capacity BY <1>1 DEF PushEnqueue, PushResume, Full
  <2>3. Len(que') = Len(que) + 1 /\ io' = "notify"
    BY <1>1, <2>1, AppendProperties DEF PushEnqueue, PushResume, Enqueue
  <2> QED BY <2>2, <2>3
<1>2. CASE PushWait
  BY <1>2 DEF PushWait, Full
<1>3. ASSUME NEW w \in Workers, PopTake(w) PROVE CapacityKept'
  <2>1. Len(que') = Len(que) - 1
    BY <1>3, HeadTailProperties DEF PopTake, Guarded, TakeFindsTask
  <2> QED BY <1>3, <2>1 DEF PopTake
<1>4. CASE NotifyEmpty \/ Stop \/ SetExit \/ SetClear \/ Broadcast \/ Join
  BY <1>4 DEF NotifyEmpty, Stop, SetExit, SetClear, Broadcast, Join
<1>5. CASE (\E t \in Tasks : AddTask(t)) \/ (\E w \in Workers : StartThread(w))
  BY <1>5 DEF AddTask, StartThread
<1>6. ASSUME NEW w \in Workers,
             Loop(w) \/ PopCheck(w) \/ PopWait(w) \/ PopNull(w) \/ Run(w)
      PROVE  CapacityKept'
  BY <1>6 DEF Loop, PopCheck, PopWait, PopNull, Run
<1>7. CASE SpuriousIO \/ \E w \in Workers : SpuriousWorker(w)
  BY <1>7 DEF SpuriousIO, SpuriousWorker
<1>8. CASE UNCHANGED vars
  BY <1>8 DEF vars
<1> QED
  BY <1>1, <1>2, <1>3, <1>4, <1>5, <1>6, <1>7, <1>8 DEF Next, IOStep, WorkerStep

THEOREM CapacityRespected ==
  ASSUME IO \notin Spurious
  PROVE  Spec => []QueueWithinCapacity
<1>1. Init => CapacityKept
  BY CapacityAssumption DEF Init, CapacityKept, QueueWithinCapacity
<1>2. (TypeOK /\ Control /\ Guarded) /\ CapacityKept /\ [Next]_vars => CapacityKept'
  BY CapacityStep
<1>3. CapacityKept => QueueWithinCapacity
  BY DEF CapacityKept
<1> QED BY <1>1, <1>2, <1>3, Base, PTL DEF Spec

-------------------------------------------------------------------------------
(* front() is never called on an empty queue. *)
THEOREM TakeIsSafe == Spec => []TakeFindsTask
<1>1. Guarded => TakeFindsTask BY DEF Guarded
<1> QED BY <1>1, Base, PTL

-------------------------------------------------------------------------------
(* No task is lost or repeated on its way from addTask to its execution. *)
LEMMA ConservationStep ==
  ASSUME TypeOK, Control, Guarded, NothingLostOrDuplicated, [Next]_vars
  PROVE  NothingLostOrDuplicated'
<1> USE DEF NothingLostOrDuplicated, InHand
<1>1. CASE PushEnqueue \/ PushResume
  <2>1. arg \in Tasks /\ arg \notin accepted
    BY <1>1 DEF Control, Pushing, PushEnqueue, PushResume
  <2>2. /\ Range(que') = Range(que) \cup {arg}
        /\ IsInjective(que')
    <3>1. que' = Append(que, arg) BY <1>1 DEF PushEnqueue, PushResume, Enqueue
    <3>2. arg \notin Range(que) /\ IsInjective(que) BY <2>1
    <3> QED BY <2>1, <3>1, <3>2, AppendElements DEF TypeOK
  <2>3. /\ accepted' = accepted \cup {arg}
        /\ UNCHANGED <<pc, data, finished>>
    BY <1>1 DEF PushEnqueue, PushResume, Enqueue
  <2> QED BY <2>1, <2>2, <2>3
<1>2. ASSUME NEW w \in Workers, PopTake(w) PROVE NothingLostOrDuplicated'
  <2> DEFINE t == Head(que)
  <2>1. que # <<>> BY <1>2 DEF PopTake, Guarded, TakeFindsTask
  <2>2. /\ t \in Range(que)
        /\ Range(que) = Range(que') \cup {t}
        /\ IsInjective(que') /\ t \notin Range(que')
    <3>1. que' = Tail(que) BY <1>2 DEF PopTake
    <3> QED BY <2>1, <3>1, TailElements DEF TypeOK
  <2>3. /\ pc[w] = "toTake"
        /\ pc' = [pc EXCEPT ![w] = "run"]
        /\ data' = [data EXCEPT ![w] = t]
        /\ UNCHANGED <<accepted, finished>>
    BY <1>2 DEF PopTake
  <2>4. InHand' = InHand \cup {t}
    BY <2>3 DEF TypeOK
  <2>5. ASSUME NEW u \in Workers, NEW v \in Workers, u # v,
               pc'[u] = "run", pc'[v] = "run"
        PROVE  data'[u] # data'[v]
    <3>1. \A x \in Workers \ {w} :
             pc'[x] = "run" => pc[x] = "run" /\ data'[x] = data[x] /\ data[x] \in InHand
      BY <2>3 DEF TypeOK
    <3>2. t \notin InHand BY <2>2
    <3>3. data'[w] = t BY <2>3 DEF TypeOK
    <3> QED BY <2>5, <3>1, <3>2, <3>3
  <2>6. /\ accepted' = Range(que') \cup InHand' \cup finished'
        /\ Range(que') \cap InHand' = {} /\ Range(que') \cap finished' = {}
        /\ InHand' \cap finished' = {}
    BY <2>2, <2>3, <2>4
  <2> QED BY <2>2, <2>5, <2>6
<1>3. ASSUME NEW w \in Workers, Run(w) PROVE NothingLostOrDuplicated'
  <2>1. /\ pc[w] = "run"
        /\ pc' = [pc EXCEPT ![w] = "loop"]
        /\ data' = [data EXCEPT ![w] = NoTask]
        /\ finished' = finished \cup {data[w]}
        /\ UNCHANGED <<que, accepted>>
    BY <1>3 DEF Run
  <2>2. InHand' = InHand \ {data[w]}
    <3>1. \A x \in Workers \ {w} : pc'[x] = pc[x] /\ data'[x] = data[x]
      BY <2>1 DEF TypeOK
    <3>2. pc'[w] # "run" BY <2>1 DEF TypeOK
    <3>3. \A x \in Workers \ {w} : pc[x] = "run" => data[x] # data[w]
      BY <2>1
    <3> QED BY <3>1, <3>2, <3>3
  <2>3. data[w] \in InHand BY <2>1
  <2>4. \A u, v \in Workers :
           (u # v /\ pc'[u] = "run" /\ pc'[v] = "run") => data'[u] # data'[v]
    BY <2>1 DEF TypeOK
  <2> QED BY <2>1, <2>2, <2>3, <2>4
<1>4. ASSUME UNCHANGED <<que, data, accepted, finished>>,
             \A w \in Workers : pc'[w] = "run" <=> pc[w] = "run"
      PROVE  NothingLostOrDuplicated'
  BY <1>4
<1>5. CASE (\E t \in Tasks : AddTask(t)) \/ PushWait \/ Stop \/ SetExit \/ SetClear
             \/ Join \/ SpuriousIO \/ UNCHANGED vars
  BY <1>4, <1>5 DEF AddTask, PushWait, Stop, SetExit, SetClear, Join, SpuriousIO, vars
<1>6. CASE NotifyEmpty \/ Broadcast \/ \E w \in Workers : StartThread(w)
  BY <1>4, <1>6 DEF NotifyEmpty, Broadcast, StartThread, TypeOK
<1>7. ASSUME NEW w \in Workers, Loop(w) \/ PopCheck(w) \/ PopWait(w) \/ PopNull(w)
                                  \/ SpuriousWorker(w)
      PROVE  NothingLostOrDuplicated'
  BY <1>4, <1>7 DEF Loop, PopCheck, PopWait, PopNull, SpuriousWorker, TypeOK
<1> QED
  BY <1>1, <1>2, <1>3, <1>5, <1>6, <1>7 DEF Next, IOStep, WorkerStep

LEMMA InitConserves == Init => NothingLostOrDuplicated
BY DEF Init, NothingLostOrDuplicated, InHand, Range, IsInjective

THEOREM TasksConserved == Spec => []NothingLostOrDuplicated
<1>1. (TypeOK /\ Control /\ Guarded) /\ NothingLostOrDuplicated /\ [Next]_vars
        => NothingLostOrDuplicated'
  BY ConservationStep
<1> QED BY <1>1, InitConserves, Base, PTL DEF Spec

(* stop() leaves no task behind. *)
THEOREM StopIsClean == Spec => []StopDrains
<1>1. TypeOK /\ Control /\ Guarded /\ NothingLostOrDuplicated => StopDrains
  <2> SUFFICES ASSUME TypeOK, Control, Guarded, NothingLostOrDuplicated,
                      io = "stopped"
               PROVE  accepted = finished /\ \A w \in Workers : pc[w] = "exited"
    BY DEF StopDrains
  <2>1. \A w \in Workers : pc[w] = "exited" BY DEF Control
  <2>2. que = <<>> BY DEF Control, Guarded, Exiting
  <2>3. Range(que) = {} /\ InHand = {} BY <2>1, <2>2 DEF Range, InHand
  <2> QED BY <2>1, <2>3 DEF NothingLostOrDuplicated
<1> QED BY <1>1, Base, TasksConserved, PTL

-------------------------------------------------------------------------------
(* No wakeup is lost, counted over the workers that look for work. *)
Searching == {w \in Workers : pc[w] \in {"pop", "toTake"}}
Owed == IF io = "notify" THEN 1 ELSE 0

LEMMA SearchingCount ==
  /\ IsFiniteSet(Searching) /\ Cardinality(Searching) \in Nat
  /\ \A w \in Workers :
        /\ Cardinality(Searching \cup {w}) =
             IF w \in Searching THEN Cardinality(Searching) ELSE Cardinality(Searching) + 1
        /\ Cardinality(Searching \ {w}) =
             IF w \in Searching THEN Cardinality(Searching) - 1 ELSE Cardinality(Searching)
<1>1. IsFiniteSet(Searching)
  BY ThreadsAssumption, FS_Subset DEF Searching
<1> QED BY <1>1, FS_CardinalityType, FS_AddElement, FS_RemoveElement

LEMMA WakeupStep ==
  ASSUME TypeOK, Control, Guarded, WakeupPerTask, [Next]_vars
  PROVE  WakeupPerTask'
<1> DEFINE Asleep == \E w \in Workers : pc[w] = "asleep"
           Enough == Len(que) <= Cardinality(Searching) + Owed
<1> USE DEF TypeOK, IOLocations, WorkerLocations
<1>1. Asleep => Enough
  BY DEF WakeupPerTask, Searching, Owed
<1>2. (Asleep' => Enough') => WakeupPerTask'
  BY DEF WakeupPerTask, Searching, Owed
<1>3. Cardinality(Searching) \in Nat /\ Len(que) \in Nat
  BY SearchingCount
<1>4. ASSUME UNCHANGED <<que, pc>>, io # "notify" PROVE WakeupPerTask'
  <2>1. Searching' = Searching BY <1>4 DEF Searching
  <2> QED BY <1>1, <1>2, <1>3, <1>4, <2>1 DEF Owed
<1>5. ASSUME que' = <<>>, io' \in IOLocations, pc' \in [Workers -> WorkerLocations]
      PROVE  WakeupPerTask'
  <2>1. IsFiniteSet(Searching') BY ThreadsAssumption, FS_Subset DEF Searching
  <2>2. Cardinality(Searching') \in Nat BY <2>1, FS_CardinalityType
  <2> QED BY <1>2, <1>5, <2>2, EmptySeq DEF Owed
<1>6. CASE PushEnqueue \/ PushResume
  <2>1. arg \in Tasks BY <1>6 DEF Control, Pushing, PushEnqueue, PushResume
  <2>2. que' = Append(que, arg) /\ io' = "notify" /\ io # "notify" /\ pc' = pc
    BY <1>6 DEF PushEnqueue, PushResume, Enqueue
  <2>3. Len(que') = Len(que) + 1 BY <2>1, <2>2, AppendProperties
  <2>4. Searching' = Searching BY <2>2 DEF Searching
  <2> QED BY <1>1, <1>2, <1>3, <2>2, <2>3, <2>4 DEF Owed
<1>7. ASSUME NEW w \in Workers, pc[w] \notin {"pop", "toTake"},
             pc' = [pc EXCEPT ![w] = "pop"], que' = que,
             io' = io \/ (Asleep /\ io = "notify" /\ io' = "serve")
      PROVE  WakeupPerTask'
  <2>1. Searching' = Searching \cup {w} /\ w \notin Searching BY <1>7 DEF Searching
  <2>2. Cardinality(Searching') = Cardinality(Searching) + 1
    BY <2>1, SearchingCount
  <2>3. Asleep' => Asleep BY <1>7
  <2> QED BY <1>1, <1>2, <1>3, <1>7, <2>2, <2>3 DEF Owed
<1>8. CASE NotifyEmpty
  <2>1. CASE Asleep
    BY <1>7, <1>8, <2>1 DEF NotifyEmpty
  <2>2. CASE ~Asleep
    BY <1>2, <1>8, <2>2 DEF NotifyEmpty
  <2> QED BY <2>1, <2>2
<1>9. ASSUME NEW w \in Workers, PopTake(w) PROVE WakeupPerTask'
  <2>1. Len(que') = Len(que) - 1
    BY <1>9, HeadTailProperties DEF PopTake, Guarded, TakeFindsTask
  <2>2. Searching' = Searching \ {w} /\ w \in Searching
    BY <1>9 DEF PopTake, Searching
  <2>3. Cardinality(Searching') = Cardinality(Searching) - 1
    BY <2>2, SearchingCount
  <2>4. (Asleep' => Asleep) /\ Owed' = Owed BY <1>9 DEF PopTake, Owed
  <2> QED BY <1>1, <1>2, <1>3, <2>1, <2>3, <2>4 DEF Owed
<1>10. ASSUME NEW w \in Workers, PopCheck(w) PROVE WakeupPerTask'
  <2>1. CASE ~clearFlag /\ que = <<>>
    BY <1>5, <1>10, <2>1 DEF PopCheck
  <2>2. CASE ~(~clearFlag /\ que = <<>>)
    <3>1. Searching' = Searching /\ (Asleep' => Asleep) /\ que' = que /\ io' = io
      BY <1>10, <2>2 DEF PopCheck, Searching
    <3> QED BY <1>1, <1>2, <3>1 DEF Owed
  <2> QED BY <2>1, <2>2
<1>11. ASSUME NEW w \in Workers, PopWait(w) PROVE WakeupPerTask'
  BY <1>5, <1>11 DEF PopWait, Guarded
<1>12. ASSUME NEW w \in Workers, PopNull(w) PROVE WakeupPerTask'
  BY <1>5, <1>12 DEF PopNull, Guarded, Control
<1>13. ASSUME NEW w \in Workers, Loop(w) PROVE WakeupPerTask'
  <2>1. CASE isExit
    BY <1>5, <1>13, <2>1 DEF Loop, Guarded
  <2>2. CASE ~isExit
    BY <1>7, <1>13, <2>2 DEF Loop
  <2> QED BY <2>1, <2>2
<1>14. ASSUME NEW w \in Workers, SpuriousWorker(w) PROVE WakeupPerTask'
  BY <1>7, <1>14 DEF SpuriousWorker
<1>15. CASE Broadcast
  <2>1. ~Asleep' BY <1>15 DEF Broadcast
  <2> QED BY <1>2, <2>1
<1>16. ASSUME NEW w \in Workers, Run(w) \/ StartThread(w) PROVE WakeupPerTask'
  <2>1. Searching' = Searching /\ (Asleep' => Asleep) /\ que' = que
    BY <1>16 DEF Run, StartThread, Searching
  <2>2. Owed' = Owed BY <1>16 DEF Run, StartThread, Owed
  <2> QED BY <1>1, <1>2, <2>1, <2>2
<1>17. CASE (\E t \in Tasks : AddTask(t)) \/ PushWait \/ Stop \/ SetExit \/ SetClear
              \/ Join \/ SpuriousIO
  BY <1>4, <1>17 DEF AddTask, PushWait, Stop, SetExit, SetClear, Join, SpuriousIO
<1>18. CASE UNCHANGED vars
  <2>1. Searching' = Searching /\ Owed' = Owed /\ Asleep' = Asleep /\ que' = que
    BY <1>18 DEF vars, Searching, Owed
  <2> QED BY <1>1, <1>2, <2>1
<1> QED
  BY <1>6, <1>8, <1>9, <1>10, <1>11, <1>12, <1>13, <1>14, <1>15, <1>16, <1>17, <1>18
     DEF Next, IOStep, WorkerStep

THEOREM NoWakeupLost == Spec => []WakeupPerTask
<1>1. Init => WakeupPerTask
  BY DEF Init, WakeupPerTask
<1>2. (TypeOK /\ Control /\ Guarded) /\ WakeupPerTask /\ [Next]_vars => WakeupPerTask'
  BY WakeupStep
<1> QED BY <1>1, <1>2, Base, PTL DEF Spec

-------------------------------------------------------------------------------
(* Every step of the pool is a step of TaskPool, or changes nothing there. *)
LEMMA PoolStep ==
  ASSUME TypeOK, Control, Guarded, CapacityKept, NothingLostOrDuplicated, [Next]_vars
  PROVE  [Pool!Next]_Pool!vars
<1> USE DEF Pool!vars
<1>1. ASSUME UNCHANGED <<que, data, accepted, finished>>,
             io # "stopped", io' # "stopped"
      PROVE  UNCHANGED Pool!vars
  BY <1>1
<1>2. CASE PushEnqueue \/ PushResume
  <2>1. arg \in Tasks /\ arg \notin accepted
    BY <1>2 DEF Control, Pushing, PushEnqueue, PushResume
  <2>2. Len(que) < Capacity
    BY <1>2, CapacityAssumption
       DEF PushEnqueue, PushResume, Full, CapacityKept, QueueWithinCapacity, TypeOK
  <2>3. Pool!Submit(arg)
    BY <1>2, <2>1, <2>2 DEF PushEnqueue, PushResume, Enqueue, Pool!Submit
  <2> QED BY <2>1, <2>3 DEF Pool!Next
<1>3. ASSUME NEW w \in Workers, PopTake(w) PROVE Pool!Next
  <2>1. que # <<>> BY <1>3 DEF PopTake, Guarded, TakeFindsTask
  <2>2. data[w] = NoTask BY <1>3 DEF PopTake, Control, TypeOK
  <2>3. (io' # "stopped") = (io # "stopped") BY <1>3 DEF PopTake
  <2>4. Pool!Take(w) BY <1>3, <2>1, <2>2, <2>3 DEF PopTake, Pool!Take
  <2> QED BY <2>4 DEF Pool!Next
<1>4. ASSUME NEW w \in Workers, Run(w) PROVE Pool!Next
  <2>1. data[w] # NoTask BY <1>4, NoTaskAssumption DEF Run, Control
  <2>2. Pool!Finish(w) BY <1>4, <2>1 DEF Run, Pool!Finish
  <2> QED BY <2>2 DEF Pool!Next
<1>5. CASE Join
  <2>1. \A w \in Workers : pc[w] = "exited" BY <1>5 DEF Join
  <2>2. que = <<>> BY <1>5 DEF Join, Control, Guarded, Exiting
  <2>3. Range(que) = {} /\ InHand = {} BY <2>1, <2>2 DEF Range, InHand
  <2>4. accepted = finished BY <2>3 DEF NothingLostOrDuplicated
  <2>5. Pool!Shutdown BY <1>5, <2>4 DEF Join, Pool!Shutdown
  <2> QED BY <2>5 DEF Pool!Next
<1>6. CASE (\E t \in Tasks : AddTask(t)) \/ PushWait \/ NotifyEmpty \/ Stop \/ SetExit
             \/ SetClear \/ Broadcast \/ SpuriousIO
             \/ \E w \in Workers : StartThread(w)
  <2>1. io # "stopped" /\ io' # "stopped" /\ UNCHANGED <<que, data, accepted, finished>>
    BY <1>6 DEF AddTask, PushWait, NotifyEmpty, Stop, SetExit, SetClear, Broadcast,
                SpuriousIO, StartThread
  <2> QED BY <1>1, <2>1
<1>7. ASSUME NEW w \in Workers, Loop(w) \/ PopCheck(w) \/ PopWait(w) \/ PopNull(w)
                                  \/ SpuriousWorker(w)
      PROVE  UNCHANGED Pool!vars
  BY <1>7 DEF Loop, PopCheck, PopWait, PopNull, SpuriousWorker
<1>8. CASE UNCHANGED vars
  BY <1>8 DEF vars
<1> QED
  BY <1>2, <1>3, <1>4, <1>5, <1>6, <1>7, <1>8 DEF Next, IOStep, WorkerStep

THEOREM PoolImplemented ==
  ASSUME IO \notin Spurious
  PROVE  Spec => ImplementsPoolSafely
<1>1. Init => Pool!Init
  BY DEF Init, Pool!Init
<1>2. (TypeOK /\ Control /\ Guarded) /\ CapacityKept /\ NothingLostOrDuplicated /\ [Next]_vars
        => [Pool!Next]_Pool!vars
  BY PoolStep
<1>3. Init => CapacityKept
  BY CapacityAssumption DEF Init, CapacityKept, QueueWithinCapacity
<1>4. (TypeOK /\ Control /\ Guarded) /\ CapacityKept /\ [Next]_vars => CapacityKept'
  BY CapacityStep
<1> QED
  BY <1>1, <1>2, <1>3, <1>4, Base, TasksConserved, PTL
     DEF Spec, ImplementsPoolSafely, Pool!SafeSpec
===============================================================================
