------------------------------ MODULE Threadpool ------------------------------
(***************************************************************************)
(* The thread pool of the search server: Threadpool, Thread, TaskQueue,    *)
(* MutexLock and Condition of src/src/reactorpool.  The IO thread is the   *)
(* only producer (EchoServer::onMessage calls addTask from the event loop) *)
(* and also runs start() and ~Threadpool; the workers run wokerDoTask.     *)
(*                                                                         *)
(* A step is what a thread does between two points where another thread    *)
(* can see or change what it uses.  push is one step under the mutex; pop  *)
(* is several, because stop() and wakeup() read the queue and write the    *)
(* two flags without taking the mutex.                                     *)
(***************************************************************************)
EXTENDS Naturals, Sequences, FiniteSets, Functions

CONSTANTS Tasks,      \* the tasks the IO thread may submit
          Workers,    \* the _threads of the pool
          IO,         \* the thread that owns the pool
          Capacity,   \* _capacity of the queue
          NoTask,     \* no task in hand
          Spurious    \* threads whose pthread_cond_wait may return unsignalled

ASSUME ThreadsAssumption == IO \notin Workers /\ Workers # {} /\ IsFiniteSet(Workers)
ASSUME CapacityAssumption == Capacity \in Nat \ {0}
ASSUME NoTaskAssumption == NoTask \notin Tasks
ASSUME SpuriousAssumption == Spurious \subseteq Workers \cup {IO}

VARIABLES
  que,        \* TaskQueue::_que, front first
  clearFlag,  \* TaskQueue::_clearFlag
  isExit,     \* Threadpool::_isExit
  io,         \* where the IO thread is
  arg,        \* the task the IO thread is pushing
  pc,         \* where each worker is
  data,       \* the task each worker took from the queue and runs
  accepted,   \* history: the tasks that were put into the queue
  finished    \* history: the tasks that were executed

vars == <<que, clearFlag, isExit, io, arg, pc, data, accepted, finished>>

IOLocations == {"start", "serve", "push", "asleep", "pushResume", "notify",
                "drain", "setClear", "broadcast", "join", "stopped"}
WorkerLocations == {"new", "loop", "pop", "toWait", "asleep", "toTake", "run",
                    "exited"}

TypeOK ==
  /\ que \in Seq(Tasks)
  /\ clearFlag \in BOOLEAN /\ isExit \in BOOLEAN
  /\ io \in IOLocations
  /\ arg \in Tasks \cup {NoTask}
  /\ pc \in [Workers -> WorkerLocations]
  /\ data \in [Workers -> Tasks \cup {NoTask}]
  /\ accepted \subseteq Tasks /\ finished \subseteq Tasks

Init ==
  /\ que = <<>>
  /\ clearFlag = FALSE /\ isExit = FALSE
  /\ io = "start" /\ arg = NoTask
  /\ pc = [w \in Workers |-> "new"]
  /\ data = [w \in Workers |-> NoTask]
  /\ accepted = {} /\ finished = {}

(* TaskQueue::_mutex is held by a worker inside pop's critical section; the *)
(* IO thread's critical sections are single steps.                          *)
MutexFree == \A w \in Workers : pc[w] \notin {"toWait", "toTake"}

-------------------------------------------------------------------------------
(* The IO thread *)

(* Thread::start, called for every thread before start() returns. *)
StartThread(w) ==
  /\ io = "start" /\ pc[w] = "new"
  /\ pc' = [pc EXCEPT ![w] = "loop"]
  /\ io' = IF \E v \in Workers \ {w} : pc[v] = "new" THEN "start" ELSE "serve"
  /\ UNCHANGED <<que, clearFlag, isExit, arg, data, accepted, finished>>

AddTask(t) ==
  /\ io = "serve" /\ t \notin accepted
  /\ io' = "push" /\ arg' = t
  /\ UNCHANGED <<que, clearFlag, isExit, pc, data, accepted, finished>>

(* Mutant of Full: one task too many. *)
FullLate == Len(que) = Capacity + 1

(* isFull() compares with ==, and push asks it once. *)
Full == Len(que) = Capacity

PushWait ==
  /\ io = "push" /\ MutexFree /\ Full
  /\ io' = "asleep"
  /\ UNCHANGED <<que, clearFlag, isExit, arg, pc, data, accepted, finished>>

Enqueue ==
  /\ que' = Append(que, arg)
  /\ accepted' = accepted \cup {arg}
  /\ io' = "notify" /\ arg' = NoTask
  /\ UNCHANGED <<clearFlag, isExit, pc, data, finished>>

(* Mutant of PushEnqueue: the signal is kept for an empty queue. *)
PushEnqueueSignalsOnce ==
  /\ io = "push" /\ MutexFree /\ ~Full
  /\ que' = Append(que, arg)
  /\ accepted' = accepted \cup {arg}
  /\ io' = (IF que = <<>> THEN "notify" ELSE "serve") /\ arg' = NoTask
  /\ UNCHANGED <<clearFlag, isExit, pc, data, finished>>

PushEnqueue == io = "push" /\ MutexFree /\ ~Full /\ Enqueue

(* Back from _condFull.wait(): the queue is not looked at again. *)
PushResume == io = "pushResume" /\ MutexFree /\ Enqueue

(* Mutant of NotifyEmpty: push forgets to notify. *)
NotifyNobody ==
  /\ io = "notify"
  /\ io' = "serve"
  /\ UNCHANGED <<que, clearFlag, isExit, arg, pc, data, accepted, finished>>

(* pthread_cond_signal on _condEmpty wakes one waiting worker, if any waits. *)
NotifyEmpty ==
  /\ io = "notify"
  /\ io' = "serve"
  /\ IF \E w \in Workers : pc[w] = "asleep"
     THEN \E w \in Workers : pc[w] = "asleep" /\ pc' = [pc EXCEPT ![w] = "pop"]
     ELSE UNCHANGED pc
  /\ UNCHANGED <<que, clearFlag, isExit, arg, data, accepted, finished>>

(* ~Threadpool, after the event loop has returned. *)
Stop ==
  /\ io = "serve" /\ ~isExit
  /\ io' = "drain"
  /\ UNCHANGED <<que, clearFlag, isExit, arg, pc, data, accepted, finished>>

(* The polling loop of stop() ends: isEmpty() is read without the mutex. *)
SetExit ==
  /\ io = "drain" /\ que = <<>>
  /\ isExit' = TRUE
  /\ io' = "setClear"
  /\ UNCHANGED <<que, clearFlag, arg, pc, data, accepted, finished>>

(* wakeup(): the flag and the broadcast, both without the mutex. *)
SetClear ==
  /\ io = "setClear"
  /\ clearFlag' = TRUE
  /\ io' = "broadcast"
  /\ UNCHANGED <<que, isExit, arg, pc, data, accepted, finished>>

(* Mutant of Broadcast: notify() instead of notifyAll(). *)
BroadcastToOne ==
  /\ io = "broadcast"
  /\ IF \E w \in Workers : pc[w] = "asleep"
     THEN \E w \in Workers : pc[w] = "asleep" /\ pc' = [pc EXCEPT ![w] = "pop"]
     ELSE UNCHANGED pc
  /\ io' = "join"
  /\ UNCHANGED <<que, clearFlag, isExit, arg, data, accepted, finished>>

Broadcast ==
  /\ io = "broadcast"
  /\ pc' = [w \in Workers |-> IF pc[w] = "asleep" THEN "pop" ELSE pc[w]]
  /\ io' = "join"
  /\ UNCHANGED <<que, clearFlag, isExit, arg, data, accepted, finished>>

(* Mutant of Join: the workers are left to themselves. *)
JoinNobody ==
  /\ io = "join"
  /\ io' = "stopped"
  /\ UNCHANGED <<que, clearFlag, isExit, arg, pc, data, accepted, finished>>

Join ==
  /\ io = "join" /\ \A w \in Workers : pc[w] = "exited"
  /\ io' = "stopped"
  /\ UNCHANGED <<que, clearFlag, isExit, arg, pc, data, accepted, finished>>

-------------------------------------------------------------------------------
(* The workers *)

(* while(!_isExit) of wokerDoTask. *)
Loop(w) ==
  /\ pc[w] = "loop"
  /\ pc' = [pc EXCEPT ![w] = IF isExit THEN "exited" ELSE "pop"]
  /\ UNCHANGED <<que, clearFlag, isExit, io, arg, data, accepted, finished>>

(* pop locks and tests !_clearFlag && isEmpty(). *)
PopCheck(w) ==
  /\ pc[w] = "pop" /\ MutexFree
  /\ pc' = [pc EXCEPT ![w] = IF ~clearFlag /\ que = <<>> THEN "toWait"
                             ELSE "toTake"]
  /\ UNCHANGED <<que, clearFlag, isExit, io, arg, data, accepted, finished>>

(* pthread_cond_wait: release the mutex and wait, in one step. *)
PopWait(w) ==
  /\ pc[w] = "toWait"
  /\ pc' = [pc EXCEPT ![w] = "asleep"]
  /\ UNCHANGED <<que, clearFlag, isExit, io, arg, data, accepted, finished>>

(* Mutant of PopTake: front() without pop(). *)
PopTakeCopies(w) ==
  /\ pc[w] = "toTake" /\ ~clearFlag
  /\ data' = [data EXCEPT ![w] = Head(que)]
  /\ io' = IF io = "asleep" THEN "pushResume" ELSE io
  /\ pc' = [pc EXCEPT ![w] = "run"]
  /\ UNCHANGED <<que, clearFlag, isExit, arg, accepted, finished>>

(* Mutant of PopTake: the newest task first. *)
PopTakeNewest(w) ==
  /\ pc[w] = "toTake" /\ ~clearFlag
  /\ data' = [data EXCEPT ![w] = que[Len(que)]]
  /\ que' = SubSeq(que, 1, Len(que) - 1)
  /\ io' = IF io = "asleep" THEN "pushResume" ELSE io
  /\ pc' = [pc EXCEPT ![w] = "run"]
  /\ UNCHANGED <<clearFlag, isExit, arg, accepted, finished>>

(* front, pop and the signal of _condFull, where only the IO thread waits. *)
PopTake(w) ==
  /\ pc[w] = "toTake" /\ ~clearFlag
  /\ data' = [data EXCEPT ![w] = Head(que)]
  /\ que' = Tail(que)
  /\ io' = IF io = "asleep" THEN "pushResume" ELSE io
  /\ pc' = [pc EXCEPT ![w] = "run"]
  /\ UNCHANGED <<clearFlag, isExit, arg, accepted, finished>>

(* pop returns nullptr, and wokerDoTask runs nothing. *)
PopNull(w) ==
  /\ pc[w] = "toTake" /\ clearFlag
  /\ pc' = [pc EXCEPT ![w] = "loop"]
  /\ UNCHANGED <<que, clearFlag, isExit, io, arg, data, accepted, finished>>

(* Mutant of Run: the task is cleared before it is run. *)
RunCleared(w) ==
  /\ pc[w] = "run"
  /\ data' = [data EXCEPT ![w] = NoTask]
  /\ finished' = finished \cup {data'[w]}
  /\ pc' = [pc EXCEPT ![w] = "loop"]
  /\ UNCHANGED <<que, clearFlag, isExit, io, arg, accepted>>

Run(w) ==
  /\ pc[w] = "run"
  /\ finished' = finished \cup {data[w]}
  /\ data' = [data EXCEPT ![w] = NoTask]
  /\ pc' = [pc EXCEPT ![w] = "loop"]
  /\ UNCHANGED <<que, clearFlag, isExit, io, arg, accepted>>

(* Mutant of SpuriousWorker: pop waits with if instead of while. *)
SpuriousWorkerTakes(w) ==
  /\ w \in Spurious /\ pc[w] = "asleep" /\ MutexFree
  /\ pc' = [pc EXCEPT ![w] = "toTake"]
  /\ UNCHANGED <<que, clearFlag, isExit, io, arg, data, accepted, finished>>

(* pthread_cond_wait may return with nobody having signalled. *)
SpuriousWorker(w) ==
  /\ w \in Spurious /\ pc[w] = "asleep"
  /\ pc' = [pc EXCEPT ![w] = "pop"]
  /\ UNCHANGED <<que, clearFlag, isExit, io, arg, data, accepted, finished>>

SpuriousIO ==
  /\ IO \in Spurious /\ io = "asleep"
  /\ io' = "pushResume"
  /\ UNCHANGED <<que, clearFlag, isExit, arg, pc, data, accepted, finished>>

-------------------------------------------------------------------------------
IOStep ==
  \/ \E w \in Workers : StartThread(w)
  \/ PushWait \/ PushEnqueue \/ PushResume \/ NotifyEmpty
  \/ SetExit \/ SetClear \/ Broadcast \/ Join

WorkerStep(w) ==
  \/ Loop(w) \/ PopCheck(w) \/ PopWait(w) \/ PopTake(w) \/ PopNull(w) \/ Run(w)

Next ==
  \/ IOStep
  \/ \E t \in Tasks : AddTask(t)
  \/ Stop
  \/ \E w \in Workers : WorkerStep(w) \/ SpuriousWorker(w)
  \/ SpuriousIO

Spec == Init /\ [][Next]_vars

(* Threads are scheduled, and a task's function returns.  Nothing forces a *)
(* client to send a request or the server to be destroyed.                 *)
FairSpec ==
  /\ Spec
  /\ WF_vars(IOStep)
  /\ \A w \in Workers : WF_vars(WorkerStep(w))

-------------------------------------------------------------------------------
(* The queue never holds more than its capacity.  push asks isFull() once  *)
(* and trusts the signal it waited for: the queue is still not full when   *)
(* it runs again because nobody else pushes.  It needs IO \notin Spurious. *)
QueueWithinCapacity == Len(que) <= Capacity

(* A task that was accepted is in exactly one place, queued, in a worker's *)
(* hands or done, and is queued once: push and pop lose and repeat nothing. *)
InHand == {data[w] : w \in {v \in Workers : pc[v] = "run"}}

NothingLostOrDuplicated ==
  /\ accepted = Range(que) \cup InHand \cup finished
  /\ IsInjective(que)
  /\ \A v, w \in Workers :
        (v # w /\ pc[v] = "run" /\ pc[w] = "run") => data[v] # data[w]
  /\ Range(que) \cap InHand = {} /\ Range(que) \cap finished = {}
  /\ InHand \cap finished = {}

(* pop takes from the front of a queue that has one: between the test at   *)
(* the top of pop and the front() the mutex keeps the task there, although *)
(* _clearFlag, which wakeup() sets without the mutex, is read twice.       *)
TakeFindsTask == \A w \in Workers : (pc[w] = "toTake" /\ ~clearFlag) => que # <<>>

(* No wakeup is lost: while a worker sleeps, each queued task has a worker *)
(* of its own on the way to it, or the IO thread still owes the notify()   *)
(* that push calls after it has let go of the mutex.                       *)
WakeupPerTask ==
  (\E w \in Workers : pc[w] = "asleep") =>
     Len(que) <= Cardinality({w \in Workers : pc[w] \in {"pop", "toTake"}})
                 + (IF io = "notify" THEN 1 ELSE 0)

(* stop() returns with nothing left behind: its unlocked poll of isEmpty() *)
(* sees the queue empty while workers still run tasks, and only the joins  *)
(* wait for those.                                                         *)
StopDrains ==
  io = "stopped" => accepted = finished /\ \A w \in Workers : pc[w] = "exited"

-------------------------------------------------------------------------------
Pool == INSTANCE TaskPool WITH backlog <- que, running <- data,
                               open <- (io # "stopped")

(* The pool keeps the promise of TaskPool: tasks are taken in their order, *)
(* one by one, never past the capacity, and none after stop() has returned. *)
ImplementsPoolSafely == Pool!SafeSpec

(* And every task that got into the queue is executed, an idle worker      *)
(* never standing by for ever while there is one.                          *)
ImplementsPool == Pool!Spec

(* stop() returns if no worker stood between its test of _clearFlag and    *)
(* its wait when wakeup() broadcast: that one sleeps for ever otherwise,   *)
(* and the join of stop() with it.                                         *)
StopReturns ==
  (io = "broadcast" /\ \A w \in Workers : pc[w] # "toWait") ~> (io = "stopped")
===============================================================================
