------------------------------ MODULE EventLoop ------------------------------
(***************************************************************************)
(* The event loop of src/src/reactorpool/EventLoop.cc: the IO thread waits *)
(* in epoll_wait on the sockets and on an eventfd; a worker that wants     *)
(* something done by the IO thread pushes a functor under _mutex and then, *)
(* after it has let go of the mutex, writes to the eventfd.                *)
(*                                                                         *)
(* The handlers of the sockets (handleNewConnection, handleMessage) appear *)
(* here only as what they do to the readiness of their socket; the module  *)
(* Server has their bodies.                                                *)
(***************************************************************************)
EXTENDS Naturals, Sequences, FiniteSets, Functions

CONSTANTS Workers,   \* threads that call runInLoop
          Functors,  \* what they may hand over, each once
          Sockets,   \* the listening socket and the connections
          EventFd,   \* _eventfd
          ListSize   \* the initial size of _eventList

ASSUME SocketsAssumption == EventFd \notin Sockets /\ IsFiniteSet(Sockets)
ASSUME ListSizeAssumption == ListSize \in Nat \ {0}

VARIABLES
  pending,    \* _pendingFunctors
  counter,    \* the count in the eventfd
  islooping,  \* _islooping
  size,       \* _eventList.size()
  io,         \* where the IO thread is
  events,     \* what epoll_wait returned and waitEpollFd has not dispatched
  tmp,        \* the functors doPendingFunctors has taken and not run
  pc,         \* where each worker is
  readable,   \* the sockets with something to read
  executed    \* history: the functors that were run

vars == <<pending, counter, islooping, size, io, events, tmp, pc, readable,
          executed>>

Fds == Sockets \cup {EventFd}

TypeOK ==
  /\ pending \in Seq(Functors) /\ tmp \in Seq(Functors)
  /\ executed \subseteq Functors
  /\ counter \in Nat /\ size \in Nat \ {0}
  /\ islooping \in BOOLEAN
  /\ io \in {"wait", "dispatch", "read", "swap", "run", "stopped"}
  /\ events \subseteq Fds /\ readable \subseteq Sockets
  /\ pc \in [Workers -> {"idle", "wakeup"}]

(* loop() has been entered and has set _islooping. *)
Init ==
  /\ pending = <<>> /\ tmp = <<>> /\ executed = {}
  /\ counter = 0
  /\ islooping = TRUE
  /\ size = ListSize
  /\ io = "wait" /\ events = {}
  /\ pc = [w \in Workers |-> "idle"]
  /\ readable = {}

-------------------------------------------------------------------------------
(* The other threads and the peers *)

Posted == Range(pending) \cup Range(tmp) \cup executed

(* runInLoop: push_back under the mutex ... *)
RunInLoop(w, f) ==
  /\ pc[w] = "idle" /\ f \notin Posted
  /\ pending' = Append(pending, f)
  /\ pc' = [pc EXCEPT ![w] = "wakeup"]
  /\ UNCHANGED <<counter, islooping, size, io, events, tmp, readable, executed>>

(* Mutant of Wakeup: the eventfd is not written. *)
WakeupSilent(w) ==
  /\ pc[w] = "wakeup"
  /\ pc' = [pc EXCEPT ![w] = "idle"]
  /\ UNCHANGED <<pending, counter, islooping, size, io, events, tmp, readable,
                 executed>>

(* ... and then wakeup() without it. *)
Wakeup(w) ==
  /\ pc[w] = "wakeup"
  /\ counter' = counter + 1
  /\ pc' = [pc EXCEPT ![w] = "idle"]
  /\ UNCHANGED <<pending, islooping, size, io, events, tmp, readable, executed>>

(* TcpServer::stop, from a thread of the user's. *)
Unloop ==
  /\ islooping' = FALSE
  /\ UNCHANGED <<pending, counter, size, io, events, tmp, pc, readable, executed>>

(* A peer connects, sends or closes. *)
Arrive(s) ==
  /\ readable' = readable \cup {s}
  /\ UNCHANGED <<pending, counter, islooping, size, io, events, tmp, pc, executed>>

-------------------------------------------------------------------------------
(* The IO thread *)

Ready == readable \cup (IF counter > 0 THEN {EventFd} ELSE {})

(* Mutant of EpollWait: the list keeps its size. *)
EpollWaitFixedList ==
  /\ io = "wait" /\ Ready # {}
  /\ \E S \in SUBSET Ready :
        /\ IF Cardinality(Ready) <= size THEN S = Ready
                                         ELSE Cardinality(S) = size
        /\ events' = S
  /\ io' = "dispatch"
  /\ UNCHANGED <<pending, counter, islooping, size, tmp, pc, readable, executed>>

(* Level-triggered epoll returns what is ready, as far as the list goes; a *)
(* list that was filled to the last entry is doubled for the next time.    *)
EpollWait ==
  /\ io = "wait" /\ Ready # {}
  /\ \E S \in SUBSET Ready :
        /\ IF Cardinality(Ready) <= size THEN S = Ready
                                         ELSE Cardinality(S) = size
        /\ events' = S
        /\ size' = IF Cardinality(S) = size THEN 2 * size ELSE size
  /\ io' = "dispatch"
  /\ UNCHANGED <<pending, counter, islooping, tmp, pc, readable, executed>>

(* Mutant of EpollTimeout: epoll_wait with a timeout of -1. *)
EpollNeverTimesOut == io = "wait" /\ Ready # {} /\ EpollWait

(* Mutant of EpollTimeout: the functors are looked after on a timeout, too. *)
EpollTimeoutReads ==
  /\ io = "wait" /\ Ready = {}
  /\ io' = "read"
  /\ UNCHANGED <<pending, counter, islooping, size, events, tmp, pc, readable,
                 executed>>

(* Nothing became ready for 5000 ms, or epoll_wait failed. *)
EpollTimeout ==
  /\ io = "wait" /\ Ready = {}
  /\ io' = "dispatch"
  /\ UNCHANGED <<pending, counter, islooping, size, events, tmp, pc, readable,
                 executed>>

(* handleNewConnection or handleMessage: what came is read, or part of it. *)
DispatchSocket(s) ==
  /\ io = "dispatch" /\ s \in events
  /\ events' = events \ {s}
  /\ readable' \in {readable, readable \ {s}}
  /\ UNCHANGED <<pending, counter, islooping, size, io, tmp, pc, executed>>

DispatchEventFd ==
  /\ io = "dispatch" /\ EventFd \in events
  /\ events' = events \ {EventFd}
  /\ io' = "read"
  /\ UNCHANGED <<pending, counter, islooping, size, tmp, pc, readable, executed>>

(* Mutant of HandleRead: one count is taken off for each functor. *)
HandleReadPerFunctor ==
  /\ io = "read" /\ counter > 0
  /\ counter' = counter - Len(pending)
  /\ io' = "swap"
  /\ UNCHANGED <<pending, islooping, size, events, tmp, pc, readable, executed>>

(* handleRead: a blocking read, which returns the count and clears it. *)
HandleRead ==
  /\ io = "read" /\ counter > 0
  /\ counter' = 0
  /\ io' = "swap"
  /\ UNCHANGED <<pending, islooping, size, events, tmp, pc, readable, executed>>

(* Mutant of Swap: the vector is copied and stays. *)
SwapCopies ==
  /\ io = "swap"
  /\ tmp' = pending
  /\ io' = "run"
  /\ UNCHANGED <<pending, counter, islooping, size, events, pc, readable,
                 executed>>

(* doPendingFunctors: swap under the mutex, then run without it. *)
Swap ==
  /\ io = "swap"
  /\ tmp' = pending /\ pending' = tmp
  /\ io' = "run"
  /\ UNCHANGED <<counter, islooping, size, events, pc, readable, executed>>

RunFunctor ==
  /\ io = "run" /\ tmp # <<>>
  /\ executed' = executed \cup {Head(tmp)}
  /\ tmp' = Tail(tmp)
  /\ UNCHANGED <<pending, counter, islooping, size, io, events, pc, readable>>

(* Mutant of RunDone: the eventfd is drained once more at the end. *)
RunDoneDrains ==
  /\ io = "run" /\ tmp = <<>>
  /\ counter' = 0
  /\ io' = "dispatch"
  /\ UNCHANGED <<pending, islooping, size, events, tmp, pc, readable, executed>>

RunDone ==
  /\ io = "run" /\ tmp = <<>>
  /\ io' = "dispatch"
  /\ UNCHANGED <<pending, counter, islooping, size, events, tmp, pc, readable,
                 executed>>

(* waitEpollFd returns to while(_islooping). *)
EndRound ==
  /\ io = "dispatch" /\ events = {}
  /\ io' = IF islooping THEN "wait" ELSE "stopped"
  /\ UNCHANGED <<pending, counter, islooping, size, events, tmp, pc, readable,
                 executed>>

-------------------------------------------------------------------------------
LoopStep ==
  \/ EpollWait \/ EpollTimeout
  \/ \E s \in Sockets : DispatchSocket(s)
  \/ DispatchEventFd \/ HandleRead \/ Swap \/ RunFunctor \/ RunDone \/ EndRound

Next ==
  \/ LoopStep
  \/ \E w \in Workers : Wakeup(w) \/ \E f \in Functors : RunInLoop(w, f)
  \/ Unloop
  \/ \E s \in Sockets : Arrive(s)

Spec == Init /\ [][Next]_vars

(* The threads are scheduled and epoll_wait times out; peers may do as they *)
(* like, and may keep every socket readable for ever.                       *)
FairSpec ==
  /\ Spec
  /\ WF_vars(LoopStep)
  /\ \A w \in Workers : WF_vars(Wakeup(w))

-------------------------------------------------------------------------------
(* A pending functor is never forgotten: the eventfd is signalled, or will *)
(* be by the worker that pushed it, or the IO thread is about to take the  *)
(* whole vector.  It rests on handleRead coming before doPendingFunctors.  *)
FunctorNotForgotten ==
  pending # <<>> => \/ counter > 0
                    \/ \E w \in Workers : pc[w] = "wakeup"
                    \/ io = "swap"

(* The eventfd is blocking and one thread reads it: when handleRead runs   *)
(* there is a count to read, or the IO thread would stop serving everyone. *)
HandleReadNeverBlocks ==
  (io = "read" \/ EventFd \in events) => counter > 0

-------------------------------------------------------------------------------
Box == INSTANCE Mailbox WITH inbox <- tmp \o pending,
                             closed <- (io = "stopped")

(* The hand-over keeps the promise of Mailbox: what runInLoop was given is *)
(* run once, in order, across the swap and the functors run after it.      *)
ImplementsMailboxSafely == Box!SafeSpec

(* And a functor handed over is run unless the loop has ended, however     *)
(* many sockets are readable all the time: the doubling of _eventList is   *)
(* what makes room for the eventfd among them.                             *)
ImplementsMailbox == Box!Spec

(* The loop leaves once it is told to, for the wait in epoll_wait is bounded. *)
UnloopStops == ~islooping ~> (io = "stopped")
===============================================================================
