--------------------------- MODULE EventLoopProofs ---------------------------
(***************************************************************************)
(* What holds of EventLoop for any number of workers, functors and sockets *)
(* and any initial size of _eventList.                                     *)
(***************************************************************************)
EXTENDS EventLoop, DataLemmas

(* A round of waitEpollFd: the functors taken are all run before the next  *)
(* event is looked at, and an eventfd to be read has something to read.    *)
Round ==
  /\ io # "run" => tmp = <<>>
  /\ io \in {"read", "swap", "run"} => EventFd \notin events
  /\ HandleReadNeverBlocks

LoopInv == TypeOK /\ Round /\ FunctorNotForgotten

LEMMA InitInv == Init => LoopInv
BY EmptySeq, ListSizeAssumption
   DEF Init, LoopInv, TypeOK, Round, HandleReadNeverBlocks, FunctorNotForgotten, Fds

(* The eventfd is in Ready only when it has been written, for it is none   *)
(* of the sockets.                                                         *)
LEMMA ReadyEventFd ==
  ASSUME TypeOK
  PROVE  Ready \subseteq Fds /\ (EventFd \in Ready => counter > 0)
BY SocketsAssumption DEF TypeOK, Ready, Fds

LEMMA EpollWaitStep ==
  ASSUME LoopInv, EpollWait
  PROVE  LoopInv'
<1> USE DEF LoopInv
<1>1. PICK S \in SUBSET Ready :
         /\ events' = S
         /\ size' = IF Cardinality(S) = size THEN 2 * size ELSE size
  BY DEF EpollWait
<1>2. size' \in Nat \ {0}
  BY <1>1 DEF TypeOK
<1>3. S \subseteq Fds /\ (EventFd \in S => counter > 0)
  BY ReadyEventFd
<1>4. /\ io = "wait" /\ io' = "dispatch"
      /\ UNCHANGED <<pending, counter, islooping, tmp, pc, readable, executed>>
  BY DEF EpollWait
<1>5. TypeOK' BY <1>1, <1>2, <1>3, <1>4 DEF TypeOK, Fds
<1>6. Round' BY <1>1, <1>3, <1>4 DEF Round, HandleReadNeverBlocks
<1>7. FunctorNotForgotten' BY <1>4 DEF FunctorNotForgotten
<1> QED BY <1>5, <1>6, <1>7

LEMMA InvStep ==
  ASSUME LoopInv, [Next]_vars
  PROVE  LoopInv'
<1> USE DEF LoopInv, TypeOK, Round, HandleReadNeverBlocks, FunctorNotForgotten
<1>1. ASSUME NEW w \in Workers, NEW f \in Functors, RunInLoop(w, f) PROVE LoopInv'
  <2>1. pending' \in Seq(Functors)
    BY <1>1, AppendProperties DEF RunInLoop
  <2> QED BY <1>1, <2>1 DEF RunInLoop
<1>2. ASSUME NEW w \in Workers, Wakeup(w) PROVE LoopInv'
  BY <1>2 DEF Wakeup
<1>3. CASE Unloop
  BY <1>3 DEF Unloop
<1>4. ASSUME NEW s \in Sockets, Arrive(s) \/ DispatchSocket(s) PROVE LoopInv'
  BY <1>4 DEF Arrive, DispatchSocket
<1>5. CASE EpollWait
  BY <1>5, EpollWaitStep
<1>6. CASE EpollTimeout
  BY <1>6 DEF EpollTimeout
<1>7. CASE DispatchEventFd
  BY <1>7 DEF DispatchEventFd
<1>8. CASE HandleRead
  BY <1>8 DEF HandleRead
<1>9. CASE Swap
  BY <1>9 DEF Swap
<1>10. CASE RunFunctor
  <2>1. Head(tmp) \in Functors /\ Tail(tmp) \in Seq(Functors)
    BY <1>10, HeadTailProperties DEF RunFunctor
  <2> QED BY <1>10, <2>1 DEF RunFunctor
<1>11. CASE RunDone
  BY <1>11 DEF RunDone
<1>12. CASE EndRound
  BY <1>12 DEF EndRound
<1>13. CASE UNCHANGED vars
  BY <1>13 DEF vars
<1> QED
  BY <1>1, <1>2, <1>3, <1>4, <1>5, <1>6, <1>7, <1>8, <1>9, <1>10, <1>11, <1>12, <1>13
     DEF Next, LoopStep

LEMMA Invariant == Spec => []LoopInv
BY InitInv, InvStep, PTL DEF Spec

(* Every variable keeps its type; the size of _eventList stays positive. *)
THEOREM TypeCorrect == Spec => []TypeOK
<1>1. LoopInv => TypeOK BY DEF LoopInv
<1> QED BY <1>1, Invariant, PTL

(* A functor in _pendingFunctors always has somebody who will see to it. *)
THEOREM NoFunctorForgotten == Spec => []FunctorNotForgotten
<1>1. LoopInv => FunctorNotForgotten BY DEF LoopInv
<1> QED BY <1>1, Invariant, PTL

(* The IO thread never blocks in the read of the eventfd. *)
THEOREM ReadDoesNotBlock == Spec => []HandleReadNeverBlocks
<1>1. LoopInv => HandleReadNeverBlocks BY DEF LoopInv, Round
<1> QED BY <1>1, Invariant, PTL

-------------------------------------------------------------------------------
(* Every step of the loop is a step of Mailbox, or changes nothing there. *)
LEMMA BoxStep ==
  ASSUME LoopInv, [Next]_vars
  PROVE  [Box!Next]_Box!vars
<1> USE DEF LoopInv, TypeOK, Box!vars
<1>1. ASSUME NEW w \in Workers, NEW f \in Functors, RunInLoop(w, f) PROVE Box!Next
  <2>1. tmp' \o pending' = Append(tmp \o pending, f)
    BY <1>1, ConcatAppend DEF RunInLoop
  <2>2. \A i \in DOMAIN (tmp \o pending) : (tmp \o pending)[i] # f
    <3>1. Range(tmp \o pending) = Range(tmp) \cup Range(pending)
      BY RangeConcatenation
    <3>2. f \notin Range(tmp \o pending) BY <1>1, <3>1 DEF RunInLoop, Posted
    <3> QED BY <3>2 DEF Range
  <2>3. f \notin executed /\ UNCHANGED <<executed, io>>
    BY <1>1 DEF RunInLoop, Posted
  <2>4. Box!Post(f) BY <2>1, <2>2, <2>3 DEF Box!Post
  <2> QED BY <2>4 DEF Box!Next
<1>2. CASE RunFunctor
  <2>1. /\ tmp \o pending # <<>>
        /\ Head(tmp \o pending) = Head(tmp)
        /\ Tail(tmp \o pending) = Tail(tmp) \o pending
    BY <1>2, ConcatFront DEF RunFunctor
  <2>2. Box!Deliver BY <1>2, <2>1 DEF RunFunctor, Box!Deliver
  <2> QED BY <2>2 DEF Box!Next
<1>3. CASE EndRound
  <2>1. CASE islooping
    BY <1>3, <2>1 DEF EndRound
  <2>2. CASE ~islooping
    <3>1. Box!Close BY <1>3, <2>2 DEF EndRound, Box!Close
    <3> QED BY <3>1 DEF Box!Next
  <2> QED BY <2>1, <2>2
<1>4. CASE Swap
  <2>1. tmp = <<>> BY <1>4 DEF Swap, Round
  <2>2. tmp' \o pending' = tmp \o pending
    BY <1>4, <2>1, ConcatEmptySeq DEF Swap
  <2> QED BY <1>4, <2>2 DEF Swap
<1>5. CASE Unloop \/ EpollWait \/ EpollTimeout \/ DispatchEventFd \/ HandleRead \/ RunDone
  BY <1>5 DEF Unloop, EpollWait, EpollTimeout, DispatchEventFd, HandleRead, RunDone
<1>6. ASSUME NEW w \in Workers, Wakeup(w) PROVE UNCHANGED Box!vars
  BY <1>6 DEF Wakeup
<1>7. ASSUME NEW s \in Sockets, Arrive(s) \/ DispatchSocket(s) PROVE UNCHANGED Box!vars
  BY <1>7 DEF Arrive, DispatchSocket
<1>8. CASE UNCHANGED vars
  BY <1>8 DEF vars
<1> QED
  BY <1>1, <1>2, <1>3, <1>4, <1>5, <1>6, <1>7, <1>8 DEF Next, LoopStep

(* What is handed over is run in order and at most once. *)
THEOREM MailboxImplemented == Spec => ImplementsMailboxSafely
<1>1. Init => Box!Init
  <2>1. <<>> \o <<>> = <<>> BY EmptySeq, ConcatEmptySeq
  <2> QED BY <2>1 DEF Init, Box!Init
<1>2. LoopInv /\ [Next]_vars => [Box!Next]_Box!vars
  BY BoxStep
<1> QED BY <1>1, <1>2, Invariant, PTL DEF Spec, ImplementsMailboxSafely, Box!SafeSpec
===============================================================================
