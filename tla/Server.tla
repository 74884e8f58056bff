-------------------------------- MODULE Server --------------------------------
(***************************************************************************)
(* The search server end to end: clients as in src/client/clientTest.cc,   *)
(* the listening socket and the connections with their file descriptors,   *)
(* the IO thread dispatching what epoll_wait returned, and the workers.    *)
(* The thread pool and the hand-over of functors to the IO thread are the  *)
(* abstract TaskPool and Mailbox, which Threadpool and EventLoop implement.*)
(*                                                                         *)
(* What the module is about is who keeps a TcpConnection alive.  _conns,   *)
(* a task and the running MyTask hold it by shared_ptr; the functor that   *)
(* sendInLoop makes holds a plain pointer to it.                           *)
(***************************************************************************)
EXTENDS Integers, Sequences, FiniteSets, Functions

CONSTANTS Clients,      \* each makes one connection
          Impatient,    \* the clients that may leave before they are answered
          FdNums,       \* the descriptors the process may open for connections
          Workers,
          Capacity,     \* of the task queue
          MaxRequests,  \* bound: requests a client sends
          Listen,       \* the listening socket
          EventFd,      \* _eventfd
          NoClient,
          NoTask

ASSUME ClientsAssumption == Impatient \subseteq Clients /\ NoClient \notin Clients
ASSUME FdAssumption ==
  FdNums \subseteq Nat /\ Listen \notin FdNums /\ EventFd \notin FdNums \cup {Listen}
ASSUME BoundsAssumption == Capacity \in Nat /\ MaxRequests \in Nat

VARIABLES
  phase,      \* of each client; "abandoned" left while it waited
  asked,      \* the number of requests each client has sent
  toServer,   \* the requests in each connection the server has not read
  toClient,   \* the answers in each connection the client has not read
  arriving,   \* connections completed by the kernel and not accepted
  fd,         \* the descriptor in each client's TcpConnection
  conns,      \* EventLoop::_conns, descriptor to client
  io,         \* where the IO thread is
  events,     \* what epoll_wait returned and was not dispatched
  held,       \* the task the IO thread is adding
  left,       \* functors of this round still to run
  backlog, running, accepted, finished,   \* of the TaskPool
  inbox, executed,                        \* of the Mailbox
  posted      \* the workers that have called sendInLoop for their task

clientVars == <<phase, asked, toServer, toClient, arriving>>
ioVars == <<fd, conns, io, events, held, left>>
poolVars == <<backlog, running, accepted, finished>>
mailVars == <<inbox, executed>>
vars == <<clientVars, ioVars, poolVars, mailVars, posted>>

NoFd == -1
\* Request 0 is not the client's: the zero bytes that readline makes of a reset.
Requests == Clients \X (0..MaxRequests)
ASSUME NoTaskAssumption == NoTask \notin Requests

Pool == INSTANCE TaskPool WITH Tasks <- Requests, open <- TRUE
Mail == INSTANCE Mailbox WITH Functors <- Requests, closed <- FALSE

TypeOK ==
  /\ phase \in [Clients -> {"new", "idle", "waiting", "gone", "abandoned"}]
  /\ asked \in [Clients -> 0..MaxRequests]
  /\ toServer \in [Clients -> Seq(1..MaxRequests)]
  /\ toClient \in [Clients -> Seq(Requests)]
  /\ arriving \in Seq(Clients)
  /\ fd \in [Clients -> FdNums \cup {NoFd}]
  /\ DOMAIN conns \subseteq FdNums \cup {NoFd}
  /\ Range(conns) \subseteq Clients \cup {NoClient}
  /\ io \in {"wait", "dispatch", "push", "send", "down"}
  /\ events \subseteq FdNums \cup {Listen, EventFd}
  /\ held \in Requests \cup {NoTask}
  /\ left \in Nat
  /\ Pool!TypeOK
  /\ inbox \in Seq(Requests) /\ executed \subseteq Requests
  /\ posted \subseteq Workers

Init ==
  /\ phase = [c \in Clients |-> "new"]
  /\ asked = [c \in Clients |-> 0]
  /\ toServer = [c \in Clients |-> <<>>]
  /\ toClient = [c \in Clients |-> <<>>]
  /\ arriving = <<>>
  /\ fd = [c \in Clients |-> NoFd]
  /\ conns = <<>>
  /\ io = "wait" /\ events = {} /\ held = NoTask /\ left = 0
  /\ backlog = <<>> /\ running = [w \in Workers |-> NoTask]
  /\ accepted = {} /\ finished = {}
  /\ inbox = <<>> /\ executed = {}
  /\ posted = {}

-------------------------------------------------------------------------------
(* Connections and their owners *)

(* Mutant of Alive: _conns does not own its connections. *)
AliveByTasks(c) ==
  fd[c] # NoFd /\ \E t \in (Range(backlog) \cup Range(running) \cup {held}) \ {NoTask} :
                      t[1] = c

(* The shared_ptr copies: in _conns, in a queued, adding or running task. *)
Tasks == Range(backlog) \cup Range(running) \cup {held}
Alive(c) ==
  /\ fd[c] # NoFd
  /\ c \in Range(conns) \/ \E t \in Tasks \ {NoTask} : t[1] = c

(* Socket's destructor closes the descriptor with the last of them. *)
OpenFds == {fd[c] : c \in {d \in Clients : Alive(d)}}
FreeFds == FdNums \ OpenFds

-------------------------------------------------------------------------------
(* The clients *)

Connect(c) ==
  /\ phase[c] = "new"
  /\ phase' = [phase EXCEPT ![c] = "idle"]
  /\ arriving' = Append(arriving, c)
  /\ UNCHANGED <<asked, toServer, toClient, ioVars, poolVars, mailVars, posted>>

Ask(c) ==
  /\ phase[c] = "idle" /\ asked[c] < MaxRequests
  /\ phase' = [phase EXCEPT ![c] = "waiting"]
  /\ asked' = [asked EXCEPT ![c] = @ + 1]
  /\ toServer' = [toServer EXCEPT ![c] = Append(@, asked'[c])]
  /\ UNCHANGED <<toClient, arriving, ioVars, poolVars, mailVars, posted>>

Answered(c) ==
  /\ phase[c] = "waiting" /\ toClient[c] # <<>>
  /\ phase' = [phase EXCEPT ![c] = "idle"]
  /\ toClient' = [toClient EXCEPT ![c] = Tail(@)]
  /\ UNCHANGED <<asked, toServer, arriving, ioVars, poolVars, mailVars, posted>>

Gone(c) == phase[c] \in {"gone", "abandoned"}

(* A socket closed with something unread in it resets the connection. *)
Reset(c) == Gone(c) /\ toClient[c] # <<>>

(* Selection 4 closes the socket; a client that is killed may be waiting. *)
Leave(c) ==
  /\ \/ phase[c] = "idle" /\ phase' = [phase EXCEPT ![c] = "gone"]
     \/ /\ phase[c] = "waiting" /\ c \in Impatient
        /\ phase' = [phase EXCEPT ![c] = "abandoned"]
  /\ UNCHANGED <<asked, toServer, toClient, arriving, ioVars, poolVars, mailVars,
                 posted>>

-------------------------------------------------------------------------------
(* The IO thread *)

Readable(f) ==
  LET c == conns[f] IN toServer[c] # <<>> \/ Gone(c)

Ready ==
  {f \in DOMAIN conns \ {NoFd} : Readable(f)}
    \cup (IF arriving # <<>> THEN {Listen} ELSE {})
    \cup (IF inbox # <<>> THEN {EventFd} ELSE {})

EpollWait ==
  /\ io = "wait" /\ Ready # {}
  /\ events' = Ready
  /\ io' = "dispatch"
  /\ UNCHANGED <<clientVars, fd, conns, held, left, poolVars, mailVars, posted>>

(* handleNewConnection: the kernel hands out the lowest free descriptor,   *)
(* and _conns.insert leaves an entry that is there already as it is.       *)
Lowest(S) == CHOOSE f \in S : \A g \in S : f <= g
Inserted(f, c) ==
  [g \in DOMAIN conns \cup {f} |-> IF g \in DOMAIN conns THEN conns[g] ELSE c]

(* Mutant of HandleNewConnection: accept once more, until it would fail. *)
AcceptAgain ==
  /\ io = "dispatch" /\ Listen \in events
  /\ FreeFds # {}
  /\ LET c == Head(arriving)
         f == Lowest(FreeFds)
     IN /\ arriving' = Tail(arriving)
        /\ fd' = [fd EXCEPT ![c] = f]
        /\ conns' = Inserted(f, c)
  /\ UNCHANGED <<phase, asked, toServer, toClient, io, events, held, left, poolVars,
                 mailVars, posted>>

HandleNewConnection ==
  /\ io = "dispatch" /\ Listen \in events
  /\ events' = events \ {Listen}
  /\ FreeFds # {}
  /\ LET c == Head(arriving)
         f == Lowest(FreeFds)
     IN /\ arriving' = Tail(arriving)
        /\ fd' = [fd EXCEPT ![c] = f]
        /\ conns' = Inserted(f, c)
  /\ UNCHANGED <<phase, asked, toServer, toClient, io, held, left, poolVars,
                 mailVars, posted>>

(* No descriptor is left: accept returns -1, and the connection made for   *)
(* it stays in _conns under that number for good.                          *)
AcceptFails ==
  /\ io = "dispatch" /\ Listen \in events
  /\ events' = events \ {Listen}
  /\ FreeFds = {}
  /\ conns' = Inserted(NoFd, NoClient)
  /\ UNCHANGED <<clientVars, fd, io, held, left, poolVars, mailVars, posted>>

(* Mutant of HandleClose: the entry stays in _conns. *)
HandleCloseKeeps(f) ==
  /\ io = "dispatch" /\ f \in events \cap DOMAIN conns
  /\ events' = events \ {f}
  /\ toServer[conns[f]] = <<>> /\ Gone(conns[f]) /\ ~Reset(conns[f])
  /\ UNCHANGED <<clientVars, fd, conns, io, held, left, poolVars, mailVars, posted>>

(* handleMessage of a connection whose peer has closed and sent nothing more. *)
HandleClose(f) ==
  /\ io = "dispatch" /\ f \in events \cap DOMAIN conns
  /\ events' = events \ {f}
  /\ toServer[conns[f]] = <<>> /\ Gone(conns[f]) /\ ~Reset(conns[f])
  /\ conns' = Restrict(conns, DOMAIN conns \ {f})
  /\ UNCHANGED <<clientVars, fd, io, held, left, poolVars, mailVars, posted>>

(* handleMessage of a connection that was reset.  The error answers the    *)
(* recv of isClosed, which takes it for open, and is used up with it; the  *)
(* recv of readline then returns 0, and readline 65535 bytes, all zero.    *)
HandleReset(f) ==
  /\ io = "dispatch" /\ f \in events \cap DOMAIN conns
  /\ events' = events \ {f}
  /\ LET c == conns[f]
     IN /\ toServer[c] = <<>> /\ Reset(c)
        /\ toClient' = [toClient EXCEPT ![c] = <<>>]
        /\ held' = <<c, 0>>
  /\ io' = "push"
  /\ UNCHANGED <<phase, asked, toServer, arriving, fd, conns, left, poolVars, mailVars,
                 posted>>

(* Mutant of HandleMessage: a connection is let go after one request. *)
HandleMessageOnce(f) ==
  /\ io = "dispatch" /\ f \in events \cap DOMAIN conns
  /\ events' = events \ {f}
  /\ LET c == conns[f]
     IN /\ toServer[c] # <<>>
        /\ held' = <<c, Head(toServer[c])>>
        /\ toServer' = [toServer EXCEPT ![c] = Tail(@)]
  /\ conns' = Restrict(conns, DOMAIN conns \ {f})
  /\ io' = "push"
  /\ UNCHANGED <<phase, asked, toClient, arriving, fd, left, poolVars, mailVars,
                 posted>>

(* handleMessage otherwise: onMessage reads a request and adds the task. *)
HandleMessage(f) ==
  /\ io = "dispatch" /\ f \in events \cap DOMAIN conns
  /\ events' = events \ {f}
  /\ LET c == conns[f]
     IN /\ toServer[c] # <<>>
        /\ held' = <<c, Head(toServer[c])>>
        /\ toServer' = [toServer EXCEPT ![c] = Tail(@)]
  /\ io' = "push"
  /\ UNCHANGED <<phase, asked, toClient, arriving, fd, conns, left, poolVars,
                 mailVars, posted>>

(* Mutant of AddTask: a full queue refuses the task. *)
AddTaskOrDrop ==
  /\ io = "push"
  /\ Pool!Submit(held) \/ (Len(backlog) = Capacity /\ UNCHANGED poolVars)
  /\ held' = NoTask
  /\ io' = "dispatch"
  /\ UNCHANGED <<clientVars, fd, conns, events, left, mailVars, posted>>

(* addTask returns; with the queue full it has kept the IO thread waiting. *)
AddTask ==
  /\ io = "push"
  /\ Pool!Submit(held)
  /\ held' = NoTask
  /\ io' = "dispatch"
  /\ UNCHANGED <<clientVars, fd, conns, events, left, mailVars, posted>>

(* handleRead and the swap of doPendingFunctors. *)
TakeFunctors ==
  /\ io = "dispatch" /\ EventFd \in events
  /\ events' = events \ {EventFd}
  /\ left' = Len(inbox)
  /\ io' = "send"
  /\ UNCHANGED <<clientVars, fd, conns, held, poolVars, mailVars, posted>>

(* Mutant of RunFunctor: one functor more than were taken. *)
RunFunctorPastEnd ==
  /\ io = "send" /\ left >= 0
  /\ Mail!Deliver
  /\ left' = left - 1
  /\ UNCHANGED <<phase, asked, toServer, arriving, fd, conns, events, held,
                 poolVars, posted>>

RunFunctor ==
  /\ io = "send" /\ left > 0
  /\ Mail!Deliver
  /\ left' = left - 1
  /\ UNCHANGED <<phase, asked, toServer, arriving, fd, conns, events, held,
                 poolVars, posted>>

(* Mutant of Send: the answer is written twice. *)
SendTwice ==
  /\ RunFunctor
  /\ LET r == Head(inbox)
     IN /\ Alive(r[1]) /\ ~Gone(r[1])
        /\ toClient' = [toClient EXCEPT ![r[1]] = @ \o <<r, r>>]
  /\ UNCHANGED io

(* TcpConnection::send to a client that is there. *)
Send ==
  /\ RunFunctor
  /\ LET r == Head(inbox)
     IN /\ Alive(r[1]) /\ ~Gone(r[1])
        /\ toClient' = [toClient EXCEPT ![r[1]] = Append(@, r)]
  /\ UNCHANGED io

(* To one that has closed: the bytes are lost, or SIGPIPE, which the       *)
(* server leaves at its default, ends the process.                         *)
SendToGone ==
  /\ RunFunctor
  /\ LET c == Head(inbox)[1] IN Alive(c) /\ Gone(c)
  /\ io' \in {"send", "down"}
  /\ UNCHANGED toClient

(* Through the pointer to a TcpConnection that is gone: the number left in *)
(* the freed memory may be another connection's by now, or no descriptor,  *)
(* when writen never ends; or the access itself ends the process.          *)
SendDangling ==
  /\ RunFunctor
  /\ LET r == Head(inbox)
     IN /\ ~Alive(r[1])
        /\ \/ /\ \E c \in Clients :
                    /\ Alive(c) /\ fd[c] = fd[r[1]] /\ ~Gone(c)
                    /\ toClient' = [toClient EXCEPT ![c] = Append(@, r)]
              /\ UNCHANGED io
           \/ io' \in {"send", "down"} /\ UNCHANGED toClient

SendsDone ==
  /\ io = "send" /\ left = 0
  /\ io' = "dispatch"
  /\ UNCHANGED <<clientVars, fd, conns, events, held, left, poolVars, mailVars,
                 posted>>

EndRound ==
  /\ io = "dispatch" /\ events = {}
  /\ io' = "wait"
  /\ UNCHANGED <<clientVars, fd, conns, events, held, left, poolVars, mailVars,
                 posted>>

-------------------------------------------------------------------------------
(* The workers *)

TakeTask(w) ==
  /\ Pool!Take(w)
  /\ UNCHANGED <<clientVars, ioVars, mailVars, posted>>

(* MyTask::process ends in sendInLoop, whatever was asked. *)
SendInLoop(w) ==
  /\ running[w] # NoTask /\ w \notin posted /\ running[w][2] # 0
  /\ Mail!Post(running[w])
  /\ posted' = posted \cup {w}
  /\ UNCHANGED <<clientVars, ioVars, poolVars>>

(* The zero bytes of a reset are more than parse has room for on its stack. *)
ParseOverrun(w) ==
  /\ running[w] # NoTask /\ running[w][2] = 0
  /\ io' = "down"
  /\ UNCHANGED <<clientVars, fd, conns, events, held, left, poolVars, mailVars, posted>>

(* The task is destroyed, and its shared_ptr with it. *)
DropTask(w) ==
  /\ w \in posted
  /\ Pool!Finish(w)
  /\ posted' = posted \ {w}
  /\ UNCHANGED <<clientVars, ioVars, mailVars>>

-------------------------------------------------------------------------------
IOStep ==
  \/ EpollWait \/ HandleNewConnection \/ AcceptFails
  \/ \E f \in FdNums : HandleClose(f) \/ HandleReset(f) \/ HandleMessage(f)
  \/ AddTask \/ TakeFunctors \/ Send \/ SendToGone \/ SendDangling
  \/ SendsDone \/ EndRound

WorkerStep(w) ==
  /\ io # "down"
  /\ TakeTask(w) \/ SendInLoop(w) \/ ParseOverrun(w) \/ DropTask(w)

Next ==
  \/ IOStep
  \/ \E w \in Workers : WorkerStep(w)
  \/ \E c \in Clients : Connect(c) \/ Ask(c) \/ Answered(c) \/ Leave(c)

Spec == Init /\ [][Next]_vars

(* The server's threads are scheduled and a client reads its answer; no    *)
(* client need connect, ask or leave.                                      *)
FairSpec ==
  /\ Spec
  /\ WF_vars(IOStep)
  /\ \A w \in Workers : WF_vars(WorkerStep(w))
  /\ \A c \in Clients : WF_vars(Answered(c))

-------------------------------------------------------------------------------
Abandoned == \E c \in Impatient : phase[c] = "abandoned"

(* The connection a functor points to still exists when the IO thread runs *)
(* it, although nothing but the order of events keeps it so: a client that *)
(* waits for its answer does not close before it has it.                   *)
FunctorTargetAlive ==
  ~Abandoned => \A i \in DOMAIN inbox : Alive(inbox[i][1])

(* What a client finds in its connection is the answer it waits for, never *)
(* a stale one and never another client's, across reuse of descriptors.    *)
AnswersMatch ==
  \A c \in Clients : \A i \in DOMAIN toClient[c] :
     toClient[c][i] = <<c, asked[c]>> /\ phase[c] = "waiting"

(* Nothing but a client that left before it was answered brings the server *)
(* down or sends an answer astray.                                         *)
HarmNeedsAbandonment == io = "down" \/ ~AnswersMatch => Abandoned

(* An accepted descriptor is never already a key of _conns, so that insert *)
(* does not drop the new connection: the map's own shared_ptr keeps the    *)
(* descriptor from being handed out again.                                 *)
ConnsMatchFds ==
  /\ \A f \in DOMAIN conns \ {NoFd} : fd[conns[f]] = f
  /\ \A c, d \in Clients :
        (c # d /\ Alive(c) /\ Alive(d)) => fd[c] # fd[d]
  /\ DOMAIN conns \cap FreeFds = {}

(* What epoll_wait reported is still true when its turn in _eventList      *)
(* comes: the descriptor is registered and has a request or an end to read,*)
(* so that the blocking recv of isClosed and receive return.               *)
EventsAreCurrent ==
  /\ \A f \in events \cap FdNums : f \in DOMAIN conns /\ Readable(f)
  /\ Listen \in events => arriving # <<>>
  /\ EventFd \in events => inbox # <<>>

-------------------------------------------------------------------------------
(* Every request of an accepted client is answered: the full queue in      *)
(* which addTask keeps the IO thread, and the functors which only the IO   *)
(* thread runs, never wait for one another.                                *)
RequestAnswered ==
  \A c \in Clients :
     (phase[c] = "waiting" /\ fd[c] # NoFd) ~> (phase[c] # "waiting")

(* When a client has left, its TcpConnection is destroyed and the          *)
(* descriptor can be used again: nobody keeps a shared_ptr for good.       *)
ConnectionReleased ==
  \A c \in Clients : (Gone(c) /\ fd[c] # NoFd) ~> ~Alive(c)
===============================================================================
