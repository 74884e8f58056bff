----------------------------- MODULE ServerProofs -----------------------------
(***************************************************************************)
(* What holds of Server for any clients, descriptors, workers, requests    *)
(* and capacity.  Two layers: Owned, of every behaviour, ties descriptors, *)
(* _conns and the events of a round together; Carried, as long as no       *)
(* client has left while it waited, follows a request on its way.          *)
(***************************************************************************)
EXTENDS Server, DataLemmas

(* Every entry of _conns but the one a failed accept leaves is a client's, *)
(* under the descriptor the client has; no two connections share one.      *)
FdsMatch ==
  /\ \A f \in DOMAIN conns \ {NoFd} : conns[f] \in Clients /\ fd[conns[f]] = f
  /\ \A c, d \in Clients : (c # d /\ Alive(c) /\ Alive(d)) => fd[c] # fd[d]

(* A client without a descriptor is new, or once in the queue of accept;   *)
(* one that has a descriptor and has not left is in _conns.                *)
Registered ==
  /\ IsInjective(arriving)
  /\ \A c \in Range(arriving) : fd[c] = NoFd /\ phase[c] # "new"
  /\ \A c \in Clients : phase[c] = "new" => fd[c] = NoFd
  /\ \A c \in Clients : (fd[c] # NoFd /\ ~Gone(c)) => c \in Range(conns)

(* What each thread holds where it is. *)
InHand ==
  /\ io = "push" => held # NoTask
  /\ io = "send" => EventFd \notin events
  /\ \A w \in posted : running[w] # NoTask
  /\ Range(backlog) \subseteq accepted
  /\ \A w \in Workers : running[w] # NoTask => running[w] \in accepted

Owned == FdsMatch /\ Registered /\ InHand /\ EventsAreCurrent

(* The request r is the one its client waits for. *)
Due(r) == phase[r[1]] = "waiting" /\ r[2] = asked[r[1]]

(* A request is in one place at a time: on the wire, in the IO thread's    *)
(* hand, in the backlog, with a worker that has not posted it, in the      *)
(* inbox, on the wire back; and in all of them its client waits for it.    *)
OnTheWire ==
  /\ \A c \in Clients : phase[c] = "waiting" => asked[c] # 0
  /\ \A c \in Clients : toServer[c] # <<>> =>
        /\ phase[c] = "waiting" /\ toServer[c] = <<asked[c]>>
        /\ <<c, asked[c]>> \notin accepted \cup {held}
  /\ \A c \in Clients : toClient[c] # <<>> =>
        /\ phase[c] = "waiting" /\ toClient[c] = <<<<c, asked[c]>>>>
        /\ <<c, asked[c]>> \in executed
InThePool ==
  /\ held # NoTask => Due(held) /\ held \notin accepted /\ fd[held[1]] # NoFd
  /\ \A r \in accepted : r[2] \in 1..asked[r[1]] /\ fd[r[1]] # NoFd
  /\ IsInjective(backlog)
  /\ \A r \in Range(backlog) : Due(r) /\ r \notin Range(inbox) \cup executed
  /\ \A w \in Workers \ posted : running[w] # NoTask =>
        /\ Due(running[w])
        /\ running[w] \notin Range(backlog) \cup Range(inbox) \cup executed
        /\ \A v \in Workers \ {w} : running[v] # running[w]
  /\ \A w \in posted : running[w] \in Range(inbox) \cup executed
InTheMail ==
  /\ IsInjective(inbox)
  /\ \A r \in Range(inbox) : Due(r) /\ r \in accepted \ executed
  /\ executed \subseteq accepted
  /\ \A r \in executed : Due(r) => toClient[r[1]] # <<>>

Carried == io # "down" /\ OnTheWire /\ InThePool /\ InTheMail

ServerInv == TypeOK /\ Owned /\ (~Abandoned => Carried)

-------------------------------------------------------------------------------
(* Types *)

LEMMA InitInv == Init => ServerInv
<1> SUFFICES ASSUME Init PROVE ServerInv
  OBVIOUS
<1> USE DEF Init
<1>1. Range(<<>>) = {} /\ IsInjective(<<>>)
  BY DEF Range, IsInjective
<1>2. DOMAIN conns = {}
  OBVIOUS
<1>3. \A c \in Clients : ~Alive(c)
  BY DEF Alive
<1>4. TypeOK
  BY <1>1, <1>2, BoundsAssumption DEF TypeOK, Pool!TypeOK, NoFd, Range
<1>5. Owned
  BY <1>1, <1>2, <1>3
     DEF Owned, FdsMatch, Registered, InHand, EventsAreCurrent, NoFd
<1>6. Carried
  BY <1>1 DEF Carried, OnTheWire, InThePool, InTheMail
<1> QED BY <1>4, <1>5, <1>6 DEF ServerInv

(* Of a request every part is known. *)
LEMMA RequestParts ==
  /\ \A r \in Requests : r[1] \in Clients /\ r[2] \in 0..MaxRequests /\ r = <<r[1], r[2]>>
  /\ \A c \in Clients, n \in 0..MaxRequests : <<c, n>> \in Requests
BY DEF Requests

LEMMA RequestRead ==
  ASSUME TypeOK, NEW c \in Clients
  PROVE  /\ <<c, 0>> \in Requests
         /\ toServer[c] # <<>> => /\ Head(toServer[c]) \in 1..MaxRequests
                                  /\ Tail(toServer[c]) \in Seq(1..MaxRequests)
                                  /\ <<c, Head(toServer[c])>> \in Requests
<1>1. toServer[c] \in Seq(1..MaxRequests)
  BY DEF TypeOK
<1>2. toServer[c] # <<>> => /\ Head(toServer[c]) \in 1..MaxRequests
                            /\ Tail(toServer[c]) \in Seq(1..MaxRequests)
  BY <1>1, HeadTailProperties
<1> QED BY <1>2, BoundsAssumption DEF Requests

LEMMA ClientTyped ==
  ASSUME TypeOK, NEW c \in Clients, Connect(c) \/ Ask(c) \/ Answered(c) \/ Leave(c)
  PROVE  TypeOK'
<1> USE DEF TypeOK, Pool!TypeOK, ioVars, poolVars, mailVars
<1>1. CASE Connect(c)
  BY <1>1, AppendProperties DEF Connect
<1>2. CASE Ask(c)
  <2>1. asked' \in [Clients -> 0..MaxRequests] /\ asked'[c] \in 1..MaxRequests
    BY <1>2, BoundsAssumption DEF Ask
  <2>2. toServer' \in [Clients -> Seq(1..MaxRequests)]
    BY <1>2, <2>1, AppendProperties DEF Ask
  <2> QED BY <1>2, <2>1, <2>2 DEF Ask
<1>3. CASE Answered(c)
  BY <1>3, HeadTailProperties DEF Answered
<1>4. CASE Leave(c)
  BY <1>4 DEF Leave
<1> QED BY <1>1, <1>2, <1>3, <1>4

(* _conns.insert and _conns.erase. *)
LEMMA InsertedEntries ==
  ASSUME NEW f, NEW c
  PROVE  /\ \A g : g \in DOMAIN Inserted(f, c) <=> g \in DOMAIN conns \/ g = f
         /\ \A g \in DOMAIN conns : Inserted(f, c)[g] = conns[g]
         /\ f \notin DOMAIN conns => Inserted(f, c)[f] = c
         /\ Range(Inserted(f, c)) \subseteq Range(conns) \cup {c}
         /\ Range(conns) \subseteq Range(Inserted(f, c))
         /\ f \notin DOMAIN conns => c \in Range(Inserted(f, c))
BY DEF Inserted, Range

LEMMA RestrictedEntries ==
  ASSUME NEW f
  PROVE  LET rest == Restrict(conns, DOMAIN conns \ {f})
         IN /\ \A g : g \in DOMAIN rest <=> g \in DOMAIN conns /\ g # f
            /\ \A g \in DOMAIN rest : rest[g] = conns[g]
            /\ Range(rest) \subseteq Range(conns)
BY DEF Restrict, Range

(* There is a lowest free descriptor, when there is one. *)
LEMMA LowestFree == FreeFds # {} => Lowest(FreeFds) \in FreeFds
BY NatMinimum, FdAssumption DEF Lowest, FreeFds

LEMMA IOTyped ==
  ASSUME TypeOK, Owned, IOStep
  PROVE  TypeOK'
<1> USE DEF TypeOK, Pool!TypeOK, clientVars, poolVars, mailVars
<1>1. CASE EpollWait
  BY <1>1 DEF EpollWait, Ready
<1>2. CASE HandleNewConnection
  <2> DEFINE c == Head(arriving)
             f == Lowest(FreeFds)
  <2>1. c \in Clients /\ Tail(arriving) \in Seq(Clients)
    BY <1>2, HeadTailProperties DEF HandleNewConnection, Owned, EventsAreCurrent
  <2>2. f \in FdNums
    BY <1>2, LowestFree DEF HandleNewConnection, FreeFds
  <2>3. /\ DOMAIN Inserted(f, c) \subseteq FdNums \cup {NoFd}
        /\ Range(Inserted(f, c)) \subseteq Clients \cup {NoClient}
    BY <2>1, <2>2, InsertedEntries
  <2> QED BY <1>2, <2>1, <2>2, <2>3 DEF HandleNewConnection
<1>3. CASE AcceptFails
  <2>1. /\ DOMAIN Inserted(NoFd, NoClient) \subseteq FdNums \cup {NoFd}
        /\ Range(Inserted(NoFd, NoClient)) \subseteq Clients \cup {NoClient}
    BY InsertedEntries
  <2> QED BY <1>3, <2>1 DEF AcceptFails
<1>4. ASSUME NEW f \in FdNums, HandleClose(f) PROVE TypeOK'
  BY <1>4, RestrictedEntries DEF HandleClose
<1>5. ASSUME NEW f \in FdNums, HandleReset(f) \/ HandleMessage(f) PROVE TypeOK'
  <2>1. conns[f] \in Clients
    BY <1>5, FdAssumption DEF HandleReset, HandleMessage, Owned, FdsMatch, NoFd
  <2>2. CASE HandleReset(f)
    <3>1. toClient' \in [Clients -> Seq(Requests)]
      BY <2>2, EmptySeq DEF HandleReset
    <3> QED BY <2>1, <2>2, <3>1, RequestRead DEF HandleReset
  <2>3. CASE HandleMessage(f)
    <3>1. toServer' \in [Clients -> Seq(1..MaxRequests)]
      BY <2>1, <2>3, RequestRead DEF HandleMessage
    <3> QED BY <2>1, <2>3, <3>1, RequestRead DEF HandleMessage
  <2> QED BY <1>5, <2>2, <2>3
<1>6. CASE AddTask
  <2>1. held \in Requests
    BY <1>6 DEF AddTask, Owned, InHand
  <2>2. Append(backlog, held) \in Seq(Requests) /\ Len(Append(backlog, held)) = Len(backlog) + 1
    BY <2>1, AppendProperties
  <2> QED BY <1>6, <2>1, <2>2, BoundsAssumption DEF AddTask, Pool!Submit
<1>7. CASE TakeFunctors
  BY <1>7 DEF TakeFunctors
<1>8. CASE Send \/ SendToGone \/ SendDangling
  <2>1. RunFunctor
    BY <1>8 DEF Send, SendToGone, SendDangling
  <2>2. Head(inbox) \in Requests /\ Tail(inbox) \in Seq(Requests)
    BY <2>1, HeadTailProperties DEF RunFunctor, Mail!Deliver
  <2>3. left' \in Nat
    BY <2>1 DEF RunFunctor
  <2>4. inbox' \in Seq(Requests) /\ executed' \subseteq Requests
    BY <2>1, <2>2 DEF RunFunctor, Mail!Deliver
  <2>5. io' \in {"wait", "dispatch", "push", "send", "down"}
    BY <1>8 DEF Send, SendToGone, SendDangling
  <2>6. ASSUME NEW c \in Clients
        PROVE  [toClient EXCEPT ![c] = Append(@, Head(inbox))] \in [Clients -> Seq(Requests)]
    BY <2>2, AppendProperties
  <2>7. Head(inbox)[1] \in Clients
    BY <2>2, RequestParts
  <2>8. toClient' \in [Clients -> Seq(Requests)]
    BY <1>8, <2>6, <2>7 DEF Send, SendToGone, SendDangling
  <2> QED BY <2>1, <2>3, <2>4, <2>5, <2>8 DEF RunFunctor
<1>9. CASE SendsDone \/ EndRound
  BY <1>9 DEF SendsDone, EndRound
<1> QED BY <1>1, <1>2, <1>3, <1>4, <1>5, <1>6, <1>7, <1>8, <1>9 DEF IOStep

LEMMA WorkerTyped ==
  ASSUME TypeOK, Owned, NEW w \in Workers, WorkerStep(w)
  PROVE  TypeOK'
<1> USE DEF TypeOK, Pool!TypeOK, clientVars, ioVars, poolVars, mailVars
<1>1. CASE TakeTask(w)
  <2>1. Head(backlog) \in Requests /\ Tail(backlog) \in Seq(Requests)
        /\ Len(Tail(backlog)) = Len(backlog) - 1
    BY <1>1, HeadTailProperties DEF TakeTask, Pool!Take
  <2> QED BY <1>1, <2>1, BoundsAssumption DEF TakeTask, Pool!Take
<1>2. CASE SendInLoop(w)
  BY <1>2, AppendProperties DEF SendInLoop, Mail!Post
<1>3. CASE ParseOverrun(w)
  BY <1>3 DEF ParseOverrun
<1>4. CASE DropTask(w)
  BY <1>4 DEF DropTask, Pool!Finish, Owned, InHand
<1> QED BY <1>1, <1>2, <1>3, <1>4 DEF WorkerStep

LEMMA TypedStep ==
  ASSUME TypeOK, Owned, [Next]_vars
  PROVE  TypeOK'
<1>1. CASE UNCHANGED vars
  BY <1>1 DEF vars, clientVars, ioVars, poolVars, mailVars, TypeOK, Pool!TypeOK
<1> QED BY <1>1, ClientTyped, IOTyped, WorkerTyped DEF Next

-------------------------------------------------------------------------------
(* Descriptors, _conns and events *)

(* Unless a connection is accepted, no step brings one to life, and what   *)
(* it leaves in _conns was there.                                          *)
LEMMA FdsKept ==
  ASSUME FdsMatch, fd' = fd,
         \A g \in DOMAIN conns' \ {NoFd} : g \in DOMAIN conns /\ conns'[g] = conns[g],
         \A c \in Clients : Alive(c)' => Alive(c)
  PROVE  FdsMatch'
BY DEF FdsMatch

LEMMA AliveBefore ==
  ASSUME fd' = fd, Tasks' \subseteq Tasks \cup {NoTask},
         Range(conns') \subseteq Range(conns) \cup {NoClient},
         NEW c \in Clients, Alive(c)'
  PROVE  Alive(c)
BY ClientsAssumption DEF Alive

LEMMA ClientOwned ==
  ASSUME TypeOK, Owned, NEW c \in Clients, Connect(c) \/ Ask(c) \/ Answered(c) \/ Leave(c)
  PROVE  Owned'
<1> USE DEF Owned, ioVars, poolVars, mailVars
<1>1. UNCHANGED <<ioVars, poolVars, mailVars, posted>>
  BY DEF Connect, Ask, Answered, Leave
<1>2. FdsMatch' /\ InHand'
  BY <1>1 DEF FdsMatch, Alive, Tasks, InHand
<1>3. Registered'
  <2>1. CASE Connect(c)
    <3>1. c \notin Range(arriving)
      BY <2>1 DEF Connect, Registered
    <3>2. IsInjective(arriving') /\ Range(arriving') = Range(arriving) \cup {c}
      <4>1. arriving \in Seq(Clients) /\ arriving' = Append(arriving, c)
        BY <2>1 DEF Connect, TypeOK
      <4> QED BY <3>1, <4>1, AppendElements DEF Registered
    <3> QED BY <1>1, <2>1, <3>2 DEF Connect, Registered, TypeOK, Gone
  <2>2. CASE Ask(c) \/ Answered(c) \/ Leave(c)
    <3>1. /\ arriving' = arriving
          /\ \A d \in Clients : phase'[d] = "new" <=> phase[d] = "new"
          /\ \A d \in Clients : Gone(d) => Gone(d)'
      BY <2>2 DEF Ask, Answered, Leave, TypeOK, Gone
    <3>2. Range(arriving) \subseteq Clients
      BY DEF TypeOK, Range
    <3> QED BY <1>1, <3>1, <3>2 DEF Registered
  <2> QED BY <2>1, <2>2
<1>4. EventsAreCurrent'
  <2>1. arriving # <<>> => arriving' # <<>>
    BY AppendProperties, EmptySeq DEF Connect, Ask, Answered, Leave, TypeOK
  <2>2. \A d \in Clients : Gone(d) => Gone(d)'
    BY DEF Connect, Ask, Answered, Leave, Gone, TypeOK
  <2>3. \A d \in Clients : toServer[d] # <<>> => toServer'[d] # <<>>
    BY AppendProperties, EmptySeq DEF Connect, Ask, Answered, Leave, TypeOK
  <2>4. ASSUME NEW f \in events' \cap FdNums PROVE f \in DOMAIN conns' /\ Readable(f)'
    <3>1. f \in DOMAIN conns /\ Readable(f) /\ conns[f] \in Clients
      BY <1>1, FdAssumption DEF EventsAreCurrent, FdsMatch, NoFd
    <3> QED BY <1>1, <2>2, <2>3, <3>1 DEF Readable
  <2> QED BY <1>1, <2>1, <2>4 DEF EventsAreCurrent
<1> QED BY <1>2, <1>3, <1>4

LEMMA WorkerOwned ==
  ASSUME TypeOK, Owned, NEW w \in Workers, WorkerStep(w)
  PROVE  Owned'
<1> USE DEF Owned, clientVars, ioVars, poolVars, mailVars
<1>1. /\ UNCHANGED <<clientVars, fd, conns, events, held, left>>
      /\ io' = io \/ io' = "down"
  BY DEF WorkerStep, TakeTask, SendInLoop, ParseOverrun, DropTask
<1>2. Tasks' \subseteq Tasks \cup {NoTask}
  <2>1. CASE TakeTask(w)
    <3>1. Range(backlog) = Range(backlog') \cup {Head(backlog)}
      BY <2>1, TailElements DEF TakeTask, Pool!Take, TypeOK, Pool!TypeOK
    <3>2. Range(running') \subseteq Range(running) \cup {Head(backlog)}
      BY <2>1 DEF TakeTask, Pool!Take, TypeOK, Pool!TypeOK, Range
    <3> QED BY <1>1, <3>1, <3>2 DEF Tasks
  <2>2. CASE SendInLoop(w) \/ ParseOverrun(w)
    BY <1>1, <2>2 DEF SendInLoop, ParseOverrun, Tasks
  <2>3. CASE DropTask(w)
    <3>1. Range(running') \subseteq Range(running) \cup {NoTask}
      BY <2>3 DEF DropTask, Pool!Finish, TypeOK, Pool!TypeOK, Range
    <3> QED BY <1>1, <2>3, <3>1 DEF Tasks, DropTask, Pool!Finish
  <2> QED BY <2>1, <2>2, <2>3 DEF WorkerStep
<1>3. FdsMatch'
  BY <1>1, <1>2, FdsKept, AliveBefore
<1>4. Registered'
  BY <1>1 DEF Registered, Gone
<1>5. InHand'
  <2>1. CASE TakeTask(w)
    <3>1. Head(backlog) \in accepted /\ Head(backlog) \in Requests
          /\ Range(backlog') \subseteq Range(backlog)
      BY <2>1, TailElements, HeadTailProperties
         DEF TakeTask, Pool!Take, TypeOK, Pool!TypeOK, InHand
    <3> QED BY <1>1, <2>1, <3>1, NoTaskAssumption
            DEF TakeTask, Pool!Take, TypeOK, Pool!TypeOK, InHand
  <2>2. CASE SendInLoop(w) \/ ParseOverrun(w)
    BY <1>1, <2>2 DEF SendInLoop, ParseOverrun, InHand
  <2>3. CASE DropTask(w)
    BY <1>1, <2>3 DEF DropTask, Pool!Finish, TypeOK, Pool!TypeOK, InHand
  <2> QED BY <2>1, <2>2, <2>3 DEF WorkerStep
<1>6. EventsAreCurrent'
  <2>1. inbox # <<>> => inbox' # <<>>
    BY AppendProperties, EmptySeq
       DEF WorkerStep, TakeTask, SendInLoop, ParseOverrun, DropTask, Mail!Post, TypeOK,
           Pool!TypeOK
  <2> QED BY <1>1, <2>1 DEF EventsAreCurrent, Readable, Gone
<1> QED BY <1>3, <1>4, <1>5, <1>6

(* A connection is accepted under a descriptor that no connection has, and *)
(* that is therefore no key of _conns.                                     *)
LEMMA AcceptOwned ==
  ASSUME TypeOK, Owned, HandleNewConnection
  PROVE  Owned'
<1> DEFINE c == Head(arriving)
           f == Lowest(FreeFds)
<1> USE DEF Owned
<1>1. /\ UNCHANGED <<phase, asked, toServer, toClient, io, held, left, poolVars, mailVars, posted>>
      /\ fd' = [fd EXCEPT ![c] = f] /\ conns' = Inserted(f, c) /\ events' = events \ {Listen}
      /\ arriving # <<>> /\ arriving' = Tail(arriving)
  BY DEF HandleNewConnection, EventsAreCurrent
<1>2. c \in Clients /\ c \in Range(arriving) /\ fd[c] = NoFd
      /\ Range(arriving) = Range(arriving') \cup {c}
      /\ IsInjective(arriving') /\ c \notin Range(arriving')
  <2>1. arriving \in Seq(Clients)
    BY DEF TypeOK
  <2> QED BY <1>1, <2>1, TailElements, HeadTailProperties DEF Registered
<1>3. f \in FdNums /\ f \notin OpenFds /\ f # NoFd
  BY LowestFree, FdAssumption DEF HandleNewConnection, FreeFds, NoFd
<1>4. ASSUME NEW g \in DOMAIN conns \ {NoFd}
      PROVE  conns[g] \in Clients /\ fd[conns[g]] = g /\ Alive(conns[g]) /\ g # f
    BY <1>3 DEF FdsMatch, Alive, OpenFds, Range
<1>5. f \notin DOMAIN conns
  BY <1>3, <1>4
<1>6. /\ \A g : g \in DOMAIN conns' <=> g \in DOMAIN conns \/ g = f
      /\ \A g \in DOMAIN conns : conns'[g] = conns[g]
      /\ conns'[f] = c /\ c \in Range(conns')
      /\ Range(conns') \subseteq Range(conns) \cup {c} /\ Range(conns) \subseteq Range(conns')
  BY <1>1, <1>5, InsertedEntries
<1>7. fd'[c] = f /\ \A d \in Clients \ {c} : fd'[d] = fd[d]
  BY <1>1, <1>2 DEF TypeOK
<1>8. Tasks' = Tasks
  BY <1>1 DEF Tasks, poolVars
<1>9. ASSUME NEW d \in Clients \ {c}, Alive(d)' PROVE Alive(d) /\ fd[d] # f
  <2>1. Alive(d)
    BY <1>6, <1>7, <1>8, <1>9 DEF Alive
  <2> QED BY <1>3, <2>1 DEF OpenFds
<1>10. FdsMatch'
  <2>1. ASSUME NEW g \in DOMAIN conns' \ {NoFd} PROVE conns'[g] \in Clients /\ fd'[conns'[g]] = g
    <3>1. CASE g = f
      BY <1>2, <1>6, <1>7, <3>1
    <3>2. CASE g # f
      <4>1. g \in DOMAIN conns \ {NoFd} /\ conns'[g] = conns[g]
        BY <1>6, <3>2
      <4>2. conns[g] \in Clients \ {c} /\ fd[conns[g]] = g
        BY <1>2, <1>4, <4>1
      <4> QED BY <1>7, <4>1, <4>2
    <3> QED BY <3>1, <3>2
  <2>2. ASSUME NEW d \in Clients, NEW e \in Clients, d # e, Alive(d)', Alive(e)'
        PROVE  fd'[d] # fd'[e]
    BY <1>7, <1>9, <2>2 DEF FdsMatch
  <2> QED BY <2>1, <2>2 DEF FdsMatch
<1>11. Registered'
  BY <1>1, <1>2, <1>6, <1>7 DEF Registered, Gone, TypeOK
<1>12. InHand'
  BY <1>1 DEF InHand, poolVars
<1>13. EventsAreCurrent'
  <2>1. ASSUME NEW g \in events' \cap FdNums PROVE g \in DOMAIN conns' /\ Readable(g)'
    <3>1. g \in DOMAIN conns /\ Readable(g)
      BY <1>1 DEF EventsAreCurrent
    <3> QED BY <1>1, <1>6, <3>1 DEF Readable, Gone
  <2> QED BY <1>1, <2>1 DEF EventsAreCurrent, mailVars
<1> QED BY <1>10, <1>11, <1>12, <1>13

(* What is left of a round after one of its events is still to be done. *)
LEMMA EventOwned ==
  ASSUME TypeOK, Owned, NEW f \in FdNums, HandleClose(f) \/ HandleReset(f) \/ HandleMessage(f)
  PROVE  Owned'
<1> DEFINE c == conns[f]
<1> USE DEF Owned
<1>1. c \in Clients /\ fd[c] = f /\ f \in DOMAIN conns /\ f # NoFd /\ c \in Range(conns)
  <2>1. f \in DOMAIN conns \ {NoFd}
    BY FdAssumption DEF HandleClose, HandleReset, HandleMessage, NoFd
  <2> QED BY <2>1 DEF FdsMatch, Range
<1>2. /\ UNCHANGED <<phase, asked, arriving, fd, left, poolVars, mailVars, posted>>
      /\ io = "dispatch" /\ events' = events \ {f}
      /\ \A d \in Clients \ {c} : toServer'[d] = toServer[d]
  BY <1>1 DEF HandleClose, HandleReset, HandleMessage, clientVars, TypeOK
<1>3. /\ \A g \in DOMAIN conns' : g \in DOMAIN conns /\ conns'[g] = conns[g]
      /\ \A g \in DOMAIN conns \ {f} : g \in DOMAIN conns'
      /\ Range(conns') \subseteq Range(conns)
      /\ ~Gone(c) => conns' = conns
  BY RestrictedEntries DEF HandleClose, HandleReset, HandleMessage
<1>4. \/ io' = "dispatch" /\ held' = held
      \/ io' = "push" /\ held' # NoTask /\ held'[1] = c
  <2>1. CASE HandleClose(f)
    BY <1>2, <2>1 DEF HandleClose
  <2>2. CASE HandleReset(f)
    <3>1. held' = <<c, 0>> /\ io' = "push"
      BY <2>2 DEF HandleReset
    <3> QED BY <1>1, <3>1, RequestRead, NoTaskAssumption
  <2>3. CASE HandleMessage(f)
    <3>1. held' = <<c, Head(toServer[c])>> /\ io' = "push" /\ toServer[c] # <<>>
      BY <2>3 DEF HandleMessage
    <3> QED BY <1>1, <3>1, RequestRead, NoTaskAssumption
  <2> QED BY <2>1, <2>2, <2>3
<1>5. \A d \in Clients : Alive(d)' => Alive(d)
  <2>1. ASSUME NEW d \in Clients, Alive(d)' PROVE Alive(d)
    <3>1. CASE d = c
      BY <1>1, <3>1 DEF Alive
    <3>2. CASE d # c
      BY <1>2, <1>3, <1>4, <2>1, <3>2 DEF Alive, Tasks, poolVars
    <3> QED BY <3>1, <3>2
  <2> QED BY <2>1
<1>6. FdsMatch'
  BY <1>2, <1>3, <1>5, FdsKept
<1>7. Registered'
  <2>1. ASSUME NEW d \in Clients, fd[d] # NoFd, ~Gone(d) PROVE d \in Range(conns')
    <3>1. PICK g \in DOMAIN conns : d = conns[g]
      BY <2>1 DEF Registered, Range
    <3>2. g \in DOMAIN conns'
      BY <1>3, <2>1, <3>1
    <3> QED BY <1>3, <3>1, <3>2 DEF Range
  <2> QED BY <1>2, <2>1 DEF Registered, Gone
<1>8. InHand'
  BY <1>2, <1>4 DEF InHand, poolVars
<1>9. EventsAreCurrent'
  <2>1. ASSUME NEW g \in events' \cap FdNums PROVE g \in DOMAIN conns' /\ Readable(g)'
    <3>1. g \in DOMAIN conns' /\ conns'[g] = conns[g] /\ Readable(g)
      BY <1>2, <1>3 DEF EventsAreCurrent
    <3>2. conns[g] \in Clients \ {c}
      BY <1>1, <1>2, <3>1, <1>3, FdAssumption DEF FdsMatch, NoFd
    <3> QED BY <1>2, <3>1, <3>2 DEF Readable, Gone
  <2> QED BY <1>2, <2>1 DEF EventsAreCurrent, mailVars
<1> QED BY <1>6, <1>7, <1>8, <1>9

LEMMA IOOwned ==
  ASSUME TypeOK, Owned, IOStep
  PROVE  Owned'
<1> USE DEF Owned, clientVars, poolVars, mailVars
<1>1. CASE EpollWait
  <2>1. UNCHANGED <<clientVars, fd, conns, held, left, poolVars, mailVars, posted>>
        /\ events' = Ready /\ io' = "dispatch"
    BY <1>1 DEF EpollWait
  <2>2. FdsMatch' /\ Registered' /\ InHand'
    BY <2>1 DEF FdsMatch, Alive, Tasks, Registered, Gone, InHand
  <2>3. EventsAreCurrent'
    <3>1. /\ \A f \in Ready \cap FdNums : f \in DOMAIN conns /\ Readable(f)
          /\ Listen \in Ready => arriving # <<>>
          /\ EventFd \in Ready => inbox # <<>>
      <4>1. \A f \in DOMAIN conns \ {NoFd} : f # Listen /\ f # EventFd
        BY FdAssumption DEF TypeOK
      <4> QED BY <4>1, FdAssumption DEF Ready
    <3> QED BY <2>1, <3>1 DEF EventsAreCurrent, Readable, Gone
  <2> QED BY <2>2, <2>3
<1>2. CASE HandleNewConnection
  BY <1>2, AcceptOwned
<1>3. CASE AcceptFails
  <2>1. UNCHANGED <<clientVars, fd, io, held, left, poolVars, mailVars, posted>>
        /\ conns' = Inserted(NoFd, NoClient) /\ events' = events \ {Listen}
    BY <1>3 DEF AcceptFails
  <2>2. /\ \A g \in DOMAIN conns' \ {NoFd} : g \in DOMAIN conns
        /\ \A g \in DOMAIN conns : g \in DOMAIN conns' /\ conns'[g] = conns[g]
        /\ Range(conns') \subseteq Range(conns) \cup {NoClient}
        /\ Range(conns) \subseteq Range(conns')
    BY <2>1, InsertedEntries
  <2>3. FdsMatch'
    <3>1. Tasks' = Tasks
      BY <2>1 DEF Tasks
    <3> QED BY <2>1, <2>2, <3>1, FdsKept, AliveBefore
  <2>4. Registered' /\ InHand'
    BY <2>1, <2>2 DEF Registered, Gone, InHand
  <2>5. EventsAreCurrent'
    <3>1. ASSUME NEW g \in events' \cap FdNums PROVE g \in DOMAIN conns' /\ Readable(g)'
      <4>1. g \in DOMAIN conns /\ Readable(g)
        BY <2>1 DEF EventsAreCurrent
      <4> QED BY <2>1, <2>2, <4>1 DEF Readable, Gone
    <3> QED BY <2>1, <3>1 DEF EventsAreCurrent
  <2> QED BY <2>3, <2>4, <2>5
<1>4. ASSUME NEW f \in FdNums, HandleClose(f) \/ HandleReset(f) \/ HandleMessage(f) PROVE Owned'
  BY <1>4, EventOwned
<1>5. CASE AddTask
  <2>1. UNCHANGED <<clientVars, fd, conns, events, left, mailVars, posted, running>>
        /\ io = "push" /\ io' = "dispatch" /\ held' = NoTask
        /\ backlog' = Append(backlog, held) /\ accepted' = accepted \cup {held}
    BY <1>5 DEF AddTask, Pool!Submit
  <2>2. Range(backlog') = Range(backlog) \cup {held}
    <3>1. held \in Requests /\ backlog \in Seq(Requests)
      BY <2>1 DEF InHand, TypeOK, Pool!TypeOK
    <3> QED BY <2>1, <3>1, AppendElements
  <2>3. Tasks' \subseteq Tasks \cup {NoTask}
    BY <2>1, <2>2 DEF Tasks
  <2>4. FdsMatch'
    BY <2>1, <2>3, FdsKept, AliveBefore
  <2>5. Registered' /\ InHand' /\ EventsAreCurrent'
    BY <2>1, <2>2 DEF Registered, Gone, InHand, EventsAreCurrent, Readable
  <2> QED BY <2>4, <2>5
<1>6. CASE TakeFunctors \/ SendsDone \/ EndRound
  <2>1. /\ UNCHANGED <<clientVars, fd, conns, held, poolVars, mailVars, posted>>
        /\ events' \subseteq events /\ io' # "push" /\ (io' = "send" => EventFd \notin events')
    BY <1>6 DEF TakeFunctors, SendsDone, EndRound
  <2> QED BY <2>1 DEF FdsMatch, Alive, Tasks, Registered, Gone, InHand, EventsAreCurrent, Readable
<1>7. CASE Send \/ SendToGone \/ SendDangling
  <2>1. /\ UNCHANGED <<phase, asked, toServer, arriving, fd, conns, events, held, poolVars, posted>>
        /\ io = "send" /\ io' \in {"send", "down"}
    BY <1>7 DEF Send, SendToGone, SendDangling, RunFunctor
  <2> QED BY <2>1 DEF FdsMatch, Alive, Tasks, Registered, Gone, InHand, EventsAreCurrent, Readable
<1> QED BY <1>1, <1>2, <1>3, <1>4, <1>5, <1>6, <1>7 DEF IOStep

LEMMA OwnedStep ==
  ASSUME TypeOK, Owned, [Next]_vars
  PROVE  Owned'
<1>1. CASE UNCHANGED vars
  BY <1>1 DEF vars, clientVars, ioVars, poolVars, mailVars, Owned, FdsMatch, Alive, Tasks,
              Registered, Gone, InHand, EventsAreCurrent, Readable
<1> QED BY <1>1, ClientOwned, IOOwned, WorkerOwned DEF Next

-------------------------------------------------------------------------------
(* A request on its way *)

(* A client that has left while it waited stays so. *)
LEMMA AbandonedStays ==
  ASSUME TypeOK, [Next]_vars, Abandoned
  PROVE  Abandoned'
<1>1. PICK c \in Impatient : phase[c] = "abandoned"
  BY DEF Abandoned
<1>2. c \in Clients
  BY ClientsAssumption
<1>3. phase'[c] = "abandoned"
  <2>1. ASSUME NEW d \in Clients, Connect(d) \/ Ask(d) \/ Answered(d) \/ Leave(d)
        PROVE  phase'[c] = "abandoned"
    BY <1>1, <1>2, <2>1 DEF Connect, Ask, Answered, Leave, TypeOK
  <2>2. CASE IOStep
    BY <1>1, <2>2
       DEF IOStep, EpollWait, HandleNewConnection, AcceptFails, HandleClose, HandleReset,
           HandleMessage, AddTask, TakeFunctors, Send, SendToGone, SendDangling, RunFunctor,
           SendsDone, EndRound, clientVars
  <2>3. ASSUME NEW w \in Workers, WorkerStep(w) PROVE phase' = phase
    BY <2>3 DEF WorkerStep, TakeTask, SendInLoop, ParseOverrun, DropTask, clientVars
  <2>4. CASE UNCHANGED vars
    BY <1>1, <2>4 DEF vars, clientVars
  <2> QED BY <1>1, <2>1, <2>2, <2>3, <2>4 DEF Next
<1> QED BY <1>1, <1>3 DEF Abandoned

(* The client of a request that was added is connected, and while it waits *)
(* _conns keeps its connection.                                            *)
LEMMA WaitingAlive ==
  ASSUME TypeOK, Owned, NEW c \in Clients, phase[c] = "waiting", fd[c] # NoFd
  PROVE  Alive(c) /\ ~Gone(c)
BY DEF Owned, Registered, Alive, Gone

(* The requests in the hands of the server are of known clients. *)
LEMMA RequestsTyped ==
  ASSUME TypeOK, Owned
  PROVE  /\ accepted \subseteq Requests /\ executed \subseteq Requests
         /\ Range(backlog) \subseteq Requests /\ Range(inbox) \subseteq Requests
         /\ \A w \in Workers : running[w] # NoTask => running[w] \in Requests
         /\ held # NoTask => held \in Requests
BY DEF TypeOK, Pool!TypeOK, Range

(* Steps that change nothing a request on its way depends on. *)
LEMMA CarriedKept ==
  ASSUME TypeOK, Owned, Carried, io' # "down",
         UNCHANGED <<asked, toServer, toClient, held, poolVars, mailVars, posted>>,
         \A c \in Clients : phase'[c] = "waiting" <=> phase[c] = "waiting",
         \A c \in Clients : fd[c] # NoFd => fd'[c] # NoFd
  PROVE  Carried'
<1> USE RequestsTyped, RequestParts DEF Carried, poolVars, mailVars, Due
<1>1. OnTheWire'
  BY DEF OnTheWire
<1>2. InThePool'
  <2>1. \A r \in Requests : Due(r) => Due(r)'
    OBVIOUS
  <2> QED BY <2>1 DEF InThePool
<1>3. InTheMail'
  BY DEF InTheMail
<1> QED BY <1>1, <1>2, <1>3

LEMMA AskCarried ==
  ASSUME TypeOK, Owned, Carried, NEW c \in Clients, Ask(c)
  PROVE  Carried'
<1> DEFINE new == <<c, asked[c] + 1>>
<1> USE DEF Carried
<1>1. /\ UNCHANGED <<toClient, fd, io, held, backlog, running, accepted, finished, inbox, executed, posted>>
      /\ phase[c] = "idle" /\ phase'[c] = "waiting" /\ asked'[c] = asked[c] + 1
      /\ new \in Requests
      /\ \A d \in Clients \ {c} : /\ phase'[d] = phase[d] /\ asked'[d] = asked[d]
                                   /\ toServer'[d] = toServer[d]
      /\ toServer'[c] = Append(toServer[c], asked[c] + 1)
      /\ \A d \in Clients : asked[d] \in Nat
  <2>1. asked[c] + 1 \in 0..MaxRequests
    BY BoundsAssumption DEF Ask, TypeOK
  <2> QED BY <2>1 DEF Ask, TypeOK, Requests, ioVars, poolVars, mailVars
<1>2. toServer'[c] = <<asked'[c]>> /\ toClient[c] = <<>>
  BY <1>1, OneElement DEF OnTheWire
<1>3. \A r \in Requests : Due(r) => Due(r)' /\ r[1] # c
  BY <1>1, RequestParts DEF Due
<1>4. \A r \in accepted : r[2] <= asked[r[1]] /\ r # new /\ (Due(r)' => Due(r))
  <2>1. ASSUME NEW r \in accepted
        PROVE  r[2] <= asked[r[1]] /\ r # new /\ (Due(r)' => Due(r))
    <3>1. r[1] \in Clients /\ r[2] \in 1..asked[r[1]] /\ asked[r[1]] \in Nat
      BY <1>1, RequestsTyped, RequestParts DEF InThePool
    <3>2. r # new /\ (r[1] = c => r[2] # asked'[c])
      BY <1>1, <3>1
    <3> QED BY <1>1, <3>1, <3>2 DEF Due
  <2> QED BY <2>1
<1>5. OnTheWire'
  <2>1. new # held
    BY <1>1, <1>3, RequestsTyped, NoTaskAssumption DEF InThePool
  <2> QED BY <1>1, <1>2, <1>4, <2>1 DEF OnTheWire
<1>6. InThePool'
  <2>1. ASSUME NEW r \in accepted PROVE r[2] \in 1..asked'[r[1]]
    <3>1. r[1] \in Clients /\ r[2] \in 1..asked[r[1]]
      BY RequestsTyped, RequestParts DEF InThePool
    <3>2. asked[r[1]] \in Nat /\ (asked'[r[1]] = asked[r[1]] \/ asked'[r[1]] = asked[r[1]] + 1)
      BY <1>1, <3>1
    <3> QED BY <3>1, <3>2
  <2> QED BY <1>1, <1>3, <2>1, RequestsTyped DEF InThePool
<1>7. InTheMail'
  BY <1>1, <1>3, <1>4, RequestsTyped DEF InTheMail
<1> QED BY <1>1, <1>5, <1>6, <1>7

LEMMA AnsweredCarried ==
  ASSUME TypeOK, Owned, Carried, NEW c \in Clients, Answered(c)
  PROVE  Carried'
<1> DEFINE old == <<c, asked[c]>>
<1> USE DEF Carried
<1>1. /\ UNCHANGED <<asked, toServer, fd, io, held, backlog, running, accepted, finished, inbox, executed, posted>>
      /\ phase[c] = "waiting" /\ phase'[c] = "idle" /\ toClient[c] # <<>>
      /\ toClient'[c] = Tail(toClient[c])
      /\ \A d \in Clients \ {c} : phase'[d] = phase[d] /\ toClient'[d] = toClient[d]
  BY DEF Answered, TypeOK, ioVars, poolVars, mailVars
<1>2. toClient[c] = <<old>> /\ toClient'[c] = <<>> /\ old \in executed /\ old \in accepted
  <2>1. toClient[c] = <<old>> /\ old \in executed
    BY <1>1 DEF OnTheWire
  <2> QED BY <1>1, <2>1, OneElement DEF InTheMail
<1>3. \A r \in Requests : Due(r) /\ r # old => Due(r)' /\ r[1] # c
  BY <1>1, RequestParts DEF Due
<1>4. \A r \in Requests : Due(r)' => Due(r) /\ r[1] # c
  BY <1>1, RequestParts DEF Due
<1>5. OnTheWire'
  BY <1>1, <1>2 DEF OnTheWire
<1>6. InThePool'
  BY <1>1, <1>2, <1>3, RequestsTyped DEF InThePool
<1>7. InTheMail'
  BY <1>1, <1>2, <1>3, <1>4, RequestsTyped, RequestParts DEF InTheMail
<1> QED BY <1>1, <1>5, <1>6, <1>7

LEMMA ClientCarried ==
  ASSUME TypeOK, Owned, Carried, ~Abandoned',
         NEW c \in Clients, Connect(c) \/ Ask(c) \/ Answered(c) \/ Leave(c)
  PROVE  Carried'
<1>1. CASE Connect(c)
  BY <1>1, CarriedKept DEF Connect, ioVars, TypeOK, Carried
<1>2. CASE Leave(c)
  <2>1. phase[c] # "waiting"
    BY <1>2, ClientsAssumption DEF Leave, Abandoned, TypeOK
  <2> QED BY <1>2, <2>1, CarriedKept DEF Leave, ioVars, TypeOK, Carried
<1> QED BY <1>1, <1>2, AskCarried, AnsweredCarried

(* A client that waits has nothing left unread, so that its connection is  *)
(* not reset while it waits.                                               *)
LEMMA ReadCarried ==
  ASSUME TypeOK, Owned, Carried, NEW f \in FdNums, HandleReset(f) \/ HandleMessage(f)
  PROVE  Carried'
<1> DEFINE c == conns[f]
           r == <<c, asked[c]>>
<1> USE DEF Carried
<1>1. c \in Clients /\ fd[c] = f /\ f # NoFd
  <2>1. f \in DOMAIN conns \ {NoFd}
    BY FdAssumption DEF HandleReset, HandleMessage, NoFd
  <2> QED BY <2>1 DEF Owned, FdsMatch
<1>2. HandleMessage(f)
  BY <1>1 DEF HandleReset, Reset, Gone, OnTheWire
<1>3. toServer[c] = <<asked[c]>> /\ phase[c] = "waiting" /\ r \notin accepted
  BY <1>1, <1>2 DEF HandleMessage, OnTheWire
<1>4. /\ UNCHANGED <<phase, asked, toClient, fd, backlog, running, accepted, finished, inbox, executed, posted>>
      /\ io' = "push" /\ held' = r /\ toServer'[c] = <<>>
      /\ \A d \in Clients \ {c} : toServer'[d] = toServer[d]
  <2>1. Head(toServer[c]) = asked[c] /\ Tail(toServer[c]) = <<>>
    BY <1>3, OneElement
  <2> QED BY <1>1, <1>2, <2>1 DEF HandleMessage, TypeOK, poolVars, mailVars
<1>5. OnTheWire'
  BY <1>3, <1>4 DEF OnTheWire
<1>6. InThePool'
  BY <1>1, <1>3, <1>4 DEF InThePool, Due
<1>7. InTheMail'
  BY <1>4 DEF InTheMail, Due
<1> QED BY <1>4, <1>5, <1>6, <1>7

LEMMA AddCarried ==
  ASSUME TypeOK, Owned, Carried, AddTask
  PROVE  Carried'
<1> USE DEF Carried
<1>1. /\ UNCHANGED <<phase, asked, toServer, toClient, fd, running, inbox, executed, posted>>
      /\ held # NoTask /\ held \in Requests /\ held' = NoTask /\ io' = "dispatch"
      /\ backlog' = Append(backlog, held) /\ accepted' = accepted \cup {held}
  BY RequestsTyped DEF AddTask, Pool!Submit, Owned, InHand, clientVars, mailVars
<1>2. Range(backlog) \subseteq accepted /\ \A w \in Workers : running[w] # NoTask => running[w] \in accepted
  BY DEF Owned, InHand
<1>3. /\ Due(held) /\ held \notin accepted /\ held \notin Range(inbox) \cup executed
      /\ held[2] \in 1..asked[held[1]] /\ fd[held[1]] # NoFd
  <2>1. held[2] # 0 /\ held[2] \in Nat /\ asked[held[1]] = held[2]
    BY <1>1, RequestParts DEF InThePool, Due, OnTheWire
  <2> QED BY <1>1, <2>1 DEF InThePool, InTheMail
<1>4. Range(backlog') = Range(backlog) \cup {held} /\ IsInjective(backlog')
  <2>1. backlog \in Seq(Requests) /\ held \notin Range(backlog) /\ IsInjective(backlog)
    BY <1>2, <1>3 DEF TypeOK, Pool!TypeOK, InThePool
  <2> QED BY <1>1, <2>1, AppendElements
<1>5. OnTheWire'
  BY <1>1, RequestParts, NoTaskAssumption DEF OnTheWire, TypeOK
<1>6. InThePool'
  <2>1. \A r : Due(r)' <=> Due(r)
    BY <1>1 DEF Due
  <2> QED BY <1>1, <1>2, <1>3, <1>4, <2>1 DEF InThePool
<1>7. InTheMail'
  BY <1>1 DEF InTheMail, Due
<1> QED BY <1>1, <1>5, <1>6, <1>7

(* The functor at the head of the inbox is of a client that waits for it:  *)
(* it is sent, and nothing else is in the client's connection.             *)
LEMMA SendCarried ==
  ASSUME TypeOK, Owned, Carried, Send \/ SendToGone \/ SendDangling
  PROVE  Carried'
<1> DEFINE r == Head(inbox)
           c == r[1]
<1> USE DEF Carried
<1>1. inbox # <<>> /\ inbox \in Seq(Requests)
  BY DEF Send, SendToGone, SendDangling, RunFunctor, Mail!Deliver, TypeOK
<1>2. /\ r \in Range(inbox) /\ r \in Requests /\ r \notin Range(Tail(inbox))
      /\ Range(inbox) = Range(Tail(inbox)) \cup {r} /\ IsInjective(Tail(inbox))
  BY <1>1, TailElements, RequestsTyped DEF InTheMail
<1>3. Due(r) /\ r \in accepted \ executed /\ c \in Clients /\ r = <<c, asked[c]>>
  BY <1>2, RequestParts DEF InTheMail, Due
<1>4. Alive(c) /\ ~Gone(c)
  BY <1>3, WaitingAlive DEF InThePool, Due
<1>5. Send
  BY <1>4 DEF SendToGone, SendDangling
<1>6. toClient[c] = <<>>
  BY <1>3 DEF OnTheWire
<1>7. /\ UNCHANGED <<phase, asked, toServer, fd, io, held, backlog, running, accepted, finished, posted>>
      /\ inbox' = Tail(inbox) /\ executed' = executed \cup {r}
      /\ toClient'[c] = <<r>>
      /\ \A d \in Clients \ {c} : toClient'[d] = toClient[d]
  <2>1. Append(toClient[c], r) = <<r>>
    BY <1>6, OneElement
  <2> QED BY <1>3, <1>5, <2>1 DEF Send, RunFunctor, Mail!Deliver, TypeOK, poolVars
<1>8. Range(inbox') \cup executed' = Range(inbox) \cup executed
  BY <1>2, <1>7
<1>9. OnTheWire'
  BY <1>3, <1>7 DEF OnTheWire, Due
<1>10. InThePool'
  BY <1>7, <1>8 DEF InThePool, Due
<1>11. InTheMail'
  <2>1. \A q : Due(q)' <=> Due(q)
    BY <1>7 DEF Due
  <2>2. ASSUME NEW q \in executed', Due(q) PROVE toClient'[q[1]] # <<>>
    <3>1. q[1] \in Clients
      BY <1>2, <1>7, RequestsTyped, RequestParts
    <3>2. CASE q[1] = c
      BY <1>7, <3>2
    <3>3. CASE q[1] # c
      BY <1>7, <2>2, <3>1, <3>3 DEF InTheMail
    <3> QED BY <3>2, <3>3
  <2>3. \A q \in Range(inbox') : Due(q) /\ q \in accepted \ executed'
    BY <1>2, <1>7 DEF InTheMail
  <2> QED BY <1>2, <1>3, <1>7, <2>1, <2>2, <2>3 DEF InTheMail
<1> QED BY <1>7, <1>9, <1>10, <1>11

LEMMA IOCarried ==
  ASSUME TypeOK, Owned, Carried, IOStep
  PROVE  Carried'
<1>1. CASE EpollWait \/ AcceptFails \/ TakeFunctors \/ SendsDone \/ EndRound
           \/ \E f \in FdNums : HandleClose(f)
  BY <1>1, CarriedKept
     DEF EpollWait, AcceptFails, TakeFunctors, SendsDone, EndRound, HandleClose, clientVars
<1>2. CASE HandleNewConnection
  <2>1. Lowest(FreeFds) # NoFd
    BY <1>2, LowestFree, FdAssumption DEF HandleNewConnection, FreeFds, NoFd
  <2>2. \A c \in Clients : fd[c] # NoFd => fd'[c] # NoFd
    BY <1>2, <2>1 DEF HandleNewConnection, TypeOK
  <2> QED BY <1>2, <2>2, CarriedKept DEF HandleNewConnection
<1>3. ASSUME NEW f \in FdNums, HandleReset(f) \/ HandleMessage(f) PROVE Carried'
  BY <1>3, ReadCarried
<1> QED BY <1>1, <1>2, <1>3, AddCarried, SendCarried DEF IOStep

LEMMA TakeCarried ==
  ASSUME TypeOK, Owned, Carried, NEW w \in Workers, TakeTask(w), io # "down"
  PROVE  Carried'
<1> DEFINE r == Head(backlog)
<1> USE DEF Carried
<1>1. /\ UNCHANGED <<phase, asked, toServer, toClient, fd, io, held, accepted, finished, inbox, executed, posted>>
      /\ backlog # <<>> /\ backlog' = Tail(backlog) /\ running[w] = NoTask
      /\ running'[w] = r /\ \A v \in Workers \ {w} : running'[v] = running[v]
  BY DEF TakeTask, Pool!Take, TypeOK, Pool!TypeOK, clientVars, ioVars, mailVars
<1>2. /\ r \in Range(backlog) /\ r \notin Range(backlog') /\ IsInjective(backlog')
      /\ Range(backlog) = Range(backlog') \cup {r}
  <2>1. backlog \in Seq(Requests)
    BY DEF TypeOK, Pool!TypeOK
  <2> QED BY <1>1, <2>1, TailElements DEF InThePool
<1>3. Due(r) /\ r \notin Range(inbox) \cup executed
  BY <1>2 DEF InThePool
<1>4. ASSUME NEW v \in Workers \ {w} PROVE running[v] # r
  <2>1. r # NoTask
    BY <1>2, RequestsTyped, NoTaskAssumption
  <2> QED BY <1>2, <1>3, <2>1 DEF InThePool
<1>5. OnTheWire' /\ InTheMail'
  BY <1>1 DEF OnTheWire, InTheMail, Due
<1>6. InThePool'
  <2>1. \A q : Due(q)' <=> Due(q)
    BY <1>1 DEF Due
  <2>2. w \notin posted /\ posted \subseteq Workers
    BY <1>1 DEF Owned, InHand, TypeOK
  <2>3. ASSUME NEW v \in Workers \ posted, running'[v] # NoTask
        PROVE  /\ Due(running'[v])
               /\ running'[v] \notin Range(backlog') \cup Range(inbox) \cup executed
               /\ \A u \in Workers \ {v} : running'[u] # running'[v]
    <3>1. CASE v = w
      BY <1>1, <1>2, <1>3, <1>4, <3>1
    <3>2. CASE v # w
      BY <1>1, <1>2, <1>4, <2>3, <3>2 DEF InThePool
    <3> QED BY <3>1, <3>2
  <2> QED BY <1>1, <1>2, <2>1, <2>2, <2>3 DEF InThePool
<1> QED BY <1>1, <1>5, <1>6

LEMMA PostCarried ==
  ASSUME TypeOK, Owned, Carried, NEW w \in Workers, SendInLoop(w)
  PROVE  Carried'
<1> DEFINE r == running[w]
<1> USE DEF Carried
<1>1. /\ UNCHANGED <<phase, asked, toServer, toClient, fd, io, held, backlog, running, accepted, finished, executed>>
      /\ r # NoTask /\ w \notin posted /\ posted' = posted \cup {w}
      /\ inbox' = Append(inbox, r)
  BY DEF SendInLoop, Mail!Post, clientVars, ioVars, poolVars
<1>2. /\ Due(r) /\ r \in accepted \ executed /\ r \notin Range(backlog)
      /\ r \notin Range(inbox) /\ \A v \in Workers \ {w} : running[v] # r
  BY <1>1 DEF InThePool, Owned, InHand
<1>3. Range(inbox') = Range(inbox) \cup {r} /\ IsInjective(inbox')
  <2>1. inbox \in Seq(Requests) /\ r \in Requests /\ IsInjective(inbox)
    BY <1>1, RequestsTyped DEF TypeOK, InTheMail
  <2> QED BY <1>1, <1>2, <2>1, AppendElements
<1>4. OnTheWire'
  BY <1>1 DEF OnTheWire
<1>5. InThePool'
  BY <1>1, <1>2, <1>3 DEF InThePool, Due
<1>6. InTheMail'
  BY <1>1, <1>2, <1>3 DEF InTheMail, Due
<1> QED BY <1>1, <1>4, <1>5, <1>6

LEMMA WorkerCarried ==
  ASSUME TypeOK, Owned, Carried, NEW w \in Workers, WorkerStep(w)
  PROVE  Carried'
<1>1. CASE TakeTask(w)
  BY <1>1, TakeCarried DEF WorkerStep
<1>2. CASE SendInLoop(w)
  BY <1>2, PostCarried
<1>3. ~ParseOverrun(w)
  <2>1. running[w] # NoTask => running[w] \in accepted
    BY DEF Owned, InHand
  <2> QED BY <2>1 DEF ParseOverrun, Carried, InThePool
<1>4. CASE DropTask(w)
  <2>1. /\ UNCHANGED <<phase, asked, toServer, toClient, fd, io, held, backlog, accepted, inbox, executed>>
        /\ w \in posted /\ posted' = posted \ {w} /\ running'[w] = NoTask
        /\ \A v \in Workers \ {w} : running'[v] = running[v]
    BY <1>4 DEF DropTask, Pool!Finish, TypeOK, Pool!TypeOK, clientVars, ioVars, mailVars
  <2>2. OnTheWire' /\ InTheMail'
    BY <2>1 DEF Carried, OnTheWire, InTheMail, Due
  <2>3. InThePool'
    <3>1. (\A q : Due(q)' <=> Due(q)) /\ posted \subseteq Workers
      BY <2>1 DEF Due, TypeOK
    <3>2. ASSUME NEW v \in Workers \ posted', running'[v] # NoTask
          PROVE  /\ v # w /\ v \in Workers \ posted
                 /\ running'[v] = running[v]
                 /\ \A u \in Workers \ {v} : running'[u] # running'[v]
      <4>1. v # w /\ v \in Workers \ posted /\ running'[v] = running[v]
        BY <2>1, <3>2
      <4>2. \A u \in Workers \ {v} : running[u] # running[v]
        BY <3>2, <4>1 DEF Carried, InThePool
      <4> QED BY <2>1, <3>2, <4>1, <4>2
    <3>3. \A v \in Workers \ posted' : running'[v] # NoTask =>
             /\ Due(running'[v])
             /\ running'[v] \notin Range(backlog') \cup Range(inbox') \cup executed'
      BY <2>1, <3>2 DEF Carried, InThePool
    <3> QED BY <2>1, <3>1, <3>2, <3>3 DEF Carried, InThePool
  <2> QED BY <2>1, <2>2, <2>3 DEF Carried
<1> QED BY <1>1, <1>2, <1>3, <1>4 DEF WorkerStep

LEMMA CarriedStep ==
  ASSUME TypeOK, Owned, Carried, ~Abandoned', [Next]_vars
  PROVE  Carried'
<1>1. CASE UNCHANGED vars
  BY <1>1, CarriedKept DEF vars, clientVars, ioVars, Carried
<1> QED BY <1>1, ClientCarried, IOCarried, WorkerCarried DEF Next

-------------------------------------------------------------------------------
(* The invariant and what follows from it *)

LEMMA ServerInvariant == Spec => []ServerInv
<1>1. ServerInv /\ [Next]_vars => ServerInv'
  BY TypedStep, OwnedStep, CarriedStep, AbandonedStays DEF ServerInv
<1> QED BY <1>1, InitInv, PTL DEF Spec

(* Every variable keeps its type. *)
THEOREM TypeCorrect == Spec => []TypeOK
<1>1. ServerInv => TypeOK
  BY DEF ServerInv
<1> QED BY <1>1, ServerInvariant, PTL

(* No descriptor that is handed out is a key of _conns already. *)
THEOREM DescriptorsOwned == Spec => []ConnsMatchFds
<1>1. ServerInv => ConnsMatchFds
  <2> SUFFICES ASSUME ServerInv PROVE ConnsMatchFds
    OBVIOUS
  <2>1. FdsMatch
    BY DEF ServerInv, Owned
  <2>2. ASSUME NEW f \in DOMAIN conns PROVE f \notin FreeFds
    <3>1. CASE f = NoFd
      BY <3>1, FdAssumption DEF FreeFds, NoFd
    <3>2. CASE f # NoFd
      BY <2>1, <3>2 DEF FdsMatch, FreeFds, OpenFds, Alive, Range
    <3> QED BY <3>1, <3>2
  <2> QED BY <2>1, <2>2 DEF FdsMatch, ConnsMatchFds
<1> QED BY <1>1, ServerInvariant, PTL

(* No event of a round is stale when its turn comes. *)
THEOREM EventsStayCurrent == Spec => []EventsAreCurrent
<1>1. ServerInv => EventsAreCurrent
  BY DEF ServerInv, Owned
<1> QED BY <1>1, ServerInvariant, PTL

(* As long as every client waits for its answer, the plain pointer in a    *)
(* functor is to a connection that exists.                                 *)
THEOREM PointersValid == Spec => []FunctorTargetAlive
<1>1. ServerInv => FunctorTargetAlive
  <2> SUFFICES ASSUME ServerInv, ~Abandoned, NEW i \in DOMAIN inbox PROVE Alive(inbox[i][1])
    BY DEF FunctorTargetAlive
  <2>1. inbox[i] \in Range(inbox) /\ inbox[i] \in Requests
    BY RequestsTyped DEF Range, ServerInv
  <2>2. inbox[i] \in accepted /\ Due(inbox[i])
    BY <2>1 DEF ServerInv, Carried, InTheMail
  <2> QED BY <2>1, <2>2, WaitingAlive, RequestParts DEF ServerInv, Carried, InThePool, Due
<1> QED BY <1>1, ServerInvariant, PTL

(* Only a client that left while it waited brings the server down or makes *)
(* an answer go astray.                                                    *)
THEOREM PatienceSuffices == Spec => []HarmNeedsAbandonment
<1>1. ServerInv => HarmNeedsAbandonment
  <2> SUFFICES ASSUME ServerInv, ~Abandoned PROVE io # "down" /\ AnswersMatch
    BY DEF HarmNeedsAbandonment
  <2>1. OnTheWire /\ io # "down"
    BY DEF ServerInv, Carried
  <2>2. ASSUME NEW c \in Clients, NEW i \in DOMAIN toClient[c]
        PROVE  toClient[c][i] = <<c, asked[c]>> /\ phase[c] = "waiting"
    <3>1. toClient[c] # <<>>
      BY <2>2
    <3>2. toClient[c] = <<<<c, asked[c]>>>> /\ phase[c] = "waiting"
      BY <2>1, <3>1 DEF OnTheWire
    <3> QED BY <2>2, <3>2
  <2> QED BY <2>1, <2>2 DEF AnswersMatch
<1> QED BY <1>1, ServerInvariant, PTL
===============================================================================
