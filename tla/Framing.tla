-------------------------------- MODULE Framing --------------------------------
(***************************************************************************)
(* One connection, byte by byte: the request a client packs, SocketIO's    *)
(* readline, which the IO thread ends at the first newline, and what       *)
(* MyTask::parse makes of the line.  A request is four bytes of length,    *)
(* four of operation, the content and a newline.                           *)
(*                                                                         *)
(* Server has the connections, the queue and the way back; here a line is  *)
(* a task at once, and any of the tasks may be processed next.             *)
(***************************************************************************)
EXTENDS Integers, SequencesExt

CONSTANTS LineMax,     \* the size of receive's buffer, 65536
          ParseMax,    \* the size of parse's two buffers, 4096
          Lengths,     \* of the contents a client asks with
          MaxRequests  \* bound: requests of the client

HeaderSize == 8
MaxInt == 2147483647
ASSUME SizesAssumption ==
  /\ LineMax \in Nat /\ LineMax <= MaxInt
  /\ ParseMax \in Nat /\ ParseMax < LineMax - 2
  /\ \A n \in Lengths : n \in Nat /\ HeaderSize + n <= ParseMax

Newline == 10
Letter == 97
Zeros(n) == [i \in 1..n |-> 0]

VARIABLES
  wire,    \* the bytes sent and not received
  peer,    \* of the connection: "open", "closed", or "reset" and not yet told
  phase,   \* of the client
  io,      \* where the IO thread is with this connection; "down" with no process
  got,     \* buf, as far as readline has filled it
  tasks,   \* the requests added to the thread pool
  unread,  \* answers the client has not received
  asked,   \* history: what the client asked for
  served,  \* history: what was answered
  broken   \* history: the connection was reset

vars == <<wire, peer, phase, io, got, tasks, unread, asked, served, broken>>

Init ==
  /\ wire = <<>> /\ peer = "open" /\ phase = "idle"
  /\ io = "wait" /\ got = <<>>
  /\ tasks = <<>> /\ unread = 0
  /\ asked = <<>> /\ served = <<>> /\ broken = FALSE

-------------------------------------------------------------------------------
(* The client *)

(* Four bytes, the lowest first. *)
Bytes(n) == <<n % 256, (n \div 256) % 256, (n \div 65536) % 256, (n \div 16777216) % 256>>
Content(n) == [i \in 1..n |-> Letter]
Query(op, content) == [op |-> op, content |-> content]
Header(q) == Bytes(Len(q.content)) \o Bytes(q.op)

(* Mutant of Pack: the newline at the end is left out. *)
PackNoNewline(q) == Header(q) \o q.content

Pack(q) == Header(q) \o q.content \o <<Newline>>

Request(op, n) ==
  /\ phase = "idle" /\ peer = "open" /\ Len(asked) < MaxRequests
  /\ op = 3 => n = 0
  /\ LET q == Query(op, Content(n))
     IN wire' = wire \o Pack(q) /\ asked' = Append(asked, q)
  /\ phase' = "waiting"
  /\ UNCHANGED <<peer, io, got, tasks, unread, served, broken>>

Answered ==
  /\ phase = "waiting" /\ unread > 0
  /\ phase' = "idle"
  /\ unread' \in 0..(unread - 1)
  /\ UNCHANGED <<wire, peer, io, got, tasks, asked, served, broken>>

(* Selection 4, or the end of the client at any moment: what it sent stays. *)
Close ==
  /\ peer = "open"
  /\ peer' = "closed" /\ phase' = "gone"
  /\ UNCHANGED <<wire, io, got, tasks, unread, asked, served, broken>>

(* The connection breaks, and with it what had not arrived is lost. *)
Reset ==
  /\ peer = "open"
  /\ peer' = "reset" /\ phase' = "gone" /\ broken' = TRUE
  /\ \E n \in 0..Len(wire) : wire' = SubSeq(wire, 1, n)
  /\ UNCHANGED <<io, got, tasks, unread, asked, served>>

-------------------------------------------------------------------------------
(* The IO thread: handleMessage *)

(* isClosed peeks: bytes, or an error, which the peek uses up, are not the *)
(* end of the connection.                                                  *)
HandleMessage ==
  /\ io = "wait"
  /\ \/ wire # <<>> /\ io' = "readline" /\ UNCHANGED peer
     \/ wire = <<>> /\ peer = "reset" /\ io' = "readline" /\ peer' = "closed"
     \/ wire = <<>> /\ peer = "closed" /\ io' = "closed" /\ UNCHANGED peer
  /\ got' = <<>>
  /\ UNCHANGED <<wire, phase, tasks, unread, asked, served, broken>>

Room == LineMax - 1 - Len(got)

(* Mutant of Peek: bytes without a newline are peeked at and not received. *)
PeekOnly ==
  /\ io = "readline" /\ wire # <<>> /\ Room > 0
  /\ \E r \in 1..Len(wire) :
        LET chunk == SubSeq(wire, 1, r)
            end == SelectInSeq(chunk, LAMBDA b : b = Newline)
        IN /\ r <= Room
           /\ IF end = 0
              THEN got' = got \o chunk /\ UNCHANGED <<wire, io, tasks>>
              ELSE /\ tasks' = Append(tasks, got \o SubSeq(wire, 1, end - 1))
                   /\ wire' = SubSeq(wire, end + 1, Len(wire))
                   /\ io' = "wait" /\ UNCHANGED got
  /\ UNCHANGED <<peer, phase, unread, asked, served, broken>>

(* One turn of readline: some of the bytes have arrived, and are received  *)
(* up to the newline, or all of them.  The task drops the newline.         *)
Peek ==
  /\ io = "readline" /\ wire # <<>> /\ Room > 0
  /\ \E r \in 1..Len(wire) :
        LET chunk == SubSeq(wire, 1, r)
            end == SelectInSeq(chunk, LAMBDA b : b = Newline)
        IN /\ r <= Room
           /\ IF end = 0
              THEN /\ got' = got \o chunk
                   /\ wire' = SubSeq(wire, r + 1, Len(wire))
                   /\ UNCHANGED <<io, tasks>>
              ELSE /\ tasks' = Append(tasks, got \o SubSeq(wire, 1, end - 1))
                   /\ wire' = SubSeq(wire, end + 1, Len(wire))
                   /\ io' = "wait" /\ UNCHANGED got
  /\ UNCHANGED <<peer, phase, unread, asked, served, broken>>

(* The end, an error or a full buffer: readline returns LineMax - 1 in any *)
(* case, the rest of which is zero, and the task drops the last of them.   *)
GiveUp ==
  /\ io = "readline"
  /\ Room = 0 \/ (wire = <<>> /\ peer # "open")
  /\ tasks' = Append(tasks, SubSeq(got \o Zeros(Room), 1, LineMax - 2))
  /\ peer' = IF Room > 0 THEN "closed" ELSE peer
  /\ io' = "wait"
  /\ UNCHANGED <<wire, phase, got, unread, asked, served, broken>>

-------------------------------------------------------------------------------
(* The workers: MyTask::parse and process *)

(* The bytes of request, zero where there are none; four of them as an int. *)
Byte(request, i) == IF i <= Len(request) THEN request[i] ELSE 0
IntAt(request, i) ==
  Byte(request, i) + 256 * Byte(request, i + 1) + 65536 * Byte(request, i + 2)
    + 16777216 * (Byte(request, i + 3) - (IF Byte(request, i + 3) < 128 THEN 0 ELSE 256))

MsgLen(request) == IntAt(request, 1)

(* The request is copied to one buffer and msgLen bytes of it to another.  *)
(* Reading past the first alone, by at most a header, counts as well.      *)
Overruns(request) == Len(request) > ParseMax \/ HeaderSize + MsgLen(request) > ParseMax

(* msgContent is a C string: it ends at the first zero. *)
MsgContent(request) ==
  LET bytes == [i \in 1..MsgLen(request) |-> Byte(request, HeaderSize + i)]
      zero == SelectInSeq(bytes, LAMBDA b : b = 0)
  IN IF zero = 0 THEN bytes ELSE SubSeq(bytes, 1, zero - 1)

(* Mutant of ServedAs: the last test of process is a comparison. *)
ServedAsCompared(op) == op

(* operatorId = 4, in the place of a comparison: anything else is served so. *)
ServedAs(op) == IF op \in 1..3 THEN op ELSE 4

(* The stack is overwritten from the buffer up, the return address first.  *)
Process(i) ==
  /\ io # "down"
  /\ tasks' = RemoveAt(tasks, i)
  /\ IF Overruns(tasks[i])
     THEN io' = "down" /\ UNCHANGED <<unread, served>>
     ELSE /\ served' = Append(served, Query(ServedAs(IntAt(tasks[i], 5)), MsgContent(tasks[i])))
          /\ unread' = unread + 1
          /\ UNCHANGED io
  /\ UNCHANGED <<wire, peer, phase, got, asked, broken>>

-------------------------------------------------------------------------------
Next ==
  \/ \E op \in 1..3, n \in Lengths : Request(op, n)
  \/ Answered \/ Close \/ Reset
  \/ HandleMessage \/ Peek \/ GiveUp
  \/ \E i \in DOMAIN tasks : Process(i)

Spec == Init /\ [][Next]_vars

-------------------------------------------------------------------------------
Octets == 0..255

(* Nothing is put past the end of receive's buffer, whose last byte is the *)
(* terminator, and what is served is one of the four operations.           *)
TypeOK ==
  /\ wire \in Seq(Octets) /\ got \in Seq(Octets) /\ Len(got) < LineMax
  /\ \A i \in DOMAIN tasks : tasks[i] \in Seq(Octets) /\ Len(tasks[i]) < LineMax - 1
  /\ peer \in {"open", "closed", "reset"} /\ phase \in {"idle", "waiting", "gone"}
  /\ io \in {"wait", "readline", "closed", "down"}
  /\ unread \in Nat /\ broken \in BOOLEAN
  /\ \A i \in DOMAIN asked : asked[i].op \in 1..3
  /\ \A i \in DOMAIN served : served[i].op \in 1..4 /\ served[i].content \in Seq(Octets)

AsAsked == io # "down" /\ IsPrefix(served, asked)

(* Unless the connection is reset, every request is served as what the     *)
(* client asked, in its order, and the process goes on.  The client's own  *)
(* parse() says that what pack() made can be read back; but a content of   *)
(* ten bytes has a newline for its length.                                 *)
ServedAsAsked == broken \/ AsAsked

(* Nothing but such a length, or a connection that is reset, is served     *)
(* wrongly or brings the server down: not how the bytes arrive in pieces,  *)
(* and not a client that closes, or ends, with its request under way.      *)
NewlineInHeader == \E i \in DOMAIN asked : Contains(Header(asked[i]), Newline)

MisreadNeedsNewlineOrReset == ~AsAsked => NewlineInHeader \/ broken

(* The IO thread, which has all connections to serve, is never kept in the *)
(* recv of readline by a client that sends whole requests: whatever was    *)
(* read before, what is left ends in a newline.                            *)
ReadlineNeverBlocks ==
  io = "readline" => wire # <<>> \/ peer # "open" \/ Room = 0
================================================================================
