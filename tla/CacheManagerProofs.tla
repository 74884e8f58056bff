-------------------------- MODULE CacheManagerProofs --------------------------
(***************************************************************************)
(* What holds of CacheManager for any number of workers, keys and queries  *)
(* and caches of any capacity: what the flags guarantee, in which what get,*)
(* put and the updates do to the lists plays no part; what may come into a *)
(* list or the file; and what a quiet round does.                          *)
(***************************************************************************)
EXTENDS CacheManager, DataLemmas

(* The variables the flags are about. *)
FlagTypes ==
  /\ pc \in [Workers -> {"idle", "look", "compute", "store", "reply"}]
  /\ updating \in [Caches -> BOOLEAN]
  /\ target \in [Workers -> Caches] /\ flagRead \in [Workers -> BOOLEAN]
  /\ timer \in {"wait", "raise", "update", "lower", "write"} /\ turn \in Caches

(* While the timer thread is in a turn, it is not that of cache 0, whose   *)
(* flag is up together with that of the turn's cache and no other.         *)
FlagsFollowTurn ==
  /\ timer \in {"raise", "update", "lower"} => turn # 0
  /\ \A i \in Caches : updating[i] <=> timer \in {"update", "lower"} /\ i \in {0, turn}

(* A worker is at its own cache or at its spare one, by what it has read. *)
TargetFollowsFlag ==
  \A w \in Workers :
     pc[w] # "idle" => target[w] = IF flagRead[w] THEN w + N ELSE w

FlagInv == FlagTypes /\ FlagsFollowTurn /\ TargetFollowsFlag

LEMMA InitFlags == Init => FlagInv
BY NAssumption
   DEF Init, FlagInv, FlagTypes, FlagsFollowTurn, TargetFollowsFlag, Caches, Workers

(* A worker's step changes no flag, and chooses a cache by the flag. *)
LEMMA WorkerFlags ==
  ASSUME FlagInv, NEW w \in Workers, WorkerStep(w)
  PROVE  FlagInv'
<1> USE NAssumption DEF FlagInv, FlagTypes, TargetFollowsFlag, Caches, Workers
<1>1. FlagsFollowTurn'
  BY DEF FlagsFollowTurn, WorkerStep, Begin, Look, Compute, Store, Reply, timerVars, fileVars
<1>2. ASSUME NEW key \in Keys, Begin(w, key) PROVE FlagInv'
  <2>1. w \in Caches /\ w + N \in Caches
    OBVIOUS
  <2>2. FlagTypes'
    BY <1>2, <2>1 DEF Begin, Spare, timerVars, fileVars
  <2>3. TargetFollowsFlag'
    BY <1>2, <2>1 DEF Begin, Spare
  <2>4. QED
    BY <1>1, <2>2, <2>3
<1>3. CASE Look(w) \/ Compute(w) \/ Store(w)
  BY <1>1, <1>3 DEF Look, Compute, Store, timerVars, fileVars
<1>4. CASE Reply(w)
  BY <1>1, <1>4 DEF Reply, timerVars, fileVars
<1>5. QED
  BY <1>2, <1>3, <1>4 DEF WorkerStep

(* The timer thread raises the two flags of its turn, and lowers them      *)
(* before the next.                                                        *)
LEMMA TimerFlags ==
  ASSUME FlagInv, TimerStep
  PROVE  FlagInv'
<1> USE NAssumption DEF FlagInv, FlagTypes, FlagsFollowTurn, Caches
<1>1. TargetFollowsFlag'
  BY DEF TargetFollowsFlag, TimerStep, RoundBegins, RaiseFlags, Merge, Copy,
         LowerFlags, WriteFile, workerVars
<1>2. CASE RoundBegins
  BY <1>1, <1>2 DEF RoundBegins, workerVars
<1>3. CASE RaiseFlags
  BY <1>1, <1>3 DEF RaiseFlags, SetFlags, workerVars
<1>4. CASE Merge \/ Copy
  BY <1>1, <1>4 DEF Merge, Copy, workerVars
<1>5. CASE LowerFlags
  <2>1. timer' \in {"wait", "raise", "write"} /\ turn' \in Caches
        /\ (timer' = "raise" => turn' # 0)
    BY <1>5 DEF LowerFlags
  <2>2. updating' = [updating EXCEPT ![0] = FALSE, ![turn] = FALSE]
    BY <1>5 DEF LowerFlags, SetFlags
  <2>3. \A i \in Caches : ~updating'[i]
    BY <1>5, <2>2 DEF LowerFlags
  <2>4. FlagTypes'
    BY <1>5, <2>1, <2>2 DEF LowerFlags, workerVars
  <2>5. QED
    BY <1>1, <2>1, <2>3, <2>4
<1>6. CASE WriteFile
  BY <1>1, <1>6 DEF WriteFile, workerVars
<1>7. QED
  BY <1>2, <1>3, <1>4, <1>5, <1>6 DEF TimerStep

LEMMA RestartFlags ==
  ASSUME FlagInv, Restart
  PROVE  FlagInv'
BY NAssumption
   DEF FlagInv, FlagTypes, FlagsFollowTurn, TargetFollowsFlag, Restart, Caches, Workers

LEMMA FlagStep == FlagInv /\ [Next]_vars => FlagInv'
<1>1. ASSUME FlagInv, UNCHANGED vars PROVE FlagInv'
  BY <1>1 DEF FlagInv, FlagTypes, FlagsFollowTurn, TargetFollowsFlag, vars,
              workerVars, timerVars, fileVars
<1> QED BY <1>1, WorkerFlags, TimerFlags, RestartFlags DEF Next

LEMMA FlagsInvariant == Spec => []FlagInv
BY InitFlags, FlagStep, PTL DEF Spec

(* Where the flags keep a worker and the timer thread, and any two workers,*)
(* out of one list.                                                        *)
THEOREM FlagsSuffice == Spec => []FlagsKeepApart
<1>1. FlagInv => FlagsKeepApart
  <2> SUFFICES ASSUME FlagInv PROVE FlagsKeepApart
    OBVIOUS
  <2> USE NAssumption DEF FlagInv, FlagTypes, TargetFollowsFlag, Caches, Workers
  <2>1. ASSUME NEW w \in Workers, flagRead[w] = updating[w], Touches(w) \cap TimerTouches # {}
        PROVE  w = 0 /\ turn = Spare(0)
    <3>1. pc[w] # "idle" /\ timer = "update" /\ target[w] \in {0, turn}
      BY <2>1 DEF Touches, TimerTouches
    <3>2. turn # 0 /\ (updating[w] <=> w \in {0, turn})
      BY <3>1 DEF FlagsFollowTurn
    <3>3. w \in {0, turn} /\ target[w] = w + N
      BY <2>1, <3>1, <3>2
    <3>4. QED
      BY <3>1, <3>2, <3>3 DEF Spare
  <2>2. ASSUME NEW v \in Workers, NEW w \in Workers, v # w
        PROVE  Touches(v) \cap Touches(w) = {}
    BY <2>2 DEF Touches
  <2>3. QED
    BY <2>1, <2>2 DEF FlagsKeepApart
<1>2. QED
  BY <1>1, FlagsInvariant, PTL

-------------------------------------------------------------------------------
(* What the lists and the file hold *)

(* The nodes of a set G are all there are, in the caches and in the file. *)
HeldIn(G) == caches \in [Caches -> CachesOf(G)] /\ file \in Seq(G)

(* With these a set has all that the process can read from the file after  *)
(* an end at any moment.                                                   *)
CutNodes == {Node(k, Garbled) : k \in Keys}
CutClosed(G) ==
  /\ Nodal(G) /\ G \subseteq Nodes /\ CutNodes \subseteq G
  /\ \A n \in G : Reread(n) \in G

LEMMA TimerHolds ==
  ASSUME NEW G, Nodal(G), HeldIn(G), FlagTypes, TimerStep
  PROVE  HeldIn(G)'
<1> USE DEF HeldIn, fileVars
<1>1. 0 \in Caches /\ turn \in Caches
  BY NAssumption DEF FlagTypes, Caches
<1>2. CASE RoundBegins \/ RaiseFlags \/ LowerFlags
  BY <1>2 DEF RoundBegins, RaiseFlags, LowerFlags
<1>3. CASE Merge
  <2> DEFINE first == UpdateP2M(caches[0], caches[turn])
             c1 == [caches EXCEPT ![0] = first]
  <2>1. first \in CachesOf(G)
    BY <1>1, UpdatesTyped
  <2> HIDE DEF first
  <2>2. c1 \in [Caches -> CachesOf(G)]
    BY <1>1, <2>1
  <2> HIDE DEF c1
  <2>3. [c1[turn] EXCEPT !.pending = <<>>] \in CachesOf(G)
    <3>1. c1[turn] \in CachesOf(G)
      BY <1>1, <2>2
    <3> QED BY <3>1, Cleared
  <2>4. caches' = [c1 EXCEPT ![turn] = [c1[turn] EXCEPT !.pending = <<>>]]
    BY <1>1, <1>3, <2>2 DEF Merge, first, c1
  <2> QED BY <1>1, <1>3, <2>2, <2>3, <2>4 DEF Merge
<1>4. CASE Copy
  <2>1. UpdateM2M(caches[turn], caches[0]) \in CachesOf(G)
    BY <1>1, UpdatesTyped
  <2> QED BY <1>1, <1>4, <2>1 DEF Copy
<1>5. CASE WriteFile
  <2>1. caches[0].lru \in Seq(G)
    BY <1>1 DEF CachesOf
  <2> QED BY <1>5, <2>1 DEF WriteFile, WriteToFile
<1> QED BY <1>2, <1>3, <1>4, <1>5 DEF TimerStep

(* The file after an end at any moment. *)
LEMMA FileLeft ==
  ASSUME NEW G, HeldIn(G), Restart
  PROVE  file' \in Seq(G \cup CutNodes)
<1> DEFINE H == G \cup CutNodes
<1>1. file \in Seq(G) /\ caches[0].lru \in Seq(G)
  BY NAssumption DEF HeldIn, CachesOf, Caches
<1>2. ASSUME NEW lines \in Seq(G) PROVE lines \in Seq(H)
  OBVIOUS
<1>3. ASSUME NEW lines \in Seq(G), NEW cut \in CutShort(lines)
      PROVE  cut \in Seq(H)
  <2>1. PICK n \in 0..(Len(lines) - 1) :
           cut \in {SubSeq(lines, 1, n)}
                    \cup {Append(SubSeq(lines, 1, n), Node(k, Garbled)) : k \in Keys}
    BY <1>3 DEF CutShort
  <2>2. SubSeq(lines, 1, n) \in Seq(H)
    <3>1. \A i \in 1..n : lines[i] \in H
      BY ElementOfSeq, LenProperties
    <3> QED BY <3>1, SubSeqProperties
  <2>3. \A k \in Keys : Append(SubSeq(lines, 1, n), Node(k, Garbled)) \in Seq(H)
    <3>1. \A k \in Keys : Node(k, Garbled) \in H
      BY DEF CutNodes
    <3> QED BY <2>2, <3>1, AppendProperties
  <2> QED BY <2>1, <2>2, <2>3
<1> QED BY <1>1, <1>2, <1>3 DEF Restart, WriteToFile

(* What is read of the lines of the file is all that the caches have then. *)
LEMMA RestartHolds ==
  ASSUME NEW G, Nodal(G), Restart, file' \in Seq(G),
         \A n \in DOMAIN file' : Reread(file'[n]) \in G
  PROVE  HeldIn(G)'
<1> DEFINE lines == [n \in DOMAIN file' |-> Reread(file'[n])]
<1>1. lines \in Seq(G)
  <2>1. DOMAIN file' = 1..Len(file') /\ Len(file') \in Nat
    BY LenProperties
  <2> QED BY <2>1
<1>2. caches' = [i \in Caches |-> IF i = 0 THEN ReadFromFile(EmptyCache, lines)
                                  ELSE EmptyCache]
  BY DEF Restart
<1> HIDE DEF lines
<1>3. ReadFromFile(EmptyCache, lines) \in CachesOf(G)
  BY <1>1, PutAllTyped, EmptyCacheTyped DEF ReadFromFile
<1> QED BY <1>2, <1>3, EmptyCacheTyped DEF HeldIn

LEMMA CutRestart ==
  ASSUME NEW G, CutClosed(G), HeldIn(G), Restart
  PROVE  HeldIn(G)'
<1>1. G \cup CutNodes = G
  BY DEF CutClosed
<1>2. file' \in Seq(G)
  BY <1>1, FileLeft
<1>3. \A n \in DOMAIN file' : Reread(file'[n]) \in G
  BY <1>2, ElementOfSeq, LenProperties DEF CutClosed
<1> QED BY <1>2, <1>3, RestartHolds DEF CutClosed

LEMMA LookHolds ==
  ASSUME NEW G, Nodal(G), HeldIn(G), NEW w \in Workers, target[w] \in Caches, Look(w)
  PROVE  HeldIn(G)'
BY GetTyped DEF HeldIn, Look, timerVars, fileVars

LEMMA StoreHolds ==
  ASSUME NEW G, Nodal(G), HeldIn(G), NEW w \in Workers, target[w] \in Caches, Store(w),
         Node(sought, res[w]) \in G
  PROVE  HeldIn(G)'
BY PutTyped DEF HeldIn, Store, timerVars, fileVars

-------------------------------------------------------------------------------
(* Types, and the one query at a time *)

DataTypes ==
  /\ sought \in Keys /\ asked \in [Workers -> Keys] /\ res \in [Workers -> Values]
  /\ mode \in {"P2M", "M2M"}
  /\ HeldIn(Nodes)

RightNodes == {n \in Nodes : RightOrMisread(n.key, n.value)}
ExactNodes == {n \in Nodes : n.value = n.key}

(* While no two workers have been in doQuery at a time, _sought is the key *)
(* of the one that is, and what it is about to store is right.             *)
OneQuery ==
  /\ \A v, w \in Workers : pc[v] # "idle" /\ pc[w] # "idle" => v = w
  /\ \A w \in Workers : pc[w] # "idle" => asked[w] = sought
  /\ \A w \in Workers : pc[w] = "store" => res[w] = sought

(* All the lists, the file and the answers have of these nodes. *)
AllFrom(G) ==
  /\ HeldIn(G)
  /\ \A w \in Workers : pc[w] = "reply" => Node(asked[w], res[w]) \in G

DataInv ==
  /\ FlagInv /\ DataTypes
  /\ ~overlapped => /\ OneQuery /\ AllFrom(RightNodes)
                    /\ ~misread => AllFrom(ExactNodes)

(* A key that is read back as itself has its own values or a longer key's, *)
(* so that cutting its line once more changes nothing.                     *)
LEMMA NodeSets == CutClosed(Nodes) /\ CutClosed(RightNodes) /\ Nodal(ExactNodes)
<1>1. Nodal(Nodes) /\ Nodal(RightNodes) /\ Nodal(ExactNodes)
  <2>1. Nodal(Nodes)
    BY DEF Nodal, Nodes, Node
  <2> QED BY <2>1 DEF Nodal, RightNodes, ExactNodes
<1>2. CutNodes \subseteq Nodes /\ CutNodes \subseteq RightNodes
  BY DEF CutNodes, Nodes, RightNodes, RightOrMisread, Node, Values
<1>3. ASSUME NEW n \in Nodes PROVE Reread(n) \in Nodes
  <2>1. n.key \in Keys /\ n.value \in Values /\ ReadBack[n.key] \in Keys
    BY KeysAssumption DEF Nodes
  <2> QED BY <2>1 DEF Reread, Nodes, Node, Values
<1>4. ASSUME NEW n \in RightNodes PROVE Reread(n) \in RightNodes
  <2> DEFINE cut == ReadBack[n.key]
  <2>1. /\ n \in Nodes /\ n.key \in Keys /\ n.value \in Values /\ cut \in Keys
        /\ RightOrMisread(n.key, n.value) /\ ReadBack[cut] = cut
    BY KeysAssumption DEF Nodes, RightNodes
  <2>2. CASE cut = n.key
    BY <2>2 DEF Reread
  <2>3. CASE cut # n.key
    <3>1. n.value \in {n.key, Garbled}
      <4>1. n.value \in OnlyColons /\ ReadBack[n.value] = n.key => cut = n.key
        BY <2>1, KeysAssumption
      <4> QED BY <2>1, <2>3, <4>1 DEF RightOrMisread
    <3>2. CASE n.key \in OnlyColons
      <4>1. Reread(n) = Node(cut, n.value)
        BY <2>3, <3>2 DEF Reread
      <4>2. RightOrMisread(cut, n.value)
        BY <3>1, <3>2 DEF RightOrMisread
      <4> QED BY <2>1, <4>1, <4>2 DEF RightNodes, Nodes, Node
    <3>3. CASE n.key \notin OnlyColons
      BY <2>1, <2>3, <3>3 DEF Reread, RightNodes, Nodes, Node, Values, RightOrMisread
    <3> QED BY <3>2, <3>3
  <2> QED BY <2>2, <2>3
<1> QED BY <1>1, <1>2, <1>3, <1>4 DEF CutClosed, RightNodes

LEMMA ExactRestart ==
  ASSUME HeldIn(ExactNodes), Restart, ~misread'
  PROVE  HeldIn(ExactNodes)'
<1>1. file' \in Seq(ExactNodes \cup CutNodes)
  BY FileLeft
<1>2. /\ Len(file') \in Nat /\ DOMAIN file' = 1..Len(file')
      /\ \A n \in DOMAIN file' : file'[n] \in ExactNodes \cup CutNodes
  BY <1>1, ElementOfSeq, LenProperties
<1>3. \A n \in DOMAIN file' : file'[n].value # Garbled /\ Reread(file'[n]) = file'[n]
  BY DEF Restart
<1>4. \A n \in DOMAIN file' : file'[n] \in ExactNodes
  BY <1>2, <1>3 DEF CutNodes, Node
<1>5. file' \in Seq(ExactNodes)
  BY <1>1, <1>2, <1>4
<1> QED BY <1>3, <1>4, <1>5, NodeSets, RestartHolds

LEMMA InitData == Init => DataInv
<1> SUFFICES ASSUME Init PROVE DataInv
  OBVIOUS
<1>1. \A G : HeldIn(G)
  BY EmptyCacheTyped DEF Init, HeldIn
<1>2. DataTypes
  BY <1>1, KeysAssumption DEF Init, DataTypes, Values, NoKey
<1>3. OneQuery /\ \A G : AllFrom(G)
  BY <1>1 DEF Init, OneQuery, AllFrom
<1> QED BY <1>2, <1>3, InitFlags DEF DataInv

LEMMA DataTyped ==
  ASSUME DataInv, [Next]_vars
  PROVE  DataTypes'
<1>1. FlagTypes /\ Nodal(Nodes) /\ HeldIn(Nodes)
  BY NodeSets DEF DataInv, FlagInv, DataTypes, CutClosed
<1>2. CASE UNCHANGED vars
  BY <1>2 DEF DataInv, DataTypes, HeldIn, vars, workerVars, timerVars, fileVars
<1>3. CASE TimerStep
  <2>1. HeldIn(Nodes)'
    BY <1>1, <1>3, TimerHolds
  <2>2. /\ UNCHANGED workerVars
        /\ mode' \in {mode, "P2M", "M2M"}
    BY <1>3 DEF TimerStep, RoundBegins, RaiseFlags, Merge, Copy, LowerFlags, WriteFile
  <2> QED BY <2>1, <2>2 DEF DataInv, DataTypes, workerVars
<1>4. CASE Restart
  <2>1. HeldIn(Nodes)'
    BY <1>1, <1>4, NodeSets, CutRestart
  <2>2. NoKey \in Keys
    BY KeysAssumption DEF NoKey
  <2> QED BY <1>4, <2>1, <2>2 DEF Restart, DataInv, DataTypes, Values
<1>5. ASSUME NEW w \in Workers, WorkerStep(w) PROVE DataTypes'
  <2>1. target[w] \in Caches
    BY <1>1 DEF FlagTypes
  <2>2. ASSUME NEW key \in Keys, Begin(w, key) PROVE DataTypes'
    BY <2>2 DEF Begin, DataInv, DataTypes, HeldIn, timerVars, fileVars
  <2>3. CASE Look(w)
    <3>1. HeldIn(Nodes)'
      BY <1>1, <2>1, <2>3, LookHolds
    <3>2. res' \in [Workers -> Values]
      <4>1. ASSUME Hit(caches[target[w]], sought)
            PROVE  ValueOf(caches[target[w]], sought) \in Values
        <5>1. Node(sought, ValueOf(caches[target[w]], sought)) \in Nodes
          BY <1>1, <2>1, <4>1, HitValue DEF HeldIn
        <5> QED BY <5>1 DEF Node, Nodes
      <4> QED BY <2>3, <4>1 DEF Look, DataInv, DataTypes
    <3> QED BY <2>3, <3>1, <3>2 DEF Look, DataInv, DataTypes, timerVars, fileVars
  <2>4. CASE Compute(w)
    BY <2>4 DEF Compute, DataInv, DataTypes, HeldIn, Values, timerVars, fileVars
  <2>5. CASE Store(w)
    <3>1. Node(sought, res[w]) \in Nodes
      BY DEF DataInv, DataTypes, Node, Nodes
    <3>2. HeldIn(Nodes)'
      BY <1>1, <2>1, <2>5, <3>1, StoreHolds
    <3> QED BY <2>5, <3>2 DEF Store, DataInv, DataTypes, timerVars, fileVars
  <2>6. CASE Reply(w)
    <3>1. NoKey \in Keys
      BY KeysAssumption DEF NoKey
    <3> QED BY <2>6, <3>1 DEF Reply, DataInv, DataTypes, HeldIn, Values, timerVars, fileVars
  <2> QED BY <1>5, <2>2, <2>3, <2>4, <2>5, <2>6 DEF WorkerStep
<1> QED BY <1>2, <1>3, <1>4, <1>5 DEF Next

(* What has happened has happened. *)
LEMMA FlagsKept ==
  ASSUME [Next]_vars
  PROVE  (~overlapped' => ~overlapped) /\ (~misread' => ~misread)
<1> USE DEF Next, WorkerStep, TimerStep, Begin, Look, Compute, Store, Reply, Restart, RoundBegins,
            RaiseFlags, Merge, Copy, LowerFlags, WriteFile, vars, workerVars, fileVars
<1>1. ASSUME ~overlapped' PROVE ~overlapped
  BY <1>1
<1>2. ASSUME ~misread' PROVE ~misread
  BY <1>2
<1> QED BY <1>1, <1>2

LEMMA OneQueryKept ==
  ASSUME DataInv, ~overlapped', [Next]_vars
  PROVE  OneQuery'
<1>1. FlagTypes /\ DataTypes /\ OneQuery
  BY FlagsKept DEF DataInv, FlagInv
<1>2. CASE UNCHANGED vars
  BY <1>1, <1>2 DEF OneQuery, vars, workerVars
<1>3. CASE TimerStep
  BY <1>1, <1>3 DEF OneQuery, workerVars,
                    TimerStep, RoundBegins, RaiseFlags, Merge, Copy, LowerFlags, WriteFile
<1>4. CASE Restart
  BY <1>4 DEF Restart, OneQuery
<1>5. ASSUME NEW w \in Workers, WorkerStep(w) PROVE OneQuery'
  <2> USE DEF OneQuery
  <2>1. pc \in [Workers -> {"idle", "look", "compute", "store", "reply"}]
    BY <1>1 DEF FlagTypes
  <2>2. ASSUME NEW key \in Keys, Begin(w, key) PROVE OneQuery'
    <3>1. \A v \in Workers : pc[v] = "idle"
      BY <2>2 DEF Begin
    <3>2. /\ \A v \in Workers : pc'[v] = IF v = w THEN "look" ELSE "idle"
          /\ asked'[w] = key /\ sought' = key
      BY <1>1, <2>1, <2>2, <3>1 DEF Begin, DataTypes
    <3> QED BY <3>2
  <2>3. CASE Look(w) \/ Compute(w) \/ Store(w)
    <3>1. /\ UNCHANGED <<sought, asked>> /\ pc[w] # "idle"
          /\ \A v \in Workers \ {w} : pc'[v] = pc[v] /\ res'[v] = res[v]
          /\ pc'[w] = "store" => res'[w] = sought
      BY <1>1, <2>1, <2>3 DEF Look, Compute, Store, DataTypes
    <3> QED BY <1>1, <3>1
  <2>4. CASE Reply(w)
    <3>1. /\ UNCHANGED sought /\ pc'[w] = "idle"
          /\ \A v \in Workers \ {w} :
                pc'[v] = pc[v] /\ asked'[v] = asked[v] /\ res'[v] = res[v]
      BY <1>1, <2>1, <2>4 DEF Reply, DataTypes
    <3> QED BY <1>1, <3>1
  <2> QED BY <1>5, <2>2, <2>3, <2>4 DEF WorkerStep
<1> QED BY <1>2, <1>3, <1>4, <1>5 DEF Next

(* What is stored are the values of the key sought, so that no step but a  *)
(* start brings in a node that is not exact.                               *)
LEMMA AllFromKept ==
  ASSUME DataInv, OneQuery, NEW G, Nodal(G), \A k \in Keys : Node(k, k) \in G, AllFrom(G),
         TimerStep \/ \E w \in Workers : WorkerStep(w)
  PROVE  AllFrom(G)'
<1>1. FlagTypes /\ DataTypes /\ HeldIn(G)
  BY DEF DataInv, FlagInv, AllFrom
<1>2. CASE TimerStep
  <2>1. HeldIn(G)'
    BY <1>1, <1>2, TimerHolds
  <2>2. UNCHANGED workerVars
    BY <1>2 DEF TimerStep, RoundBegins, RaiseFlags, Merge, Copy, LowerFlags, WriteFile
  <2> QED BY <2>1, <2>2 DEF AllFrom, workerVars
<1>3. ASSUME NEW w \in Workers, WorkerStep(w) PROVE AllFrom(G)'
  <2> USE DEF AllFrom
  <2>1. target[w] \in Caches /\ pc \in [Workers -> {"idle", "look", "compute", "store", "reply"}]
    BY <1>1 DEF FlagTypes
  <2>2. CASE (\E key \in Keys : Begin(w, key)) \/ Compute(w)
    <3>1. /\ UNCHANGED <<caches, file>> /\ pc'[w] # "reply"
          /\ \A v \in Workers \ {w} :
                pc'[v] = pc[v] /\ asked'[v] = asked[v] /\ res'[v] = res[v]
      BY <1>1, <2>1, <2>2 DEF Begin, Compute, DataTypes, timerVars, fileVars
    <3> QED BY <1>1, <3>1 DEF HeldIn
  <2>3. CASE Look(w)
    <3>1. HeldIn(G)'
      BY <1>1, <2>1, <2>3, LookHolds
    <3>2. /\ UNCHANGED <<sought, asked>> /\ pc[w] = "look"
          /\ \A v \in Workers \ {w} : pc'[v] = pc[v] /\ res'[v] = res[v]
      BY <1>1, <2>1, <2>3 DEF Look, DataTypes
    <3>3. ASSUME pc'[w] = "reply" PROVE Node(asked[w], res'[w]) \in G
      <4>1. /\ Hit(caches[target[w]], sought)
            /\ res'[w] = ValueOf(caches[target[w]], sought)
        BY <1>1, <2>1, <2>3, <3>3 DEF Look, DataTypes
      <4>2. caches[target[w]] \in CachesOf(G)
        BY <1>1, <2>1 DEF HeldIn
      <4>3. Node(sought, res'[w]) \in G
        BY <4>1, <4>2, HitValue
      <4> QED BY <3>2, <4>3 DEF OneQuery
    <3> QED BY <3>1, <3>2, <3>3
  <2>4. CASE Store(w)
    <3>1. /\ UNCHANGED <<sought, asked, res>> /\ pc[w] = "store"
          /\ \A v \in Workers \ {w} : pc'[v] = pc[v]
      BY <2>1, <2>4 DEF Store
    <3>2. res[w] = sought /\ asked[w] = sought /\ sought \in Keys
      BY <1>1, <3>1 DEF OneQuery, DataTypes
    <3>3. Node(sought, res[w]) \in G
      BY <3>2
    <3>4. HeldIn(G)'
      BY <1>1, <2>1, <2>4, <3>3, StoreHolds
    <3> QED BY <3>1, <3>2, <3>3, <3>4
  <2>5. CASE Reply(w)
    <3>1. /\ UNCHANGED <<caches, file>> /\ pc'[w] = "idle"
          /\ \A v \in Workers \ {w} :
                pc'[v] = pc[v] /\ asked'[v] = asked[v] /\ res'[v] = res[v]
      BY <1>1, <2>1, <2>5 DEF Reply, DataTypes, timerVars, fileVars
    <3> QED BY <1>1, <3>1 DEF HeldIn
  <2> QED BY <1>3, <2>2, <2>3, <2>4, <2>5 DEF WorkerStep
<1> QED BY <1>2, <1>3

LEMMA RightKept ==
  ASSUME DataInv, ~overlapped', [Next]_vars
  PROVE  AllFrom(RightNodes)' /\ (~misread' => AllFrom(ExactNodes)')
<1>1. OneQuery /\ AllFrom(RightNodes) /\ (~misread' => AllFrom(ExactNodes))
  BY FlagsKept DEF DataInv
<1>2. Nodal(RightNodes) /\ Nodal(ExactNodes)
  BY NodeSets DEF CutClosed
<1>3. CASE UNCHANGED vars
  <2>1. ASSUME NEW G, AllFrom(G) PROVE AllFrom(G)'
    BY <1>3, <2>1 DEF AllFrom, HeldIn, vars, workerVars, fileVars
  <2> QED BY <1>1, <2>1
<1>4. CASE TimerStep \/ \E w \in Workers : WorkerStep(w)
  <2>1. \A k \in Keys : Node(k, k) \in RightNodes /\ Node(k, k) \in ExactNodes
    BY DEF RightNodes, ExactNodes, Nodes, Node, Values, RightOrMisread
  <2>2. AllFrom(RightNodes)'
    BY <1>1, <1>2, <1>4, <2>1, AllFromKept
  <2>3. ASSUME ~misread' PROVE AllFrom(ExactNodes)'
    BY <1>1, <1>2, <1>4, <2>1, <2>3, AllFromKept
  <2> QED BY <2>2, <2>3
<1>5. CASE Restart
  <2>1. \A w \in Workers : pc'[w] # "reply"
    BY <1>5 DEF Restart
  <2>2. HeldIn(RightNodes)'
    BY <1>1, <1>5, NodeSets, CutRestart DEF AllFrom
  <2>3. ASSUME ~misread' PROVE HeldIn(ExactNodes)'
    BY <1>1, <1>5, <2>3, ExactRestart DEF AllFrom
  <2> QED BY <2>1, <2>2, <2>3 DEF AllFrom
<1> QED BY <1>3, <1>4, <1>5 DEF Next

LEMMA DataInvariant == Spec => []DataInv
<1>1. DataInv /\ [Next]_vars => DataInv'
  BY FlagStep, DataTyped, OneQueryKept, RightKept DEF DataInv
<1> QED BY <1>1, InitData, PTL DEF Spec

(* Every variable keeps its type: a cache holds a key once, and no more    *)
(* entries than its capacity.                                              *)
THEOREM TypeCorrect == Spec => []TypeOK
<1>1. DataInv => TypeOK
  <2> SUFFICES ASSUME DataInv PROVE TypeOK
    OBVIOUS
  <2>1. ASSUME NEW i \in Caches
        PROVE  /\ caches[i].lru \in Seq(Nodes) /\ caches[i].pending \in Seq(Nodes)
               /\ Len(caches[i].lru) <= CacheCapacity
               /\ Cardinality(KeysOf(caches[i].lru)) = Len(caches[i].lru)
    <3>1. caches[i] \in CachesOf(Nodes)
      BY DEF DataInv, DataTypes, HeldIn
    <3>2. caches[i].lru \in Seq(Nodes) /\ Distinct(caches[i].lru)
      BY <3>1 DEF CachesOf
    <3> QED BY <3>1, <3>2, DistinctKeys DEF CachesOf
  <2> QED BY <2>1 DEF TypeOK, DataInv, FlagInv, FlagTypes, DataTypes, HeldIn
<1> QED BY <1>1, DataInvariant, PTL

(* As long as no two queries overlap a key has its own values, whatever    *)
(* the timer thread does between the steps of a query, and whenever the    *)
(* process ends, unless a start has misread the file; and then still no    *)
(* values but pieces of some and those of a longer key read back as it.    *)
THEOREM OverlapOrMisreadingNeeded == Spec => []WrongNeedsOverlapOrMisreading
<1>1. ASSUME NEW G, AllFrom(G), G \subseteq Nodes
      PROVE  /\ \A i \in Caches : ToSet(caches[i].lru) \cup ToSet(caches[i].pending) \subseteq G
             /\ ToSet(file) \subseteq G
             /\ \A w \in Workers : pc[w] = "reply" => Node(asked[w], res[w]) \in G
  <2>1. ASSUME NEW t \in Seq(G) PROVE ToSet(t) \subseteq G
    BY ElementOfSeq, LenProperties DEF ToSet
  <2> QED BY <1>1, <2>1 DEF AllFrom, HeldIn, CachesOf
<1>2. ASSUME DataInv, ~overlapped
      PROVE  /\ \A i \in Caches : \A n \in ToSet(caches[i].lru) \cup ToSet(caches[i].pending) :
                   RightOrMisread(n.key, n.value) /\ (~misread => n.value = n.key)
             /\ \A n \in ToSet(file) :
                   RightOrMisread(n.key, n.value) /\ (~misread => n.value = n.key)
             /\ \A w \in Workers : pc[w] = "reply" =>
                   RightOrMisread(asked[w], res[w]) /\ (~misread => res[w] = asked[w])
  <2>1. AllFrom(RightNodes) /\ (~misread => AllFrom(ExactNodes))
    BY <1>2 DEF DataInv
  <2>2. RightNodes \subseteq Nodes /\ ExactNodes \subseteq Nodes
    BY DEF RightNodes, ExactNodes
  <2>3. \A n \in RightNodes : RightOrMisread(n.key, n.value)
    BY DEF RightNodes
  <2>4. \A n \in ExactNodes : n.value = n.key
    BY DEF ExactNodes
  <2>5. \A k, v : Node(k, v).key = k /\ Node(k, v).value = v
    BY DEF Node
  <2>6. CASE misread
    BY <1>1, <2>1, <2>2, <2>3, <2>5, <2>6
  <2>7. CASE ~misread
    BY <1>1, <2>1, <2>2, <2>3, <2>4, <2>5, <2>7
  <2> QED BY <2>6, <2>7
<1>3. DataInv => WrongNeedsOverlapOrMisreading
  BY <1>2 DEF WrongNeedsOverlapOrMisreading
<1> QED BY <1>3, DataInvariant, PTL

-------------------------------------------------------------------------------
(* The round that no query disturbs *)

(* The turns of this loop that are over. *)
Done(i) ==
  \/ timer \in {"wait", "write"}
  \/ i < turn
  \/ i = turn /\ timer = "lower"

(* What such a round has reached: the lists of pending nodes are empty in  *)
(* the caches that were merged, and the entries those of cache 0 in the    *)
(* caches that were copied to.                                             *)
RoundReached ==
  quiet =>
    /\ \A w \in Workers : pc[w] = "idle"
    /\ timer = "wait" => mode = "M2M"
    /\ timer = "write" => mode = "P2M"
    /\ \A i \in Caches \ {0} : mode = "M2M" \/ Done(i) => caches[i].pending = <<>>
    /\ mode = "M2M" =>
         \A i \in Caches \ {0} : Done(i) => ToSet(caches[i].lru) = ToSet(caches[0].lru)

LEMMA ReverseSet ==
  ASSUME NEW G, NEW s \in Seq(G)
  PROVE  ToSet(Reverse(s)) = ToSet(s)
<1>1. Len(s) \in Nat /\ DOMAIN s = 1..Len(s)
  BY LenProperties
<1>2. ASSUME NEW i \in 1..Len(s)
      PROVE  (Len(s) - i) + 1 \in 1..Len(s) /\ (Len(s) - ((Len(s) - i) + 1)) + 1 = i
  BY <1>1
<1>3. ToSet(Reverse(s)) = {s[(Len(s) - i) + 1] : i \in 1..Len(s)}
  BY DEF ToSet, Reverse
<1>4. ToSet(s) = {s[i] : i \in 1..Len(s)}
  BY <1>1 DEF ToSet
<1> QED BY <1>2, <1>3, <1>4

LEMMA RoundStep ==
  ASSUME DataInv, RoundReached, [Next]_vars
  PROVE  RoundReached'
<1> USE DEF RoundReached, Done
<1>1. FlagTypes /\ FlagsFollowTurn /\ mode \in {"P2M", "M2M"} /\ HeldIn(Nodes)
  BY DEF DataInv, FlagInv, DataTypes
<1>2. CASE UNCHANGED vars
  BY <1>2 DEF vars, workerVars, timerVars, fileVars
<1>3. CASE Restart
  BY <1>3 DEF Restart
<1>4. ASSUME NEW w \in Workers, WorkerStep(w) PROVE RoundReached'
  <2>1. CASE \E key \in Keys : Begin(w, key)
    BY <2>1 DEF Begin
  <2>2. CASE Look(w) \/ Compute(w) \/ Store(w) \/ Reply(w)
    <3>1. pc[w] # "idle" /\ quiet' = quiet
      BY <2>2 DEF Look, Compute, Store, Reply
    <3> QED BY <3>1
  <2> QED BY <1>4, <2>1, <2>2 DEF WorkerStep
<1>5. CASE TimerStep
  <2> SUFFICES ASSUME quiet' PROVE RoundReached'
    OBVIOUS
  <2>0. \A i \in Caches \ {0} : ~(i < 1)
    BY NAssumption DEF Caches
  <2>1. turn \in Nat /\ 0 \in Caches /\ Caches \subseteq Nat /\ turn \in Caches
    BY <1>1, NAssumption DEF FlagTypes, Caches
  <2>2. CASE RoundBegins
    BY <2>0, <2>2 DEF RoundBegins, workerVars
  <2>3. CASE RaiseFlags
    BY <2>3 DEF RaiseFlags, workerVars
  <2>4. CASE Merge
    <3>1. turn # 0
      BY <1>1, <2>4 DEF FlagsFollowTurn, Merge
    <3>2. /\ timer' = "lower" /\ timer = "update" /\ mode = "P2M"
          /\ UNCHANGED <<turn, mode, pc, quiet>>
      BY <2>4 DEF Merge, workerVars
    <3>3. caches'[turn].pending = <<>>
          /\ \A i \in Caches \ {0, turn} : caches'[i] = caches[i]
      <4>1. caches[turn] \in CachesOf(Nodes)
        BY <1>1, <2>1 DEF HeldIn
      <4>2. caches' = [caches EXCEPT ![0] = UpdateP2M(caches[0], caches[turn]),
                                     ![turn] = [caches[turn] EXCEPT !.pending = <<>>]]
        BY <1>1, <2>1, <2>4, <3>1 DEF Merge, HeldIn
      <4>3. caches'[turn] = [caches[turn] EXCEPT !.pending = <<>>]
            /\ \A i \in Caches \ {0, turn} : caches'[i] = caches[i]
        BY <1>1, <2>1, <4>2 DEF HeldIn
      <4> QED BY <4>1, <4>3 DEF CachesOf
    <3> QED BY <2>1, <3>1, <3>2, <3>3
  <2>5. CASE Copy
    <3>1. turn # 0
      BY <1>1, <2>5 DEF FlagsFollowTurn, Copy
    <3>2. /\ timer' = "lower" /\ timer = "update" /\ mode = "M2M"
          /\ UNCHANGED <<turn, mode, pc, quiet>>
      BY <2>5 DEF Copy, workerVars
    <3>3. caches' = [caches EXCEPT ![turn] = UpdateM2M(caches[turn], caches[0])]
      BY <2>5 DEF Copy
    <3>4. caches[turn] \in CachesOf(Nodes) /\ caches[0] \in CachesOf(Nodes) /\ Nodal(Nodes)
      BY <1>1, <2>1, NodeSets DEF HeldIn, CutClosed
    <3>5. caches[turn].pending = <<>>
      BY <2>1, <3>1, <3>2
    <3>6. /\ ToSet(caches'[turn].lru) = ToSet(caches[0].lru)
          /\ caches'[turn].pending = <<>>
      <4>1. caches'[turn] = UpdateM2M(caches[turn], caches[0])
        BY <1>1, <2>1, <3>3 DEF HeldIn
      <4>2. caches[0].lru \in Seq(Nodes)
        BY <3>4 DEF CachesOf
      <4> QED BY <3>4, <3>5, <4>1, <4>2, CopyReverses, ReverseSet
    <3>7. \A i \in Caches \ {turn} : caches'[i] = caches[i]
      BY <1>1, <3>3 DEF HeldIn
    <3> QED BY <2>1, <3>1, <3>2, <3>6, <3>7
  <2>6. CASE LowerFlags
    <3>1. \A i \in Caches \ {0} : i <= 2 * N - 1
      BY NAssumption DEF Caches
    <3>2. CASE turn < 2 * N - 1
      <4>1. /\ timer = "lower" /\ timer' = "raise" /\ turn' = turn + 1
            /\ UNCHANGED <<caches, mode, pc, quiet>>
        BY <2>6, <3>2 DEF LowerFlags, workerVars
      <4>2. \A i \in Caches \ {0} : i < turn + 1 => i < turn \/ i = turn
        BY <2>1
      <4> QED BY <4>1, <4>2
    <3>3. CASE ~(turn < 2 * N - 1)
      <4>1. /\ timer = "lower" /\ timer' = IF mode = "P2M" THEN "write" ELSE "wait"
            /\ UNCHANGED <<caches, mode, pc, quiet>>
        BY <2>6, <3>3 DEF LowerFlags, workerVars
      <4>2. \A i \in Caches \ {0} : i < turn \/ i = turn
        BY <2>1, <3>1, <3>3, NAssumption
      <4> QED BY <1>1, <4>1, <4>2
    <3> QED BY <3>2, <3>3
  <2>7. CASE WriteFile
    BY <2>0, <2>7 DEF WriteFile, workerVars
  <2> QED BY <1>5, <2>2, <2>3, <2>4, <2>5, <2>6, <2>7 DEF TimerStep
<1> QED BY <1>2, <1>3, <1>4, <1>5 DEF Next

(* After a round that no query has disturbed the same entries are in all   *)
(* caches, and nothing is left to be merged.                               *)
THEOREM QuietRoundShares == Spec => []RoundShares
<1>1. Init => RoundReached
  BY DEF Init, RoundReached
<1>2. RoundReached => RoundShares
  BY DEF RoundReached, Done, RoundShares
<1> QED BY <1>1, <1>2, DataInvariant, RoundStep, PTL DEF Spec
===============================================================================
