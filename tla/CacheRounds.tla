----------------------------- MODULE CacheRounds -----------------------------
(***************************************************************************)
(* What the rounds of CacheManager::updateCache do to the order in which   *)
(* the caches forget, and to what was stored while a round goes on.        *)
(*                                                                         *)
(* CacheManager has the threads, its caches of one entry; here queries and *)
(* turns of a round come one at a time, and the caches have room for       *)
(* several entries.  Which cache a query uses is left open: a worker's own *)
(* or its spare one, as the flags were.  A value is the key itself.        *)
(***************************************************************************)
EXTENDS LRUCache

CONSTANTS LastCache,  \* the caches are 0..LastCache, 7
          Keys,       \* what is asked
          Libraries,  \* what the file may hold at the start: sequences of keys
          MaxQueries  \* bound: queries until the end

ASSUME CachesAssumption == LastCache \in Nat \ {0} /\ MaxQueries \in Nat
ASSUME LibrariesAssumption == Libraries \subseteq Seq(Keys)

Caches == 0..LastCache

VARIABLES
  caches,   \* CacheManager::_caches
  mode,     \* in its first loop, P2M, its second, M2M, or between two rounds
  turn,     \* i
  queries,  \* queries made so far
  used,     \* history: the keys a cache ever had, last used first, until it is copied to
  inTime    \* history: the keys stored, but for those that came between a cache's turns

vars == <<caches, mode, turn, queries, used, inTime>>

Line(key) == Node(key, key)
KeySeq(nodes) == [n \in DOMAIN nodes |-> nodes[n].key]

(* What was used comes to the front, for the history. *)
Use(keys, key) == <<key>> \o RemoveFirst(keys, key)
UseAll(keys, more) ==
  LET after[n \in 0..Len(more)] == IF n = 0 THEN keys ELSE Use(after[n - 1], more[n])
  IN after[Len(more)]

Init ==
  /\ \E library \in Libraries :
       LET lines == [n \in DOMAIN library |-> Line(library[n])]
       IN /\ caches = [i \in Caches |-> IF i = 0 THEN ReadFromFile(EmptyCache, lines)
                                                 ELSE EmptyCache]
          /\ used = [i \in Caches |-> IF i = 0 THEN UseAll(<<>>, library) ELSE <<>>]
  /\ mode = "between" /\ turn = 1
  /\ queries = 0 /\ inTime = {}

-------------------------------------------------------------------------------
(* Its turn in the first loop is over, its turn in the second is not. *)
AwaitsCopy(i) == i > 0 /\ ((mode = "P2M" /\ i < turn) \/ (mode = "M2M" /\ i >= turn))

(* KeyRecommander::doQuery: get, and put of what was not found. *)
DoQuery(i, key) ==
  /\ queries < MaxQueries
  /\ LET found == Hit(caches[i], key)
     IN /\ caches' = [caches EXCEPT ![i] = IF found THEN Get(@, key) ELSE Put(@, key, key)]
        /\ inTime' = IF found \/ AwaitsCopy(i) THEN inTime ELSE inTime \cup {key}
  /\ used' = [used EXCEPT ![i] = Use(@, key)]
  /\ queries' = queries + 1
  /\ UNCHANGED <<mode, turn>>

(* The timer has expired. *)
RoundBegins ==
  /\ mode = "between"
  /\ mode' = "P2M" /\ turn' = 1
  /\ UNCHANGED <<caches, queries, used, inTime>>

(* The next cache, or the next loop. *)
NextTurn(after) ==
  IF turn < LastCache THEN turn' = turn + 1 /\ UNCHANGED mode
                      ELSE turn' = 1 /\ mode' = after

(* Mutant of Merge: the pending lists of all the other caches are cleared. *)
MergeClearsAll ==
  /\ mode = "P2M"
  /\ caches' = [i \in Caches |-> IF i = 0 THEN UpdateP2M(caches[0], caches[turn])
                                 ELSE [caches[i] EXCEPT !.pending = <<>>]]
  /\ used' = [used EXCEPT ![0] = UseAll(@, KeySeq(caches[turn].pending))]
  /\ NextTurn("M2M")
  /\ UNCHANGED <<queries, inTime>>

Merge ==
  /\ mode = "P2M"
  /\ caches' = [caches EXCEPT ![0] = UpdateP2M(@, caches[turn]), ![turn].pending = <<>>]
  /\ used' = [used EXCEPT ![0] = UseAll(@, KeySeq(caches[turn].pending))]
  /\ NextTurn("M2M")
  /\ UNCHANGED <<queries, inTime>>

Copy ==
  /\ mode = "M2M"
  /\ caches' = [caches EXCEPT ![turn] = UpdateM2M(@, caches[0])]
  /\ used' = [used EXCEPT ![turn] = Reverse(KeySeq(caches[0].lru))]
  /\ NextTurn("between")
  /\ UNCHANGED <<queries, inTime>>

Next == (\E i \in Caches, key \in Keys : DoQuery(i, key)) \/ RoundBegins \/ Merge \/ Copy

Spec == Init /\ [][Next]_vars

-------------------------------------------------------------------------------
(* A cache is the front of an unbounded list of the keys in the order of   *)
(* their last use: what is forgotten is always the least recently used,    *)
(* however get, put, merging and reading mix.  But a round starts every    *)
(* copy from the order of cache 0 turned round: of what a worker has not   *)
(* used since, the entries merged last are forgotten first.                *)
ForgetsLeastRecent ==
  \A i \in Caches :
     KeySeq(caches[i].lru) = SubSeq(used[i], 1, Min({CacheCapacity, Len(used[i])}))

(* A result that was stored is to be found in cache 0 or is going to be    *)
(* merged into it, as long as all that came to cache 0 has room there -    *)
(* except when it was stored after its cache had been merged and before    *)
(* the copy, which clears both the entries and what is pending.            *)
OnlyLateIsLost ==
  Len(used[0]) <= CacheCapacity =>
     \A key \in inTime :
        Hit(caches[0], key) \/ \E i \in Caches \ {0} : key \in KeysOf(caches[i].pending)
===============================================================================
