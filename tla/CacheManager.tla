----------------------------- MODULE CacheManager -----------------------------
(***************************************************************************)
(* The caches of the keyword recommender: CacheManager and LRUCache of     *)
(* src/src/cache with KeyRecommander::doQuery.  Worker w uses cache w, or  *)
(* cache w + N while the flag of cache w is up; every ten seconds a timer  *)
(* thread merges what the other caches have noted into cache 0, writes     *)
(* cache 0 to the file and copies it to all the others.  No lock is taken: *)
(* the flags are all there is between the timer thread and the workers,    *)
(* and _sought, a member of the one KeyRecommander, is shared by all.      *)
(*                                                                         *)
(* The value the dictionary gives for a key is written as the key itself.  *)
(* get, put and each update are one step.  Where the flags do not keep two *)
(* threads off one list (FlagsKeepApart says where they do), relinking it  *)
(* from both may end the process, which Restart covers; that a list lives  *)
(* on damaged is not modelled.                                             *)
(***************************************************************************)
EXTENDS LRUCache

CONSTANTS N,          \* the workers are 0..N-1, the caches 0..2N-1
          Keys,       \* what is asked
          ReadBack,   \* what readFromFile makes of a key: it stops at a ':'
          OnlyColons, \* the keys with nothing but colons after their first ':'
          Garbled,    \* values cut short, or run together with the rest of a key
          MaxQueries  \* bound: queries until the end

ASSUME NAssumption == N \in Nat \ {0}
ASSUME KeysAssumption ==
  /\ Keys # {} /\ Garbled \notin Keys /\ OnlyColons \subseteq Keys
  /\ ReadBack \in [Keys -> Keys]
  /\ \A key \in Keys : ReadBack[ReadBack[key]] = ReadBack[key]
ASSUME QueriesAssumption == MaxQueries \in Nat

Workers == 0..(N - 1)
Caches == 0..(2 * N - 1)

VARIABLES
  caches,    \* CacheManager::_caches
  updating,  \* the _isUpdating of each
  file,      \* the file named by "cachelib"
  sought,    \* KeyRecommander::_sought
  pc,        \* where each worker is in doQuery
  asked,     \* the key each worker was called with
  target,    \* the cache it has chosen
  res,       \* the result it has so far
  timer,     \* where the timer thread is in updateCache
  mode,      \* in its first loop, P2M, or its second, M2M
  turn,      \* i
  flagRead,  \* history: the flag each worker read
  overlapped, \* history: two workers have been in doQuery at a time
  misread,   \* history: a start has read a line other than as it was written
  quiet,     \* history: no worker has been in doQuery since the round began
  queries    \* queries made so far

workerVars == <<sought, pc, asked, target, res, flagRead, overlapped, queries>>
timerVars == <<updating, timer, mode, turn>>
fileVars == <<file, misread>>
vars == <<caches, workerVars, timerVars, fileVars, quiet>>

Values == Keys \cup {Garbled}

(* What stands in a variable that is written before it is read. *)
NoKey == CHOOSE key \in Keys : TRUE

Init ==
  /\ caches = [i \in Caches |-> EmptyCache]
  /\ updating = [i \in Caches |-> FALSE]
  /\ file = <<>>
  /\ sought = NoKey
  /\ pc = [w \in Workers |-> "idle"]
  /\ asked = [w \in Workers |-> NoKey] /\ res = [w \in Workers |-> NoKey]
  /\ target = [w \in Workers |-> w]
  /\ timer = "wait" /\ mode = "P2M" /\ turn = 0
  /\ flagRead = [w \in Workers |-> FALSE]
  /\ overlapped = FALSE /\ misread = FALSE /\ quiet = FALSE
  /\ queries = 0

-------------------------------------------------------------------------------
(* KeyRecommander::doQuery *)

(* Mutant of Spare: the spare caches begin one too early. *)
SpareTooEarly(w) == w + N - 1

Spare(w) == w + N

(* Mutant of Begin: _sought is left alone while the cache is updated. *)
BeginBehindFlag(w, key) ==
  /\ pc[w] = "idle" /\ queries < MaxQueries
  /\ sought' = IF updating[w] THEN sought ELSE key
  /\ asked' = [asked EXCEPT ![w] = key]
  /\ target' = [target EXCEPT ![w] = IF updating[w] THEN Spare(w) ELSE w]
  /\ flagRead' = [flagRead EXCEPT ![w] = updating[w]]
  /\ pc' = [pc EXCEPT ![w] = "look"]
  /\ overlapped' = (overlapped \/ \E v \in Workers : pc[v] # "idle")
  /\ queries' = queries + 1
  /\ quiet' = FALSE
  /\ UNCHANGED <<caches, res, timerVars, fileVars>>

(* _sought is written, the flag of the worker's own cache read, and the    *)
(* cache chosen by it.                                                     *)
Begin(w, key) ==
  /\ pc[w] = "idle" /\ queries < MaxQueries
  /\ sought' = key
  /\ asked' = [asked EXCEPT ![w] = key]
  /\ target' = [target EXCEPT ![w] = IF updating[w] THEN Spare(w) ELSE w]
  /\ flagRead' = [flagRead EXCEPT ![w] = updating[w]]
  /\ pc' = [pc EXCEPT ![w] = "look"]
  /\ overlapped' = (overlapped \/ \E v \in Workers : pc[v] # "idle")
  /\ queries' = queries + 1
  /\ quiet' = FALSE
  /\ UNCHANGED <<caches, res, timerVars, fileVars>>

(* get of the chosen cache, for the key that _sought holds by now. *)
Look(w) ==
  /\ pc[w] = "look"
  /\ caches' = [caches EXCEPT ![target[w]] = Get(@, sought)]
  /\ IF Hit(caches[target[w]], sought)
     THEN /\ res' = [res EXCEPT ![w] = ValueOf(caches[target[w]], sought)]
          /\ pc' = [pc EXCEPT ![w] = "reply"]
     ELSE /\ pc' = [pc EXCEPT ![w] = "compute"]
          /\ UNCHANGED res
  /\ UNCHANGED <<sought, asked, target, flagRead, overlapped, queries,
                 timerVars, fileVars, quiet>>

(* Dictionary::doQuery of what _sought holds by now. *)
Compute(w) ==
  /\ pc[w] = "compute"
  /\ res' = [res EXCEPT ![w] = sought]
  /\ pc' = [pc EXCEPT ![w] = "store"]
  /\ UNCHANGED <<caches, sought, asked, target, flagRead, overlapped, queries,
                 timerVars, fileVars, quiet>>

(* put under the key that _sought holds by now. *)
Store(w) ==
  /\ pc[w] = "store"
  /\ caches' = [caches EXCEPT ![target[w]] = Put(@, sought, res[w])]
  /\ pc' = [pc EXCEPT ![w] = "reply"]
  /\ UNCHANGED <<sought, asked, target, res, flagRead, overlapped, queries,
                 timerVars, fileVars, quiet>>

(* process answers with its own msgContent as the key, and res as values;  *)
(* its variables are gone.                                                 *)
Reply(w) ==
  /\ pc[w] = "reply"
  /\ pc' = [pc EXCEPT ![w] = "idle"]
  /\ asked' = [asked EXCEPT ![w] = NoKey] /\ res' = [res EXCEPT ![w] = NoKey]
  /\ target' = [target EXCEPT ![w] = w] /\ flagRead' = [flagRead EXCEPT ![w] = FALSE]
  /\ UNCHANGED <<caches, sought, overlapped, queries, timerVars, fileVars, quiet>>

-------------------------------------------------------------------------------
(* CacheManager::updateCache, in the timer thread *)

RoundBegins ==
  /\ timer = "wait"
  /\ timer' = "raise" /\ mode' = "P2M" /\ turn' = 1
  /\ quiet' = \A w \in Workers : pc[w] = "idle"
  /\ UNCHANGED <<caches, updating, workerVars, fileVars>>

SetFlags(up) == updating' = [updating EXCEPT ![0] = up, ![turn] = up]

RaiseFlags ==
  /\ timer = "raise"
  /\ SetFlags(TRUE)
  /\ timer' = "update"
  /\ UNCHANGED <<caches, mode, turn, workerVars, fileVars, quiet>>

Merge ==
  /\ timer = "update" /\ mode = "P2M"
  /\ caches' = [caches EXCEPT ![0] = UpdateP2M(@, caches[turn]),
                              ![turn].pending = <<>>]
  /\ timer' = "lower"
  /\ UNCHANGED <<updating, mode, turn, workerVars, fileVars, quiet>>

Copy ==
  /\ timer = "update" /\ mode = "M2M"
  /\ caches' = [caches EXCEPT ![turn] = UpdateM2M(@, caches[0])]
  /\ timer' = "lower"
  /\ UNCHANGED <<updating, mode, turn, workerVars, fileVars, quiet>>

(* Mutant of LowerFlags: the loops end before the last cache. *)
LowerFlagsEndsEarly ==
  /\ timer = "lower"
  /\ SetFlags(FALSE)
  /\ IF turn < 2 * N - 2
     THEN turn' = turn + 1 /\ timer' = "raise"
     ELSE turn' = 0 /\ timer' = IF mode = "P2M" THEN "write" ELSE "wait"
  /\ UNCHANGED <<caches, mode, workerVars, fileVars, quiet>>

(* The flags go down, and the loop goes on; after the last cache the first *)
(* loop is followed by the file, and the second by the next tick.          *)
LowerFlags ==
  /\ timer = "lower"
  /\ SetFlags(FALSE)
  /\ IF turn < 2 * N - 1
     THEN turn' = turn + 1 /\ timer' = "raise"
     ELSE turn' = 0 /\ timer' = IF mode = "P2M" THEN "write" ELSE "wait"
  /\ UNCHANGED <<caches, mode, workerVars, fileVars, quiet>>

WriteFile ==
  /\ timer = "write"
  /\ file' = WriteToFile(caches[0])
  /\ timer' = "raise" /\ mode' = "M2M" /\ turn' = 1
  /\ UNCHANGED <<caches, updating, workerVars, misread, quiet>>

-------------------------------------------------------------------------------
(* The process ends, at any moment, and is started: CacheManager::init     *)
(* reads the file, a line at a time.  The key is what comes before the     *)
(* first ':', the other colons are passed over, and what is left of the    *)
(* key is run together with the first value: nothing, if all of it was     *)
(* colons, so that the line of "a:" gives its values to "a" as they are.   *)
Reread(line) ==
  IF ReadBack[line.key] = line.key THEN line
  ELSE Node(ReadBack[line.key], IF line.key \in OnlyColons THEN line.value ELSE Garbled)

(* What an end in the middle of writeToFile, which starts by truncating    *)
(* the file, leaves of it: some of the lines, the last perhaps in part.    *)
CutShort(lines) ==
  UNION {{SubSeq(lines, 1, n)} \cup {Append(SubSeq(lines, 1, n), Node(k, Garbled)) : k \in Keys}
           : n \in 0..(Len(lines) - 1)}

Restart ==
  /\ \/ file' = file
     \/ timer = "write" /\ file' \in CutShort(WriteToFile(caches[0]))
  /\ caches' = [i \in Caches |->
                  IF i = 0 THEN ReadFromFile(EmptyCache,
                                             [n \in DOMAIN file' |-> Reread(file'[n])])
                  ELSE EmptyCache]
  /\ misread' = (misread \/ \E n \in DOMAIN file' :
                               file'[n].value = Garbled \/ Reread(file'[n]) # file'[n])
  /\ updating' = [i \in Caches |-> FALSE]
  /\ sought' = NoKey
  /\ pc' = [w \in Workers |-> "idle"]
  /\ asked' = [w \in Workers |-> NoKey] /\ res' = [w \in Workers |-> NoKey]
  /\ target' = [w \in Workers |-> w] /\ flagRead' = [w \in Workers |-> FALSE]
  /\ timer' = "wait" /\ mode' = "P2M" /\ turn' = 0
  /\ quiet' = FALSE
  /\ UNCHANGED <<overlapped, queries>>

-------------------------------------------------------------------------------
WorkerStep(w) ==
  \/ \E key \in Keys : Begin(w, key)
  \/ Look(w) \/ Compute(w) \/ Store(w) \/ Reply(w)

TimerStep == RoundBegins \/ RaiseFlags \/ Merge \/ Copy \/ LowerFlags \/ WriteFile

Next == (\E w \in Workers : WorkerStep(w)) \/ TimerStep \/ Restart

Spec == Init /\ [][Next]_vars

-------------------------------------------------------------------------------
Nodes == [key : Keys, value : Values]

(* A cache holds a key once, and no more entries than its capacity. *)
TypeOK ==
  /\ \A i \in Caches :
        /\ caches[i].lru \in Seq(Nodes) /\ caches[i].pending \in Seq(Nodes)
        /\ Len(caches[i].lru) <= CacheCapacity
        /\ Cardinality(KeysOf(caches[i].lru)) = Len(caches[i].lru)
  /\ updating \in [Caches -> BOOLEAN]
  /\ file \in Seq(Nodes)
  /\ sought \in Keys
  /\ pc \in [Workers -> {"idle", "look", "compute", "store", "reply"}]
  /\ asked \in [Workers -> Keys] /\ res \in [Workers -> Values]
  /\ target \in [Workers -> Caches] /\ flagRead \in [Workers -> BOOLEAN]
  /\ timer \in {"wait", "raise", "update", "lower", "write"}
  /\ mode \in {"P2M", "M2M"} /\ turn \in Caches

(* The answer carries the values of the key it names: the test client      *)
(* prints them under it.  Two workers in doQuery at a time can break this, *)
(* through _sought.                                                        *)
AnswersTheQuestion ==
  \A w \in Workers : pc[w] = "reply" => res[w] = asked[w]

(* What a key has when no two queries have overlapped: its own values,     *)
(* pieces of some, or all of those of a longer key that is read back as it.*)
RightOrMisread(key, value) ==
  \/ value \in {key, Garbled}
  \/ value \in OnlyColons /\ ReadBack[value] = key

(* In the caches, the file and the answers a key has its own values,       *)
(* whatever the timer thread does between the steps of a query, unless two *)
(* workers have been in doQuery at a time or a start has misread a line of *)
(* the file, for a ':' in its key or because writing it was cut short.     *)
(* After such a start "a" may have the values of "a:", or pieces of those  *)
(* of another key, but still not those of a key that is none of its own    *)
(* with a ':' behind it.                                                   *)
WrongNeedsOverlapOrMisreading ==
  ~overlapped =>
    LET Right(key, value) == RightOrMisread(key, value) /\ (~misread => value = key)
    IN /\ \A i \in Caches : \A n \in ToSet(caches[i].lru) \cup ToSet(caches[i].pending) :
             Right(n.key, n.value)
       /\ \A n \in ToSet(file) : Right(n.key, n.value)
       /\ \A w \in Workers : pc[w] = "reply" => Right(asked[w], res[w])

(* The caches a worker and the timer thread are about to touch.  The       *)
(* worker's cache is a list that get, put and show() walk and relink.      *)
Touches(w) == IF pc[w] \in {"look", "store"} THEN {target[w]} ELSE {}
TimerTouches == IF timer = "update" THEN {0, turn} ELSE {}

(* As long as its flag is as the worker read it, the timer thread is off   *)
(* the cache the worker has chosen by it, whatever turn it is at by now;   *)
(* and no two workers choose one cache.  Worker 0 is not so lucky: its     *)
(* flag is up whichever cache is updated, its spare cache included.        *)
FlagsKeepApart ==
  /\ \A w \in Workers :
        flagRead[w] = updating[w] =>
          Touches(w) \cap TimerTouches = {} \/ (w = 0 /\ turn = Spare(0))
  /\ \A v, w \in Workers : v # w => Touches(v) \cap Touches(w) = {}

(* After a round that no query has disturbed every worker has the answers  *)
(* of all the others: the same entries are in all caches, and what is      *)
(* still to be merged is in none but cache 0, where it is never removed.   *)
RoundShares ==
  (timer = "wait" /\ quiet) =>
     \A i \in Caches \ {0} :
        /\ ToSet(caches[i].lru) = ToSet(caches[0].lru)
        /\ caches[i].pending = <<>>
===============================================================================
