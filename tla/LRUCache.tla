------------------------------- MODULE LRUCache -------------------------------
(***************************************************************************)
(* LRUCache of src/src/cache/LRUCache.cc as operators on a cache value:    *)
(* lru is _lru, most recently used first, and pending the                  *)
(* _pendingUpdateList, newest first.  _umap is the index of lru by key.    *)
(***************************************************************************)
EXTENDS Naturals, SequencesExt

CONSTANT CacheCapacity   \* _capacity

ASSUME CacheCapacityAssumption == CacheCapacity \in Nat \ {0}

Node(key, value) == [key |-> key, value |-> value]

EmptyCache == [lru |-> <<>>, pending |-> <<>>]

KeysOf(nodes) == {nodes[i].key : i \in DOMAIN nodes}
Hit(cache, key) == key \in KeysOf(cache.lru)
Without(nodes, key) == RemoveFirstMatch(nodes, LAMBDA n : n.key = key)
ValueOf(cache, key) == (CHOOSE n \in ToSet(cache.lru) : n.key = key).value

(* Mutant of Get: a hit leaves the node where it is. *)
GetKeepsPlace(cache, key) == cache

(* get: a hit moves the node to the front, a miss changes nothing. *)
Get(cache, key) ==
  IF Hit(cache, key)
  THEN [cache EXCEPT !.lru = <<Node(key, ValueOf(cache, key))>> \o Without(@, key)]
  ELSE cache

(* Mutant of Put: the eviction comes one entry late. *)
PutEvictsLate(cache, key, value) ==
  LET grown == <<Node(key, value)>> \o Without(cache.lru, key)
  IN [lru     |-> IF Len(grown) > CacheCapacity + 1 THEN Front(grown) ELSE grown,
      pending |-> IF Hit(cache, key) THEN cache.pending
                  ELSE <<Node(key, value)>> \o cache.pending]

(* put: only a key that was not there is noted for the next update. *)
Put(cache, key, value) ==
  LET grown == <<Node(key, value)>> \o Without(cache.lru, key)
  IN [lru     |-> IF Len(grown) > CacheCapacity THEN Front(grown) ELSE grown,
      pending |-> IF Hit(cache, key) THEN cache.pending
                  ELSE <<Node(key, value)>> \o cache.pending]

PutAll(cache, nodes) ==
  LET after[n \in 0..Len(nodes)] ==
        IF n = 0 THEN cache ELSE Put(after[n - 1], nodes[n].key, nodes[n].value)
  IN after[Len(nodes)]

(* updateP2M: what from has noted is put, newest first; the caller clears. *)
UpdateP2M(cache, from) == PutAll(cache, from.pending)

(* updateM2M: the cache becomes a copy, entry by entry, so that the least  *)
(* recently used of from ends in front.  The list of pending nodes is      *)
(* cleared inside the loop, and so not when from is empty.                 *)
UpdateM2M(cache, from) ==
  [PutAll([cache EXCEPT !.lru = <<>>], from.lru) EXCEPT
     !.pending = IF from.lru = <<>> THEN cache.pending ELSE <<>>]

(* writeToFile writes a line per entry; readFromFile puts them in that order. *)
WriteToFile(cache) == cache.lru
ReadFromFile(cache, lines) == PutAll(cache, lines)
===============================================================================
