--------------------------- MODULE CacheRoundsProofs ---------------------------
(***************************************************************************)
(* What holds of CacheRounds for any number of caches and queries, any     *)
(* keys, libraries and capacity: a cache is the front of the list of what  *)
(* was used, and what was stored in time is not lost.                      *)
(***************************************************************************)
EXTENDS CacheRounds, DataLemmas

(* A value is the key itself. *)
Lines == {Line(key) : key \in Keys}

LEMMA LinesNodal == Nodal(Lines) /\ \A n \in Lines : n = Line(n.key) /\ n.key \in Keys
BY DEF Nodal, Lines, Line, Node

KeyAt(keys, key, q) ==
  /\ q \in 1..(Len(keys) + 1)
  /\ \A i \in 1..Len(keys) : keys[i] = key <=> i = q

UsedOnce(keys) == keys \in Seq(Keys) /\ IsInjective(keys)

(* The cache holds the front of keys, as many as it has room for. *)
Fits(c, keys) ==
  /\ Len(c.lru) = IF Len(keys) < CacheCapacity THEN Len(keys) ELSE CacheCapacity
  /\ \A j \in 1..Len(c.lru) : c.lru[j].key = keys[j]

LEMMA HasKeyPlace ==
  ASSUME NEW u, UsedOnce(u), NEW key
  PROVE  \E q \in 1..(Len(u) + 1) : KeyAt(u, key, q)
<1>1. DOMAIN u = 1..Len(u) /\ Len(u) \in Nat
  BY LenProperties DEF UsedOnce
<1>2. CASE \E i \in 1..Len(u) : u[i] = key
  BY <1>1, <1>2 DEF UsedOnce, IsInjective, KeyAt
<1>3. CASE \A i \in 1..Len(u) : u[i] # key
  <2>1. KeyAt(u, key, Len(u) + 1)
    BY <1>1, <1>3 DEF KeyAt
  <2> QED BY <1>1, <2>1
<1> QED BY <1>2, <1>3

(* Using a key brings it to the front, and moves those before it by one. *)
LEMMA UseFronts ==
  ASSUME NEW u, UsedOnce(u), NEW key \in Keys, NEW q, KeyAt(u, key, q)
  PROVE  Use(u, key) \in Seq(Keys) /\ Fronted(Use(u, key), key, u, q)
<1>1. Len(u) \in Nat /\ u \in Seq(Keys) /\ q \in 1..(Len(u) + 1)
  BY LenProperties DEF UsedOnce, KeyAt
<1>2. RemoveFirst(u, key) = SubSeq(u, 1, q - 1) \o SubSeq(u, q + 1, Len(u))
  <2>1. CASE q <= Len(u)
    <3> DEFINE I == {i \in 1..Len(u) : u[i] = key}
    <3>1. I = {q}
      BY <1>1, <2>1 DEF KeyAt
    <3>2. Min(I) = q
      BY <3>1 DEF Min
    <3>3. I # {}
      BY <3>1
    <3> QED BY <3>2, <3>3 DEF RemoveFirst, SelectInSeq, RemoveAt
  <2>2. CASE q = Len(u) + 1
    <3>1. RemoveFirst(u, key) = u
      BY <1>1, <2>2 DEF RemoveFirst, KeyAt
    <3>2. SubSeq(u, q + 1, Len(u)) = <<>>
      BY <1>1, <2>2, SubSeqEmpty
    <3>3. SubSeq(u, 1, q - 1) = u
      BY <1>1, <2>2, SubSeqFull
    <3>4. u \o <<>> = u
      BY <1>1, ConcatEmptySeq
    <3> QED BY <3>1, <3>2, <3>3, <3>4
  <2>3. q <= Len(u) \/ q = Len(u) + 1
    BY <1>1
  <2> QED BY <2>1, <2>2, <2>3
<1> DEFINE h == <<key>>
<1>3. h \in Seq(Keys) /\ Len(h) = 1 /\ h[1] = key
  OBVIOUS
<1>4. Use(u, key) = h \o RemoveFirst(u, key)
  BY DEF Use
<1> HIDE DEF h
<1>5. Use(u, key) = h \o (SubSeq(u, 1, q - 1) \o SubSeq(u, q + 1, Len(u)))
  BY <1>2, <1>4
<1> QED BY <1>1, <1>3, <1>5, MovedToFront, Zenon

LEMMA UseOnce ==
  ASSUME NEW u, UsedOnce(u), NEW key \in Keys
  PROVE  /\ UsedOnce(Use(u, key))
         /\ Range(Use(u, key)) = Range(u) \cup {key}
<1> DEFINE v == Use(u, key)
<1>1. Len(u) \in Nat /\ DOMAIN u = 1..Len(u)
  BY LenProperties DEF UsedOnce
<1>2. PICK q \in 1..(Len(u) + 1) : KeyAt(u, key, q)
  BY HasKeyPlace
<1>3. v \in Seq(Keys) /\ Fronted(v, key, u, q)
  BY <1>2, UseFronts
<1> HIDE DEF v
<1>4. DOMAIN v = 1..Len(v) /\ Len(v) \in Nat
  BY <1>3, LenProperties
<1> DEFINE from(j) == IF j <= q THEN j - 1 ELSE j
<1>5. v[1] = key /\ 1 \in 1..Len(v)
  BY <1>1, <1>2, <1>3 DEF Fronted
<1>6. ASSUME NEW j \in 2..Len(v)
      PROVE  from(j) \in 1..Len(u) /\ v[j] = u[from(j)] /\ from(j) # q /\ v[j] # key
  <2>1. from(j) \in 1..Len(u) /\ v[j] = u[from(j)] /\ from(j) # q
    BY <1>1, <1>2, <1>3 DEF Fronted
  <2> QED BY <1>2, <2>1 DEF KeyAt
<1>7. ASSUME NEW i \in 1..Len(v), NEW j \in 1..Len(v), v[i] = v[j] PROVE i = j
  <2>1. CASE i = 1 \/ j = 1
    <3>1. \A k \in 1..Len(v) : k # 1 => k \in 2..Len(v)
      BY <1>4
    <3> QED BY <1>5, <1>6, <1>7, <2>1, <3>1
  <2>2. CASE i # 1 /\ j # 1
    <3>1. i \in 2..Len(v) /\ j \in 2..Len(v)
      BY <1>4, <2>2
    <3>2. from(i) = from(j) /\ from(i) # q
      BY <1>1, <1>6, <1>7, <3>1 DEF UsedOnce, IsInjective
    <3> QED BY <1>2, <3>1, <3>2
  <2> QED BY <2>1, <2>2
<1>8. UsedOnce(v)
  BY <1>3, <1>4, <1>7 DEF UsedOnce, IsInjective
<1>9. Range(v) = Range(u) \cup {key}
  <2>1. ASSUME NEW j \in 1..Len(v) PROVE v[j] \in Range(u) \cup {key}
    <3>1. j = 1 \/ j \in 2..Len(v)
      BY <1>4
    <3> QED BY <1>1, <1>5, <1>6, <3>1 DEF Range
  <2>2. ASSUME NEW i \in 1..Len(u), u[i] # key PROVE u[i] \in Range(v)
    <3> DEFINE j == IF i < q THEN i + 1 ELSE i
    <3>1. i # q
      BY <1>2, <2>2 DEF KeyAt
    <3>2. j \in 2..Len(v) /\ from(j) = i
      BY <1>1, <1>2, <1>3, <3>1 DEF Fronted
    <3>3. v[j] = u[i] /\ j \in DOMAIN v
      BY <1>4, <1>6, <3>2
    <3> QED BY <3>3 DEF Range
  <2>3. key \in Range(v)
    BY <1>4, <1>5 DEF Range
  <2> QED BY <1>1, <1>4, <2>1, <2>2, <2>3 DEF Range
<1> QED BY <1>8, <1>9 DEF v

-------------------------------------------------------------------------------
(* get and put keep a cache the front of what was used. *)
LEMMA QueryFits ==
  ASSUME NEW c \in CachesOf(Lines), NEW u, UsedOnce(u), Fits(c, u), NEW key \in Keys
  PROVE  /\ Fits(Put(c, key, key), Use(u, key))
         /\ Hit(c, key) => Fits(Get(c, key), Use(u, key))
<1>1. /\ c.lru \in Seq(Lines) /\ Distinct(c.lru)
      /\ Len(c.lru) \in Nat /\ Len(u) \in Nat /\ CacheCapacity \in Nat \ {0}
  BY LenProperties, CacheCapacityAssumption DEF CachesOf, UsedOnce
<1>2. PICK p \in 1..(Len(c.lru) + 1) : At(c.lru, key, p)
  BY <1>1, HasPlace
<1>3. PICK q \in 1..(Len(u) + 1) : KeyAt(u, key, q)
  BY HasKeyPlace
<1>4. \/ p \in 1..Len(c.lru) /\ q = p
      \/ p = Len(c.lru) + 1 /\ q > Len(c.lru)
  <2>1. Len(c.lru) <= Len(u) /\ \A i \in 1..Len(c.lru) : c.lru[i].key = u[i]
    BY <1>1 DEF Fits
  <2>2. \A i \in 1..Len(c.lru) : i = p <=> i = q
    BY <1>1, <1>2, <1>3, <2>1 DEF At, KeyAt
  <2> QED BY <1>1, <1>2, <1>3, <2>2
<1> DEFINE v == Use(u, key)
<1>5. v \in Seq(Keys) /\ Fronted(v, key, u, q)
  BY <1>3, UseFronts
<1> HIDE DEF v
<1>6. Fits(Put(c, key, key), v)
  <2> DEFINE a == Put(c, key, key)
  <2>1. Node(key, key) \in Lines /\ Node(key, key).key = key
    BY DEF Lines, Line, Node
  <2>2. IsPut(a, c, key, key, p)
    BY <1>2, <2>1, LinesNodal, PutLru
  <2> HIDE DEF a
  <2>3. Len(a.lru) = IF Len(v) < CacheCapacity THEN Len(v) ELSE CacheCapacity
    BY <1>1, <1>2, <1>3, <1>4, <1>5, <2>2 DEF IsPut, Fronted, Fits
  <2>4. ASSUME NEW j \in 1..Len(a.lru) PROVE a.lru[j].key = v[j]
    <3>1. j \in 1..Len(v)
      BY <1>1, <1>5, <2>3 DEF Fronted
    <3>2. CASE j = 1
      BY <1>5, <2>1, <2>2, <3>1, <3>2 DEF IsPut, Fronted
    <3>3. CASE j # 1 /\ j <= p
      <4>1. j <= q /\ j - 1 \in 1..Len(c.lru)
        BY <1>1, <1>2, <1>4, <3>3
      <4>2. a.lru[j] = c.lru[j - 1] /\ v[j] = u[j - 1]
        BY <1>5, <2>2, <3>1, <3>3, <4>1 DEF IsPut, Fronted
      <4> QED BY <4>1, <4>2 DEF Fits
    <3>4. CASE j > p
      <4>1. q = p /\ j \in 1..Len(c.lru)
        BY <1>1, <1>2, <1>4, <2>2, <3>4 DEF IsPut
      <4>2. a.lru[j] = c.lru[j] /\ v[j] = u[j]
        BY <1>2, <1>5, <2>2, <3>1, <3>4, <4>1 DEF IsPut, Fronted
      <4> QED BY <4>1, <4>2 DEF Fits
    <3> QED BY <1>2, <3>2, <3>3, <3>4
  <2> QED BY <2>3, <2>4 DEF Fits, a
<1>7. ASSUME Hit(c, key) PROVE Fits(Get(c, key), v)
  <2> DEFINE a == Get(c, key)
  <2>0. IsGot(a, c, p)
    BY <1>2, <1>7, LinesNodal, GetLru
  <2> HIDE DEF a
  <2>1. /\ p \in 1..Len(c.lru) /\ Len(a.lru) = Len(c.lru)
        /\ \A j \in 1..Len(c.lru) :
              a.lru[j] = IF j = 1 THEN c.lru[p]
                         ELSE IF j <= p THEN c.lru[j - 1] ELSE c.lru[j]
    BY <2>0 DEF IsGot
  <2>2. q = p /\ Len(v) = Len(u) /\ c.lru[p].key = key
    BY <1>1, <1>2, <1>4, <1>5, <2>1 DEF At, Fronted, Fits
  <2>3. Len(a.lru) = IF Len(v) < CacheCapacity THEN Len(v) ELSE CacheCapacity
    BY <2>1, <2>2 DEF Fits
  <2>4. ASSUME NEW j \in 1..Len(a.lru) PROVE a.lru[j].key = v[j]
    <3>1. j \in 1..Len(v)
      BY <1>1, <2>2, <2>3
    <3>2. CASE j = 1
      BY <1>5, <2>1, <2>2, <3>1, <3>2 DEF Fronted
    <3>3. CASE j # 1 /\ j <= p
      <4>1. j - 1 \in 1..Len(c.lru)
        BY <1>1, <2>1, <3>3
      <4>2. a.lru[j] = c.lru[j - 1] /\ v[j] = u[j - 1]
        BY <1>5, <2>1, <2>2, <3>1, <3>3 DEF Fronted
      <4> QED BY <4>1, <4>2 DEF Fits
    <3>4. CASE j > p
      <4>1. a.lru[j] = c.lru[j] /\ v[j] = u[j]
        BY <1>2, <1>5, <2>1, <2>2, <3>1, <3>4 DEF Fronted
      <4> QED BY <2>1, <4>1 DEF Fits
    <3> QED BY <1>2, <3>2, <3>3, <3>4
  <2> QED BY <2>3, <2>4 DEF Fits, a
<1> QED BY <1>6, <1>7 DEF v

(* The lists on the way of UseAll. *)
Uses(f, u, more) == f[0] = u /\ \A i \in 1..Len(more) : f[i] = Use(f[i - 1], more[i])

LEMMA UseAllSteps ==
  ASSUME NEW u, UsedOnce(u), NEW more \in Seq(Keys)
  PROVE  \E f \in [0..Len(more) -> {v \in Seq(Keys) : UsedOnce(v)}] :
            Uses(f, u, more) /\ UseAll(u, more) = f[Len(more)]
<1> DEFINE O == {v \in Seq(Keys) : UsedOnce(v)}
           step == [vk \in O \X Keys |-> Use(vk[1], vk[2])]
           Rest(g) == [n \in 0..Len(more) |-> IF n = 0 THEN u ELSE Use(g[n - 1], more[n])]
<1>1. ASSUME NEW v \in O, NEW key \in Keys PROVE Use(v, key) \in O
  BY UseOnce DEF UsedOnce
<1>2. step \in [O \X Keys -> O]
  <2> HIDE DEF O
  <2> QED BY <1>1
<1>3. PICK f \in [0..Len(more) -> O] : Steps(f, step, u, more)
  <2>1. u \in O
    BY DEF UsedOnce
  <2> HIDE DEF O, step
  <2> QED BY <1>2, <2>1, StepsExist
<1>4. Len(more) \in Nat /\ \A i \in 1..Len(more) : more[i] \in Keys
  BY LenProperties, ElementOfSeq
<1>5. f = Rest(f)
  <2> HIDE DEF O
  <2>1. ASSUME NEW i \in 1..Len(more) PROVE f[i] = Use(f[i - 1], more[i])
    <3>1. i - 1 \in 0..Len(more)
      BY <1>4
    <3>2. f[i - 1] \in O /\ more[i] \in Keys
      BY <1>4, <3>1
    <3> QED BY <1>3, <3>2 DEF Steps
  <2> QED BY <1>3, <1>4, <2>1 DEF Steps
<1> DEFINE after == CHOOSE g : g = Rest(g)
<1>6. after = Rest(after)
  <2> HIDE DEF Rest
  <2> QED BY <1>5
<1>7. UseAll(u, more) = after[Len(more)]
  BY DEF UseAll
<1> HIDE DEF after
<1>8. Uses(after, u, more)
  BY <1>4, <1>6 DEF Uses
<1>9. after \in [0..Len(more) -> O]
  <2> DEFINE T == {i \in 0..Len(more) : after[i] \in O}
  <2>0. u \in O
    BY DEF UsedOnce
  <2> HIDE DEF O
  <2>1. 0 \in T
    BY <1>4, <1>8, <2>0 DEF Uses
  <2>2. ASSUME NEW i \in 0..(Len(more) - 1), i \in T PROVE i + 1 \in T
    <3>1. i + 1 \in 1..Len(more) /\ (i + 1) - 1 = i
      BY <1>4
    <3>2. after[i + 1] = Use(after[i], more[i + 1])
      BY <1>8, <3>1 DEF Uses
    <3> QED BY <1>1, <1>4, <2>2, <3>1, <3>2
  <2>3. 0..Len(more) \subseteq T
    <3> HIDE DEF T
    <3> QED BY <1>4, <2>1, <2>2, IntervalInduction
  <2> QED BY <1>6, <2>3
<1> QED BY <1>7, <1>8, <1>9

LEMMA KeySeqTyped ==
  ASSUME NEW nodes \in Seq(Lines)
  PROVE  /\ KeySeq(nodes) \in Seq(Keys) /\ Len(KeySeq(nodes)) = Len(nodes)
         /\ \A i \in 1..Len(nodes) : KeySeq(nodes)[i] = nodes[i].key /\ nodes[i] = Line(nodes[i].key)
         /\ KeysOf(nodes) = Range(KeySeq(nodes))
<1>1. DOMAIN nodes = 1..Len(nodes) /\ Len(nodes) \in Nat /\ \A i \in 1..Len(nodes) : nodes[i] \in Lines
  BY LenProperties, ElementOfSeq
<1>2. KeySeq(nodes) = [n \in 1..Len(nodes) |-> nodes[n].key]
  BY <1>1 DEF KeySeq
<1>3. \A i \in 1..Len(nodes) : nodes[i].key \in Keys /\ nodes[i] = Line(nodes[i].key)
  BY <1>1, LinesNodal
<1>4. KeySeq(nodes) \in Seq(Keys) /\ Len(KeySeq(nodes)) = Len(nodes)
  BY <1>1, <1>2, <1>3
<1>5. KeysOf(nodes) = Range(KeySeq(nodes))
  BY <1>1, <1>2 DEF KeysOf, Range
<1> QED BY <1>2, <1>3, <1>4, <1>5

(* updateP2M and readFromFile keep a cache the front of what was used. *)
LEMMA PutAllFits ==
  ASSUME NEW c \in CachesOf(Lines), NEW u, UsedOnce(u), Fits(c, u), NEW nodes \in Seq(Lines)
  PROVE  LET v == UseAll(u, KeySeq(nodes))
         IN /\ UsedOnce(v) /\ Fits(PutAll(c, nodes), v)
            /\ Range(v) = Range(u) \cup KeysOf(nodes)
<1> DEFINE ks == KeySeq(nodes)
           O == {v \in Seq(Keys) : UsedOnce(v)}
<1>1. /\ ks \in Seq(Keys) /\ Len(ks) = Len(nodes) /\ Len(nodes) \in Nat
      /\ KeysOf(nodes) = Range(ks)
      /\ \A i \in 1..Len(nodes) : ks[i] = nodes[i].key /\ ks[i] \in Keys /\ nodes[i] = Line(ks[i])
  <2>1. ks \in Seq(Keys) /\ Len(ks) = Len(nodes)
    BY KeySeqTyped
  <2>2. \A i \in 1..Len(ks) : ks[i] \in Keys
    BY <2>1, ElementOfSeq
  <2> QED BY <2>1, <2>2, KeySeqTyped, LenProperties
<1> HIDE DEF ks
<1>2. PICK f \in [0..Len(nodes) -> CachesOf(Lines)] :
         Puts(f, c, nodes) /\ PutAll(c, nodes) = f[Len(nodes)]
  BY LinesNodal, PutAllSteps
<1>3. PICK g \in [0..Len(ks) -> O] : Uses(g, u, ks) /\ UseAll(u, ks) = g[Len(ks)]
  BY <1>1, UseAllSteps
<1> DEFINE T == {n \in 0..Len(nodes) :
                   Fits(f[n], g[n]) /\ Range(g[n]) = Range(u) \cup {ks[i] : i \in 1..n}}
<1>4. 0 \in T
  BY <1>1, <1>2, <1>3 DEF Puts, Uses
<1>5. ASSUME NEW n \in 0..(Len(nodes) - 1), n \in T PROVE n + 1 \in T
  <2> DEFINE key == ks[n + 1]
  <2>1. n + 1 \in 1..Len(nodes) /\ (n + 1) - 1 = n /\ n \in 0..Len(nodes) /\ key \in Keys
    BY <1>1
  <2>2. nodes[n + 1].key = key /\ nodes[n + 1].value = key
    <3>1. nodes[n + 1] = Line(key)
      BY <1>1, <2>1
    <3> HIDE DEF key
    <3> QED BY <3>1 DEF Line, Node
  <2>3. f[n + 1] = Put(f[n], key, key)
    BY <1>2, <2>1, <2>2 DEF Puts
  <2>4. g[n + 1] = Use(g[n], key)
    BY <1>1, <1>3, <2>1 DEF Uses
  <2>5. f[n] \in CachesOf(Lines) /\ UsedOnce(g[n]) /\ Fits(f[n], g[n])
    BY <1>1, <1>2, <1>3, <1>5, <2>1
  <2>6. Fits(Put(f[n], key, key), Use(g[n], key))
    BY <2>1, <2>5, QueryFits
  <2>7. Range(Use(g[n], key)) = Range(g[n]) \cup {key}
    BY <2>1, <2>5, UseOnce
  <2>8. {ks[i] : i \in 1..(n + 1)} = {ks[i] : i \in 1..n} \cup {key}
    <3>1. \A i : i \in 1..(n + 1) <=> i \in 1..n \/ i = n + 1
      BY <2>1
    <3> QED BY <3>1, Zenon
  <2>9. Range(g[n + 1]) = Range(u) \cup {ks[i] : i \in 1..(n + 1)}
    <3>1. Range(g[n]) = Range(u) \cup {ks[i] : i \in 1..n}
      BY <1>5
    <3> HIDE DEF key
    <3> QED BY <2>4, <2>7, <2>8, <3>1, Zenon
  <2>10. Fits(f[n + 1], g[n + 1]) /\ n + 1 \in 0..Len(nodes)
    BY <1>1, <2>1, <2>3, <2>4, <2>6
  <2> QED BY <2>9, <2>10
<1>6. Len(nodes) \in T
  <2>1. 0..Len(nodes) \subseteq T
    <3> HIDE DEF T
    <3> QED BY <1>1, <1>4, <1>5, IntervalInduction
  <2> QED BY <1>1, <2>1
<1>7. Range(ks) = {ks[i] : i \in 1..Len(nodes)}
  <2>1. DOMAIN ks = 1..Len(nodes)
    BY <1>1, LenProperties
  <2> QED BY <2>1 DEF Range
<1>8. UsedOnce(UseAll(u, ks))
  BY <1>1, <1>3
<1> QED BY <1>1, <1>2, <1>3, <1>6, <1>7, <1>8 DEF ks

(* The copy: the keys are turned round, too. *)
LEMMA CopyFits ==
  ASSUME NEW c \in CachesOf(Lines), NEW d \in CachesOf(Lines)
  PROVE  LET v == Reverse(KeySeq(d.lru))
         IN UsedOnce(v) /\ Fits(UpdateM2M(c, d), v)
<1> DEFINE s == d.lru
           ks == KeySeq(s)
           v == Reverse(ks)
           a == UpdateM2M(c, d)
<1>1. s \in Seq(Lines) /\ Len(s) \in Nat /\ Len(s) <= CacheCapacity /\ Distinct(s)
  BY LenProperties DEF CachesOf
<1>2. /\ ks \in Seq(Keys) /\ Len(ks) = Len(s)
      /\ \A i \in 1..Len(s) : ks[i] = s[i].key /\ ks[i] \in Keys
  <2>1. ks \in Seq(Keys) /\ Len(ks) = Len(s)
    BY <1>1, KeySeqTyped
  <2>2. \A i \in 1..Len(ks) : ks[i] \in Keys
    BY <2>1, ElementOfSeq
  <2> QED BY <1>1, <2>1, <2>2, KeySeqTyped
<1>3. a.lru = Reverse(s)
  BY LinesNodal, CopyReverses
<1> HIDE DEF s, ks, a
<1>4. v = [j \in 1..Len(s) |-> ks[(Len(s) - j) + 1]]
  BY <1>2 DEF Reverse
<1>5. Reverse(s) = [j \in 1..Len(s) |-> s[(Len(s) - j) + 1]]
  BY DEF Reverse
<1>6. \A j \in 1..Len(s) : (Len(s) - j) + 1 \in 1..Len(s)
  BY <1>1
<1>7. v \in Seq(Keys) /\ Len(v) = Len(s) /\ DOMAIN v = 1..Len(s)
  BY <1>1, <1>2, <1>4, <1>6
<1>8. UsedOnce(v)
  <2>1. ASSUME NEW i \in 1..Len(s), NEW j \in 1..Len(s), v[i] = v[j] PROVE i = j
    <3> DEFINE i2 == (Len(s) - i) + 1
               j2 == (Len(s) - j) + 1
    <3>1. i2 \in 1..Len(s) /\ j2 \in 1..Len(s) /\ v[i] = ks[i2] /\ v[j] = ks[j2]
      BY <1>4, <1>6
    <3>2. i2 = j2 => i = j
      BY <1>1
    <3> HIDE DEF i2, j2
    <3>3. s[i2].key = s[j2].key
      BY <1>2, <2>1, <3>1
    <3> QED BY <1>1, <3>1, <3>2, <3>3 DEF Distinct
  <2> QED BY <1>7, <2>1 DEF UsedOnce, IsInjective
<1>9. Fits(a, v)
  <2>1. Len(a.lru) = Len(s) /\ \A j \in 1..Len(s) : a.lru[j] = s[(Len(s) - j) + 1]
    BY <1>1, <1>3, <1>5
  <2>2. \A j \in 1..Len(s) : a.lru[j].key = v[j]
    BY <1>2, <1>4, <1>6, <2>1
  <2>3. CacheCapacity \in Nat
    BY CacheCapacityAssumption
  <2> HIDE DEF v
  <2>4. Len(a.lru) = IF Len(v) < CacheCapacity THEN Len(v) ELSE CacheCapacity
    <3> DEFINE m == Len(v)
    <3>1. Len(a.lru) = m /\ m \in Nat /\ m <= CacheCapacity
      BY <1>1, <1>7, <2>1
    <3> HIDE DEF m
    <3>2. m = IF m < CacheCapacity THEN m ELSE CacheCapacity
      BY <2>3, <3>1
    <3> QED BY <3>1, <3>2 DEF m
  <2>5. \A j \in 1..Len(a.lru) : a.lru[j].key = v[j]
    BY <2>1, <2>2
  <2> QED BY <2>4, <2>5 DEF Fits
<1> QED BY <1>8, <1>9 DEF v, ks, a, s

-------------------------------------------------------------------------------
(* What is in the caches, and that each is the front of its history. *)
Sound ==
  /\ caches \in [Caches -> CachesOf(Lines)]
  /\ DOMAIN used = Caches
  /\ \A i \in Caches : UsedOnce(used[i]) /\ Fits(caches[i], used[i])
  /\ mode \in {"between", "P2M", "M2M"} /\ turn \in 1..LastCache
  /\ inTime \subseteq Keys

(* What was stored in time came to cache 0, or waits in a cache whose      *)
(* pending list the next copy will not find: it is merged before.          *)
Kept(key) ==
  \/ key \in Range(used[0])
  \/ \E i \in Caches \ {0} : ~AwaitsCopy(i) /\ key \in KeysOf(caches[i].pending)

RoundsInv == Sound /\ \A key \in inTime : Kept(key)

LEMMA InitRounds == Init => RoundsInv
<1> SUFFICES ASSUME Init PROVE RoundsInv
  OBVIOUS
<1> DEFINE linesOf(library) == [n \in DOMAIN library |-> Line(library[n])]
<1>1. PICK library \in Libraries :
         /\ caches = [i \in Caches |-> IF i = 0 THEN ReadFromFile(EmptyCache, linesOf(library))
                                               ELSE EmptyCache]
         /\ used = [i \in Caches |-> IF i = 0 THEN UseAll(<<>>, library) ELSE <<>>]
  BY DEF Init
<1> DEFINE lines == linesOf(library)
           c == PutAll(EmptyCache, lines)
<1>2. library \in Seq(Keys) /\ DOMAIN library = 1..Len(library) /\ Len(library) \in Nat
      /\ \A n \in 1..Len(library) : library[n] \in Keys
  <2>1. library \in Seq(Keys)
    BY LibrariesAssumption
  <2> QED BY <2>1, LenProperties, ElementOfSeq
<1>3. lines \in Seq(Lines) /\ KeySeq(lines) = library
  <2>1. lines = [n \in 1..Len(library) |-> Line(library[n])]
    BY <1>2
  <2> HIDE DEF lines
  <2>2. lines \in Seq(Lines) /\ DOMAIN lines = 1..Len(library)
    BY <1>2, <2>1 DEF Lines
  <2>3. KeySeq(lines) = [n \in 1..Len(library) |-> library[n]]
    BY <2>1, <2>2 DEF KeySeq, Line, Node
  <2>4. library = [n \in 1..Len(library) |-> library[n]]
    BY <1>2, LenProperties
  <2> QED BY <2>2, <2>3, <2>4
<1> HIDE DEF lines
<1>4. EmptyCache \in CachesOf(Lines) /\ UsedOnce(<<>>) /\ Fits(EmptyCache, <<>>)
  <2>1. EmptyCache \in CachesOf(Lines)
    BY EmptyCacheTyped
  <2>2. UsedOnce(<<>>)
    BY DEF UsedOnce, IsInjective
  <2>3. Len(<<>>) = 0 /\ EmptyCache.lru = <<>>
    BY DEF EmptyCache
  <2>4. Fits(EmptyCache, <<>>)
    BY <2>3, CacheCapacityAssumption DEF Fits
  <2> QED BY <2>1, <2>2, <2>4
<1>5. UsedOnce(UseAll(<<>>, library)) /\ Fits(c, UseAll(<<>>, library))
  BY <1>3, <1>4, PutAllFits
<1>6. c \in CachesOf(Lines)
  BY <1>3, <1>4, LinesNodal, PutAllTyped
<1>7. \A i \in Caches : /\ caches[i] = IF i = 0 THEN c ELSE EmptyCache
                        /\ used[i] = IF i = 0 THEN UseAll(<<>>, library) ELSE <<>>
  BY <1>1 DEF ReadFromFile, lines
<1> HIDE DEF c
<1>8. caches \in [Caches -> CachesOf(Lines)]
  <2>1. caches = [i \in Caches |-> caches[i]]
    BY <1>1
  <2> QED BY <1>4, <1>6, <1>7, <2>1
<1>9. mode = "between" /\ turn \in 1..LastCache /\ inTime = {} /\ DOMAIN used = Caches
  BY <1>1, CachesAssumption DEF Init
<1> QED BY <1>4, <1>5, <1>7, <1>8, <1>9 DEF RoundsInv, Sound

-------------------------------------------------------------------------------
(* Nothing that waits in a pending list leaves it for a query. *)
LEMMA QueryKeepsPending ==
  ASSUME NEW c \in CachesOf(Lines), NEW key \in Keys
  PROVE  /\ KeysOf(Get(c, key).pending) = KeysOf(c.pending)
         /\ KeysOf(c.pending) \subseteq KeysOf(Put(c, key, key).pending)
         /\ ~Hit(c, key) => key \in KeysOf(Put(c, key, key).pending)
<1>1. Get(c, key).pending = c.pending
  BY DEF Get, CachesOf
<1>2. Put(c, key, key).pending = IF Hit(c, key) THEN c.pending
                                 ELSE <<Node(key, key)>> \o c.pending
  BY DEF Put
<1> DEFINE h == <<Node(key, key)>>
           q == h \o c.pending
<1>3. /\ DOMAIN q = 1..(1 + Len(c.pending)) /\ Len(c.pending) \in Nat
      /\ DOMAIN c.pending = 1..Len(c.pending)
      /\ q[1] = Node(key, key) /\ \A i \in 1..Len(c.pending) : q[i + 1] = c.pending[i]
  <2>1. h \in Seq(Lines) /\ Len(h) = 1 /\ h[1] = Node(key, key)
    BY DEF Lines, Line
  <2>2. c.pending \in Seq(Lines)
    BY DEF CachesOf
  <2> HIDE DEF h
  <2>3. /\ q \in Seq(Lines) /\ Len(q) = Len(h) + Len(c.pending)
        /\ \A i \in 1..Len(h) + Len(c.pending) :
              q[i] = IF i <= Len(h) THEN h[i] ELSE c.pending[i - Len(h)]
    BY <2>1, <2>2, ConcatProperties
  <2>4. Len(c.pending) \in Nat /\ DOMAIN c.pending = 1..Len(c.pending) /\ DOMAIN q = 1..Len(q)
    BY <2>2, <2>3, LenProperties
  <2> HIDE DEF q
  <2>5. \A i \in 1..Len(c.pending) : q[i + 1] = c.pending[i]
    BY <2>1, <2>3, <2>4
  <2> QED BY <2>1, <2>3, <2>4, <2>5
<1> HIDE DEF q
<1>4. key \in KeysOf(q)
  BY <1>3 DEF KeysOf, Node
<1>5. ASSUME NEW i \in 1..Len(c.pending) PROVE c.pending[i].key \in KeysOf(q)
  <2>1. i + 1 \in DOMAIN q /\ q[i + 1] = c.pending[i]
    BY <1>3
  <2> QED BY <2>1 DEF KeysOf
<1>6. KeysOf(c.pending) \subseteq KeysOf(q)
  BY <1>3, <1>5 DEF KeysOf
<1> QED BY <1>1, <1>2, <1>4, <1>6 DEF q

LEMMA QueryRounds ==
  ASSUME RoundsInv, NEW i \in Caches, NEW key \in Keys, DoQuery(i, key)
  PROVE  RoundsInv'
<1> DEFINE c == caches[i]
           found == Hit(c, key)
           d == IF found THEN Get(c, key) ELSE Put(c, key, key)
           v == Use(used[i], key)
<1>1. c \in CachesOf(Lines) /\ UsedOnce(used[i]) /\ Fits(c, used[i])
  BY DEF RoundsInv, Sound
<1>2. caches' = [caches EXCEPT ![i] = d] /\ used' = [used EXCEPT ![i] = v]
  BY DEF DoQuery
<1>3. UsedOnce(v) /\ Fits(d, v) /\ Range(v) = Range(used[i]) \cup {key}
  BY <1>1, QueryFits, UseOnce
<1>4. d \in CachesOf(Lines)
  <2>1. Node(key, key) \in Lines
    BY DEF Lines, Line
  <2> QED BY <1>1, <2>1, LinesNodal, GetTyped, PutTyped
<1>5. KeysOf(c.pending) \subseteq KeysOf(d.pending) /\ (found \/ key \in KeysOf(d.pending))
  BY <1>1, QueryKeepsPending
<1>6. inTime' = IF found \/ AwaitsCopy(i) THEN inTime ELSE inTime \cup {key}
  BY DEF DoQuery
<1>7. UNCHANGED <<mode, turn>>
  BY DEF DoQuery
<1> HIDE DEF c, d, v, found
<1>8. Sound'
  <2>1. caches' \in [Caches -> CachesOf(Lines)] /\ DOMAIN used' = Caches
    BY <1>2, <1>4 DEF RoundsInv, Sound
  <2>2. ASSUME NEW j \in Caches PROVE UsedOnce(used'[j]) /\ Fits(caches'[j], used'[j])
    BY <1>2, <1>3 DEF RoundsInv, Sound
  <2>3. inTime' \subseteq Keys
    BY <1>6 DEF RoundsInv, Sound
  <2> QED BY <1>7, <2>1, <2>2, <2>3 DEF RoundsInv, Sound
<1>9. ASSUME NEW k \in inTime' PROVE Kept(k)'
  <2>1. \A j \in Caches : AwaitsCopy(j)' <=> AwaitsCopy(j)
    BY <1>7 DEF AwaitsCopy
  <2>2. \A j \in Caches : caches'[j] = IF j = i THEN d ELSE caches[j]
    BY <1>2 DEF RoundsInv, Sound
  <2>3. \A j \in Caches : used'[j] = IF j = i THEN v ELSE used[j]
    BY <1>2 DEF RoundsInv, Sound
  <2>4. 0 \in Caches
    BY CachesAssumption DEF Caches
  <2>5. CASE k \in inTime
    <3>1. Kept(k)
      BY <2>5 DEF RoundsInv
    <3>2. CASE k \in Range(used[0])
      <4>1. k \in Range(used'[0])
        BY <1>3, <2>3, <2>4, <3>2
      <4> QED BY <4>1 DEF Kept
    <3>3. CASE \E j \in Caches \ {0} : ~AwaitsCopy(j) /\ k \in KeysOf(caches[j].pending)
      <4>1. PICK j \in Caches \ {0} : ~AwaitsCopy(j) /\ k \in KeysOf(caches[j].pending)
        BY <3>3
      <4>2. k \in KeysOf(caches'[j].pending)
        BY <1>5, <2>2, <4>1 DEF c
      <4>3. ~AwaitsCopy(j)'
        BY <2>1, <4>1
      <4> QED BY <4>1, <4>2, <4>3 DEF Kept
    <3> QED BY <3>1, <3>2, <3>3 DEF Kept
  <2>6. CASE k = key /\ ~found /\ ~AwaitsCopy(i)
    <3>1. CASE i = 0
      <4>1. k \in Range(used'[0])
        BY <1>3, <2>3, <2>4, <2>6, <3>1
      <4> QED BY <4>1 DEF Kept
    <3>2. CASE i # 0
      <4>1. k \in KeysOf(caches'[i].pending) /\ ~AwaitsCopy(i)'
        BY <1>5, <2>1, <2>2, <2>6
      <4> QED BY <3>2, <4>1 DEF Kept
    <3> QED BY <3>1, <3>2
  <2> QED BY <1>6, <1>9, <2>5, <2>6
<1> QED BY <1>8, <1>9 DEF RoundsInv

LEMMA TurnTyped ==
  ASSUME turn \in 1..LastCache, NEW after, NextTurn(after)
  PROVE  /\ turn' \in 1..LastCache
         /\ \/ turn < LastCache /\ turn' = turn + 1 /\ mode' = mode
            \/ turn = LastCache /\ turn' = 1 /\ mode' = after
BY CachesAssumption DEF NextTurn

LEMMA BeginRounds == RoundsInv /\ RoundBegins => RoundsInv'
<1> SUFFICES ASSUME RoundsInv, RoundBegins PROVE RoundsInv'
  OBVIOUS
<1>1. mode' = "P2M" /\ turn' = 1 /\ UNCHANGED <<caches, used, inTime>>
  BY DEF RoundBegins
<1>2. Sound'
  BY <1>1, CachesAssumption DEF RoundsInv, Sound
<1>3. \A j \in Caches : ~AwaitsCopy(j)'
  BY <1>1, CachesAssumption DEF AwaitsCopy, Caches
<1>4. ASSUME NEW key \in inTime' PROVE Kept(key)'
  <2>1. Kept(key)
    BY <1>1, <1>4 DEF RoundsInv
  <2> QED BY <1>1, <1>3, <2>1 DEF Kept
<1> QED BY <1>2, <1>4 DEF RoundsInv

LEMMA MergeRounds == RoundsInv /\ Merge => RoundsInv'
<1> SUFFICES ASSUME RoundsInv, Merge PROVE RoundsInv'
  OBVIOUS
<1> DEFINE c == UpdateP2M(caches[0], caches[turn])
           d == [caches[turn] EXCEPT !.pending = <<>>]
           v == UseAll(used[0], KeySeq(caches[turn].pending))
<1>1. /\ 0 \in Caches /\ turn \in Caches /\ turn # 0 /\ turn \in 1..LastCache /\ turn \in Nat
      /\ caches \in [Caches -> CachesOf(Lines)] /\ DOMAIN used = Caches
  BY CachesAssumption DEF Caches, RoundsInv, Sound
<1>2. caches' = [caches EXCEPT ![0] = c, ![turn] = d] /\ used' = [used EXCEPT ![0] = v]
  BY <1>1 DEF Merge
<1>3. UNCHANGED inTime /\ mode = "P2M" /\ NextTurn("M2M")
  BY DEF Merge
<1>4. /\ caches[0] \in CachesOf(Lines) /\ UsedOnce(used[0]) /\ Fits(caches[0], used[0])
      /\ caches[turn] \in CachesOf(Lines) /\ Fits(caches[turn], used[turn])
      /\ caches[turn].pending \in Seq(Lines)
  BY <1>1 DEF RoundsInv, Sound, CachesOf
<1>5. UsedOnce(v) /\ Fits(c, v) /\ Range(v) = Range(used[0]) \cup KeysOf(caches[turn].pending)
  BY <1>4, PutAllFits DEF UpdateP2M
<1>6. c \in CachesOf(Lines) /\ d \in CachesOf(Lines) /\ d.lru = caches[turn].lru
  <2>1. c \in CachesOf(Lines)
    BY <1>4, LinesNodal, UpdatesTyped
  <2>2. d \in CachesOf(Lines)
    BY <1>4, Cleared
  <2>3. d.lru = caches[turn].lru
    BY <1>4 DEF CachesOf
  <2> QED BY <2>1, <2>2, <2>3
<1>7. Fits(d, used[turn])
  BY <1>4, <1>6 DEF Fits
<1> HIDE DEF c, d, v
<1>8. /\ caches' \in [Caches -> CachesOf(Lines)] /\ DOMAIN used' = Caches
      /\ \A i \in Caches : /\ caches'[i] = IF i = turn THEN d ELSE IF i = 0 THEN c ELSE caches[i]
                           /\ used'[i] = IF i = 0 THEN v ELSE used[i]
  BY <1>1, <1>2, <1>6
<1>9. /\ turn' \in 1..LastCache /\ mode' \in {"P2M", "M2M"}
      /\ \/ turn < LastCache /\ turn' = turn + 1 /\ mode' = mode
         \/ turn = LastCache /\ turn' = 1 /\ mode' = "M2M"
  BY <1>1, <1>3, TurnTyped
<1>10. Sound'
  <2>1. ASSUME NEW i \in Caches PROVE UsedOnce(used'[i]) /\ Fits(caches'[i], used'[i])
    BY <1>1, <1>5, <1>7, <1>8 DEF RoundsInv, Sound
  <2> QED BY <1>3, <1>8, <1>9, <2>1 DEF RoundsInv, Sound
<1>11. ASSUME NEW key \in inTime' PROVE Kept(key)'
  <2>1. Kept(key) /\ used'[0] = v
    BY <1>1, <1>3, <1>8, <1>11 DEF RoundsInv
  <2>2. CASE key \in Range(used[0])
    BY <1>5, <2>1, <2>2 DEF Kept
  <2>3. CASE \E j \in Caches \ {0} : ~AwaitsCopy(j) /\ key \in KeysOf(caches[j].pending)
    <3>1. PICK j \in Caches \ {0} : ~AwaitsCopy(j) /\ key \in KeysOf(caches[j].pending)
      BY <2>3
    <3>2. CASE j = turn
      BY <1>5, <2>1, <3>1, <3>2 DEF Kept
    <3>3. CASE j # turn
      <4>1. key \in KeysOf(caches'[j].pending)
        BY <1>8, <3>1, <3>3
      <4>2. j \in 1..LastCache /\ j > turn /\ turn < LastCache
        BY <1>1, <1>3, <3>1, <3>3, CachesAssumption DEF AwaitsCopy, Caches
      <4>3. ~AwaitsCopy(j)'
        BY <1>1, <1>3, <1>9, <4>2 DEF AwaitsCopy
      <4> QED BY <3>1, <4>1, <4>3 DEF Kept
    <3> QED BY <3>2, <3>3
  <2> QED BY <2>1, <2>2, <2>3 DEF Kept
<1> QED BY <1>10, <1>11 DEF RoundsInv

LEMMA CopyRounds == RoundsInv /\ Copy => RoundsInv'
<1> SUFFICES ASSUME RoundsInv, Copy PROVE RoundsInv'
  OBVIOUS
<1> DEFINE d == UpdateM2M(caches[turn], caches[0])
           v == Reverse(KeySeq(caches[0].lru))
<1>1. /\ 0 \in Caches /\ turn \in Caches /\ turn # 0 /\ turn \in 1..LastCache /\ turn \in Nat
      /\ caches \in [Caches -> CachesOf(Lines)] /\ DOMAIN used = Caches
  BY CachesAssumption DEF Caches, RoundsInv, Sound
<1>2. caches' = [caches EXCEPT ![turn] = d] /\ used' = [used EXCEPT ![turn] = v]
  BY DEF Copy
<1>3. UNCHANGED inTime /\ mode = "M2M" /\ NextTurn("between")
  BY DEF Copy
<1>4. caches[0] \in CachesOf(Lines) /\ caches[turn] \in CachesOf(Lines)
  BY <1>1
<1>5. UsedOnce(v) /\ Fits(d, v)
  BY <1>4, CopyFits
<1>6. d \in CachesOf(Lines)
  BY <1>4, LinesNodal, UpdatesTyped
<1> HIDE DEF d, v
<1>7. /\ caches' \in [Caches -> CachesOf(Lines)] /\ DOMAIN used' = Caches
      /\ \A i \in Caches : /\ caches'[i] = IF i = turn THEN d ELSE caches[i]
                           /\ used'[i] = IF i = turn THEN v ELSE used[i]
  BY <1>1, <1>2, <1>6
<1>8. /\ turn' \in 1..LastCache /\ mode' \in {"M2M", "between"}
      /\ \/ turn < LastCache /\ turn' = turn + 1 /\ mode' = mode
         \/ turn = LastCache /\ turn' = 1 /\ mode' = "between"
  BY <1>1, <1>3, TurnTyped
<1>9. Sound'
  <2>1. ASSUME NEW i \in Caches PROVE UsedOnce(used'[i]) /\ Fits(caches'[i], used'[i])
    BY <1>5, <1>7 DEF RoundsInv, Sound
  <2> QED BY <1>3, <1>7, <1>8, <2>1 DEF RoundsInv, Sound
<1>10. ASSUME NEW key \in inTime' PROVE Kept(key)'
  <2>1. Kept(key) /\ used'[0] = used[0]
    BY <1>1, <1>3, <1>7, <1>10 DEF RoundsInv
  <2>2. CASE key \in Range(used[0])
    BY <2>1, <2>2 DEF Kept
  <2>3. CASE \E j \in Caches \ {0} : ~AwaitsCopy(j) /\ key \in KeysOf(caches[j].pending)
    <3>1. PICK j \in Caches \ {0} : ~AwaitsCopy(j) /\ key \in KeysOf(caches[j].pending)
      BY <2>3
    <3>2. j \in 1..LastCache /\ j < turn
      BY <1>1, <1>3, <3>1, CachesAssumption DEF AwaitsCopy, Caches
    <3>3. key \in KeysOf(caches'[j].pending)
      BY <1>7, <3>1, <3>2
    <3>4. ~AwaitsCopy(j)'
      BY <1>1, <1>3, <1>8, <3>2 DEF AwaitsCopy
    <3> QED BY <3>1, <3>3, <3>4 DEF Kept
  <2> QED BY <2>1, <2>2, <2>3 DEF Kept
<1> QED BY <1>9, <1>10 DEF RoundsInv

-------------------------------------------------------------------------------
(* RoundsInv holds in every state: CacheManager::updateCache, and queries  *)
(* at any time, keep every cache the front of its history and lose nothing *)
(* stored in time.                                                         *)
THEOREM RoundsInvariant == Spec => []RoundsInv
<1>1. Init => RoundsInv
  BY InitRounds
<1>2. RoundsInv /\ [Next]_vars => RoundsInv'
  <2> SUFFICES ASSUME RoundsInv, [Next]_vars PROVE RoundsInv'
    OBVIOUS
  <2>1. ASSUME NEW i \in Caches, NEW key \in Keys, DoQuery(i, key) PROVE RoundsInv'
    BY <2>1, QueryRounds
  <2>2. CASE RoundBegins
    BY <2>2, BeginRounds
  <2>3. CASE Merge
    BY <2>3, MergeRounds
  <2>4. CASE Copy
    BY <2>4, CopyRounds
  <2>5. CASE UNCHANGED vars
    <3>1. \A j : AwaitsCopy(j)' <=> AwaitsCopy(j)
      BY <2>5 DEF vars, AwaitsCopy
    <3> QED BY <2>5, <3>1 DEF vars, RoundsInv, Sound, Kept
  <2> QED BY <2>1, <2>2, <2>3, <2>4, <2>5 DEF Next
<1> QED BY <1>1, <1>2, PTL DEF Spec

LEMMA FitsIsFront ==
  ASSUME NEW c \in CachesOf(Lines), NEW u, UsedOnce(u), Fits(c, u)
  PROVE  /\ KeySeq(c.lru) = SubSeq(u, 1, Min({CacheCapacity, Len(u)}))
         /\ Len(u) <= CacheCapacity => KeysOf(c.lru) = Range(u)
<1> DEFINE ks == KeySeq(c.lru)
           m == Min({CacheCapacity, Len(u)})
           f == SubSeq(u, 1, m)
<1>1. /\ c.lru \in Seq(Lines) /\ u \in Seq(Keys) /\ Len(u) \in Nat /\ CacheCapacity \in Nat
      /\ DOMAIN u = 1..Len(u) /\ \A i \in 1..Len(u) : u[i] \in Keys
  BY LenProperties, ElementOfSeq, CacheCapacityAssumption DEF CachesOf, UsedOnce
<1>2. /\ ks \in Seq(Keys) /\ Len(ks) = Len(c.lru) /\ KeysOf(c.lru) = Range(ks)
      /\ \A i \in 1..Len(c.lru) : ks[i] = c.lru[i].key
  BY <1>1, KeySeqTyped
<1>3. m = IF Len(u) < CacheCapacity THEN Len(u) ELSE CacheCapacity
  <2> DEFINE k == Len(u)
             S == {CacheCapacity, k}
  <2>1. k \in Nat /\ CacheCapacity \in Nat
    BY <1>1
  <2> HIDE DEF k
  <2>2. \E x \in S : \A y \in S : x <= y
    BY <2>1
  <2>3. Min(S) \in S /\ \A y \in S : Min(S) <= y
    <3> HIDE DEF S
    <3> QED BY <2>2 DEF Min
  <2>4. Min(S) = IF k < CacheCapacity THEN k ELSE CacheCapacity
    BY <2>1, <2>3
  <2> QED BY <2>4 DEF k
<1>4. Len(ks) = m /\ m \in Nat /\ m <= Len(u) /\ \A i \in 1..m : ks[i] = u[i]
  <2> HIDE DEF ks, m
  <2>1. Len(ks) = m
    BY <1>2, <1>3 DEF Fits
  <2>2. \A i \in 1..m : ks[i] = u[i]
    BY <1>2, <2>1 DEF Fits
  <2> QED BY <1>1, <1>3, <2>1, <2>2
<1> HIDE DEF ks, m
<1>5. f \in Seq(Keys) /\ Len(f) = m /\ \A i \in 1..m : f[i] = u[i]
  <2>1. \A i \in 1..m : u[i] \in Keys
    BY <1>1, <1>4
  <2> QED BY <1>4, <2>1, SubSeqProperties
<1> HIDE DEF f
<1>6. ks = f
  BY <1>2, <1>4, <1>5, SeqEqual
<1>7. ASSUME Len(u) <= CacheCapacity PROVE Range(ks) = Range(u)
  <2>1. m = Len(u)
    <3> DEFINE k == Len(u)
    <3>1. k \in Nat /\ CacheCapacity \in Nat /\ k <= CacheCapacity
          /\ m = IF k < CacheCapacity THEN k ELSE CacheCapacity
      BY <1>1, <1>3, <1>7
    <3> HIDE DEF k
    <3>2. m = k
      BY <3>1
    <3> QED BY <3>2 DEF k
  <2>2. DOMAIN ks = 1..Len(u)
    BY <1>2, <1>4, <2>1, LenProperties
  <2> QED BY <1>1, <1>4, <2>1, <2>2 DEF Range
<1> QED BY <1>2, <1>6, <1>7 DEF ks, m, f

(* LRUCache forgets the least recently used, whatever mix of get, put,     *)
(* updateP2M and updateM2M it has been through.                            *)
THEOREM LeastRecentForgotten == Spec => []ForgetsLeastRecent
<1>1. RoundsInv => ForgetsLeastRecent
  BY FitsIsFront DEF RoundsInv, Sound, ForgetsLeastRecent
<1> QED BY <1>1, RoundsInvariant, PTL

(* A round of CacheManager::updateCache loses only what was stored between *)
(* the two turns of a cache, while cache 0 has room.                       *)
THEOREM NothingInTimeIsLost == Spec => []OnlyLateIsLost
<1>1. RoundsInv => OnlyLateIsLost
  <2> SUFFICES ASSUME RoundsInv, Len(used[0]) <= CacheCapacity, NEW key \in inTime
               PROVE  Hit(caches[0], key)
                        \/ \E i \in Caches \ {0} : key \in KeysOf(caches[i].pending)
    BY DEF OnlyLateIsLost
  <2>1. 0 \in Caches
    BY CachesAssumption DEF Caches
  <2>2. KeysOf(caches[0].lru) = Range(used[0])
    BY <2>1, FitsIsFront DEF RoundsInv, Sound
  <2>3. Kept(key)
    BY DEF RoundsInv
  <2> QED BY <2>2, <2>3 DEF Kept, Hit
<1> QED BY <1>1, RoundsInvariant, PTL
===============================================================================
