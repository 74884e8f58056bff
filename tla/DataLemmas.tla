------------------------------ MODULE DataLemmas ------------------------------
(***************************************************************************)
(* Induction over the natural numbers, stated of sets so that it can be    *)
(* cited; what Append and Tail do to the elements of a sequence, and to    *)
(* its having no element twice: the queues of this project are sequences;  *)
(* and what get, put and the updates of LRUCache do to the list of a       *)
(* cache, place by place, for lists of any nodes and any capacity.         *)
(***************************************************************************)
EXTENDS LRUCache, Integers, Sequences, Functions,
        SequenceTheorems, FiniteSetTheorems, WellFoundedInduction, TLAPS

(* Numbers have a least one. *)
LEMMA NatMinimum ==
  ASSUME NEW T, T \subseteq Nat, T # {}
  PROVE  \E x \in T : \A y \in T : x <= y
<1> DEFINE R == {ss \in Nat \X Nat : ss[1] < ss[2]}
<1>1. IsWellFoundedOn(R, Nat)
  BY NatLessThanWellFounded DEF OpToRel
<1>2. PICK x \in T : \A y \in T : ~ (<<y, x>> \in R)
  BY <1>1, WFMin
<1>3. ASSUME NEW y \in T PROVE x <= y
  <2>1. ~ (<<y, x>> \in R)
    BY <1>2
  <2>2. ~ (y < x)
    BY <2>1
  <2> QED BY <2>2
<1> QED BY <1>3

(* A set of numbers with zero, and with every successor, has them all. *)
LEMMA NatSetInduction ==
  ASSUME NEW T, 0 \in T, \A n \in Nat : n \in T => n + 1 \in T
  PROVE  Nat \subseteq T
<1> SUFFICES ASSUME Nat \ T # {} PROVE FALSE
  OBVIOUS
<1>1. PICK x \in Nat \ T : \A y \in Nat \ T : x <= y
  BY NatMinimum
<1>2. x # 0 /\ x - 1 \in Nat /\ x - 1 \in T
  BY <1>1
<1>3. (x - 1) + 1 \in T
  BY <1>2
<1> QED BY <1>1, <1>3

LEMMA IntervalInduction ==
  ASSUME NEW n \in Nat, NEW T, 0 \in T, \A i \in 0..(n - 1) : i \in T => i + 1 \in T
  PROVE  0..n \subseteq T
<1> DEFINE U == {i \in Nat : i <= n => i \in T}
<1>1. 0 \in U
  OBVIOUS
<1>2. ASSUME NEW i \in Nat, i \in U PROVE i + 1 \in U
  BY <1>2
<1>3. Nat \subseteq U
  BY <1>1, <1>2, NatSetInduction
<1> QED BY <1>3

(* A function applied along a sequence has its values one after the other. *)
Steps(f, step, s0, d) ==
  f[0] = s0 /\ \A i \in 1..Len(d) : f[i] = step[<<f[i - 1], d[i]>>]

LEMMA StepsExist ==
  ASSUME NEW S, NEW D, NEW step \in [S \X D -> S], NEW s0 \in S, NEW d \in Seq(D)
  PROVE  \E f \in [0..Len(d) -> S] : Steps(f, step, s0, d)
<1> DEFINE Upto(n, f) ==
             f[0] = s0 /\ \A i \in 1..n : f[i] = step[<<f[i - 1], d[i]>>]
           T == {n \in Nat : n <= Len(d) => \E f \in [0..n -> S] : Upto(n, f)}
<1>1. 0 \in T
  <2>1. Upto(0, [i \in 0..0 |-> s0])
    OBVIOUS
  <2> QED BY <2>1
<1>2. ASSUME NEW n \in Nat, n \in T PROVE n + 1 \in T
  <2> SUFFICES ASSUME n + 1 <= Len(d) PROVE \E f \in [0..(n + 1) -> S] : Upto(n + 1, f)
    OBVIOUS
  <2>1. PICK f \in [0..n -> S] : Upto(n, f)
    BY <1>2
  <2> DEFINE g == [i \in 0..(n + 1) |-> IF i <= n THEN f[i] ELSE step[<<f[n], d[n + 1]>>]]
  <2>2. d[n + 1] \in D /\ f[n] \in S
    BY ElementOfSeq
  <2>3. g \in [0..(n + 1) -> S]
    BY <2>2
  <2>4. ASSUME NEW i \in 1..(n + 1) PROVE g[i] = step[<<g[i - 1], d[i]>>]
    <3>1. CASE i <= n
      <4>1. i \in 1..n /\ i - 1 \in 0..n /\ i - 1 \in 0..(n + 1) /\ i - 1 <= n
        BY <3>1
      <4>2. f[i] = step[<<f[i - 1], d[i]>>]
        BY <2>1, <4>1
      <4> QED BY <4>1, <4>2
    <3>2. CASE i = n + 1
      <4>1. i - 1 = n /\ n \in 0..(n + 1)
        BY <3>2
      <4> QED BY <3>2, <4>1
    <3> QED BY <3>1, <3>2
  <2>5. g[0] = s0
    BY <2>1
  <2> QED BY <2>3, <2>4, <2>5
<1>3. Nat \subseteq T
  <2> HIDE DEF T
  <2> QED BY <1>1, <1>2, NatSetInduction
<1>4. Len(d) \in T
  BY <1>3, LenProperties
<1> QED BY <1>4 DEF Steps

(* t is s with the element at p, if there is one, taken out and e in front:*)
(* splice and push_front of a list.                                        *)
Fronted(t, e, s, p) ==
  /\ Len(t) = IF p <= Len(s) THEN Len(s) ELSE Len(s) + 1
  /\ \A j \in 1..Len(t) : t[j] = IF j = 1 THEN e ELSE IF j <= p THEN s[j - 1] ELSE s[j]

LEMMA MovedToFront ==
  ASSUME NEW S, NEW s \in Seq(S), NEW h \in Seq(S), Len(h) = 1, NEW p \in 1..(Len(s) + 1)
  PROVE  LET t == h \o (SubSeq(s, 1, p - 1) \o SubSeq(s, p + 1, Len(s)))
         IN t \in Seq(S) /\ Fronted(t, h[1], s, p)
<1> DEFINE a == SubSeq(s, 1, p - 1)
           b == SubSeq(s, p + 1, Len(s))
           t == h \o (a \o b)
<1>1. Len(s) \in Nat /\ \A i \in 1..Len(s) : s[i] \in S
  BY LenProperties, ElementOfSeq
<1>2. /\ a \in Seq(S) /\ Len(a) = p - 1
      /\ \A i \in 1..(p - 1) : a[i] = s[i]
  <2>1. \A i \in 1..(p - 1) : s[i] \in S
    BY <1>1
  <2> QED BY <1>1, <2>1, SubSeqProperties
<1>3. /\ b \in Seq(S) /\ Len(b) = IF p <= Len(s) THEN Len(s) - p ELSE 0
      /\ \A i \in 1..(Len(s) - p) : b[i] = s[p + i]
  <2>1. \A i \in (p + 1)..Len(s) : s[i] \in S
    BY <1>1
  <2> QED BY <1>1, <2>1, SubSeqProperties
<1> HIDE DEF a, b
<1>4. /\ a \o b \in Seq(S) /\ Len(a \o b) = Len(a) + Len(b)
      /\ \A i \in 1..Len(a) + Len(b) :
            (a \o b)[i] = IF i <= Len(a) THEN a[i] ELSE b[i - Len(a)]
  BY <1>2, <1>3, ConcatProperties
<1>6. /\ t \in Seq(S) /\ Len(t) = 1 + Len(a \o b)
      /\ \A i \in 1..1 + Len(a \o b) :
            t[i] = IF i <= 1 THEN h[i] ELSE (a \o b)[i - 1]
  <2>1. /\ t \in Seq(S) /\ Len(t) = Len(h) + Len(a \o b)
        /\ \A i \in 1..Len(h) + Len(a \o b) :
              t[i] = IF i <= Len(h) THEN h[i] ELSE (a \o b)[i - Len(h)]
    BY <1>4, ConcatProperties
  <2> QED BY <2>1
<1>7. Len(t) = IF p <= Len(s) THEN Len(s) ELSE Len(s) + 1
  BY <1>1, <1>2, <1>3, <1>4, <1>6
<1>8. ASSUME NEW j \in 1..Len(t)
      PROVE  t[j] = IF j = 1 THEN h[1] ELSE IF j <= p THEN s[j - 1] ELSE s[j]
  <2>1. CASE j = 1
    BY <1>6, <2>1
  <2>2. CASE j # 1 /\ j <= p
    <3>1. j - 1 \in 1..(p - 1) /\ t[j] = (a \o b)[j - 1]
      BY <1>1, <1>6, <2>2
    <3>2. j - 1 \in 1..Len(a) + Len(b)
      BY <1>1, <1>2, <1>3, <3>1
    <3> QED BY <1>2, <1>4, <2>2, <3>1, <3>2
  <2>3. CASE j > p
    <3>1. j # 1 /\ t[j] = (a \o b)[j - 1] /\ j - p \in 1..(Len(s) - p)
      BY <1>1, <1>6, <1>7, <2>3
    <3>2. j - 1 \in 1..Len(a) + Len(b) /\ ~(j - 1 <= Len(a)) /\ (j - 1) - Len(a) = j - p
      BY <1>1, <1>2, <1>3, <2>3, <3>1
    <3>3. b[j - p] = s[j]
      BY <1>1, <1>3, <3>1
    <3> QED BY <1>4, <2>3, <3>1, <3>2, <3>3
  <2> QED BY <1>1, <2>1, <2>2, <2>3
<1>9. t \in Seq(S) /\ Fronted(t, h[1], s, p)
  BY <1>6, <1>7, <1>8 DEF Fronted
<1> QED BY <1>9 DEF a, b

(* Appending adds one element, and keeps a sequence without repetitions if *)
(* the element is new: push_back on _que and _pendingFunctors.             *)
LEMMA AppendElements ==
  ASSUME NEW S, NEW s \in Seq(S), NEW e \in S
  PROVE  /\ Range(Append(s, e)) = Range(s) \cup {e}
         /\ (IsInjective(s) /\ e \notin Range(s)) => IsInjective(Append(s, e))
<1> DEFINE t == Append(s, e)
<1>1. /\ t \in Seq(S) /\ Len(t) = Len(s) + 1
      /\ \A i \in 1..Len(s) : t[i] = s[i]
      /\ t[Len(s) + 1] = e
  BY AppendProperties
<1>2. DOMAIN t = 1..(Len(s) + 1) /\ DOMAIN s = 1..Len(s) /\ Len(s) \in Nat
  BY <1>1
<1>3. Range(t) = Range(s) \cup {e}
  <2>1. ASSUME NEW x \in Range(t) PROVE x \in Range(s) \cup {e}
    <3>1. PICK i \in 1..(Len(s) + 1) : x = t[i]
      BY <1>2 DEF Range
    <3>2. CASE i = Len(s) + 1
      BY <1>1, <3>1, <3>2
    <3>3. CASE i # Len(s) + 1
      <4>1. i \in 1..Len(s) BY <1>2, <3>3
      <4> QED BY <1>1, <1>2, <3>1, <4>1 DEF Range
    <3> QED BY <3>2, <3>3
  <2>2. ASSUME NEW x \in Range(s) PROVE x \in Range(t)
    <3>1. PICK i \in 1..Len(s) : x = s[i]
      BY <1>2 DEF Range
    <3>2. i \in 1..(Len(s) + 1) BY <1>2
    <3> QED BY <1>1, <1>2, <3>1, <3>2 DEF Range
  <2>3. e \in Range(t)
    <3>1. Len(s) + 1 \in 1..(Len(s) + 1) BY <1>2
    <3> QED BY <1>1, <1>2, <3>1 DEF Range
  <2> QED BY <2>1, <2>2, <2>3
<1>4. ASSUME IsInjective(s), e \notin Range(s) PROVE IsInjective(t)
  <2>1. ASSUME NEW a \in DOMAIN t, NEW b \in DOMAIN t, t[a] = t[b] PROVE a = b
    <3>1. \A i \in 1..Len(s) : s[i] # e
      BY <1>2, <1>4 DEF Range
    <3>2. CASE a \in 1..Len(s) /\ b \in 1..Len(s)
      BY <1>1, <1>2, <1>4, <2>1, <3>2 DEF IsInjective
    <3>3. CASE a = Len(s) + 1 \/ b = Len(s) + 1
      BY <1>1, <1>2, <2>1, <3>1, <3>3
    <3> QED BY <1>2, <3>2, <3>3
  <2> QED BY <2>1 DEF IsInjective
<1> QED BY <1>3, <1>4

(* Taking the front of a sequence without repetitions takes that element   *)
(* and no other: front() and pop() of _que.                                *)
LEMMA TailElements ==
  ASSUME NEW S, NEW s \in Seq(S), s # <<>>
  PROVE  /\ Head(s) \in Range(s)
         /\ Range(s) = Range(Tail(s)) \cup {Head(s)}
         /\ IsInjective(s) => /\ IsInjective(Tail(s))
                              /\ Head(s) \notin Range(Tail(s))
<1> DEFINE t == Tail(s)
<1>1. /\ t \in Seq(S) /\ Len(t) = Len(s) - 1
      /\ \A i \in 1..Len(t) : t[i] = s[i + 1]
  BY HeadTailProperties
<1>2. Head(s) = s[1] /\ Len(s) \in Nat \ {0}
  BY EmptySeq
<1>3. DOMAIN t = 1..Len(t) /\ DOMAIN s = 1..Len(s)
  BY <1>1
<1>4. Head(s) \in Range(s)
  <2>1. 1 \in DOMAIN s BY <1>2, <1>3
  <2> QED BY <1>2, <2>1 DEF Range
<1>5. ASSUME NEW x \in Range(s) PROVE x \in Range(t) \cup {Head(s)}
  <2>1. PICK i \in 1..Len(s) : x = s[i]
    BY <1>3 DEF Range
  <2>2. CASE i = 1
    BY <1>2, <2>1, <2>2
  <2>3. CASE i # 1
    <3>1. i - 1 \in 1..Len(t) /\ (i - 1) + 1 = i BY <1>1, <1>2, <2>3
    <3>2. t[i - 1] = x BY <1>1, <2>1, <3>1
    <3> QED BY <1>3, <3>1, <3>2 DEF Range
  <2> QED BY <2>2, <2>3
<1>6. ASSUME NEW x \in Range(t) PROVE x \in Range(s)
  <2>1. PICK i \in 1..Len(t) : x = t[i]
    BY <1>3 DEF Range
  <2>2. i + 1 \in 1..Len(s) /\ x = s[i + 1] BY <1>1, <1>2, <2>1
  <2> QED BY <1>3, <2>2 DEF Range
<1>7. ASSUME IsInjective(s) PROVE IsInjective(t) /\ Head(s) \notin Range(t)
  <2>1. ASSUME NEW a \in DOMAIN t, NEW b \in DOMAIN t, t[a] = t[b] PROVE a = b
    <3>1. a \in 1..Len(t) /\ b \in 1..Len(t) BY <1>3
    <3>2. a + 1 \in DOMAIN s /\ b + 1 \in DOMAIN s BY <1>1, <1>2, <1>3, <3>1
    <3>3. s[a + 1] = s[b + 1] BY <1>1, <2>1, <3>1
    <3>4. a + 1 = b + 1 BY <1>7, <3>2, <3>3 DEF IsInjective
    <3> QED BY <3>1, <3>4
  <2>2. ASSUME NEW i \in 1..Len(t) PROVE t[i] # Head(s)
    <3>1. i + 1 \in DOMAIN s /\ 1 \in DOMAIN s /\ i + 1 # 1
      BY <1>1, <1>2, <1>3
    <3>2. s[i + 1] # s[1] BY <1>7, <3>1 DEF IsInjective
    <3> QED BY <1>1, <1>2, <3>2
  <2>3. IsInjective(t) BY <2>1 DEF IsInjective
  <2>4. Head(s) \notin Range(t) BY <1>3, <2>2 DEF Range
  <2> QED BY <2>3, <2>4
<1> QED BY <1>4, <1>5, <1>6, <1>7

(* A queue of one. *)
LEMMA OneElement ==
  ASSUME NEW e
  PROVE  Append(<<>>, e) = <<e>> /\ Head(<<e>>) = e /\ Tail(<<e>>) = <<>>
<1>1. <<e>> \in Seq({e}) /\ <<e>> # <<>> /\ Len(<<e>>) = 1
  OBVIOUS
<1>2. Tail(<<e>>) \in Seq({e}) /\ Len(Tail(<<e>>)) = 0
  BY <1>1, HeadTailProperties
<1>3. Tail(<<e>>) = <<>>
  BY <1>2, EmptySeq
<1> QED BY <1>3

(* Two queues in a row: adding at the end of the second, and taking from   *)
(* the front of the first: tmp and _pendingFunctors.                       *)
LEMMA ConcatAppend ==
  ASSUME NEW S, NEW s \in Seq(S), NEW t \in Seq(S), NEW e \in S
  PROVE  s \o Append(t, e) = Append(s \o t, e)
<1> DEFINE u == s \o Append(t, e)
           v == Append(s \o t, e)
<1>1. /\ Append(t, e) \in Seq(S) /\ Len(Append(t, e)) = Len(t) + 1
      /\ \A i \in 1..Len(t) : Append(t, e)[i] = t[i]
      /\ Append(t, e)[Len(t) + 1] = e
  BY AppendProperties
<1>2. /\ s \o t \in Seq(S) /\ Len(s \o t) = Len(s) + Len(t)
      /\ \A i \in 1..Len(s) + Len(t) :
            (s \o t)[i] = IF i <= Len(s) THEN s[i] ELSE t[i - Len(s)]
  BY ConcatProperties
<1>3. /\ u \in Seq(S) /\ Len(u) = Len(s) + (Len(t) + 1)
      /\ \A i \in 1..Len(s) + (Len(t) + 1) :
            u[i] = IF i <= Len(s) THEN s[i] ELSE Append(t, e)[i - Len(s)]
  BY <1>1, ConcatProperties
<1>4. /\ v \in Seq(S) /\ Len(v) = (Len(s) + Len(t)) + 1
      /\ \A i \in 1..Len(s) + Len(t) : v[i] = (s \o t)[i]
      /\ v[(Len(s) + Len(t)) + 1] = e
  BY <1>2, AppendProperties
<1>5. Len(s) \in Nat /\ Len(t) \in Nat
  OBVIOUS
<1>6. ASSUME NEW i \in 1..Len(u) PROVE u[i] = v[i]
  <2>1. CASE i <= Len(s)
    BY <1>2, <1>3, <1>4, <1>5, <2>1
  <2>2. CASE i > Len(s) /\ i <= Len(s) + Len(t)
    <3>1. i - Len(s) \in 1..Len(t) BY <1>5, <2>2
    <3>2. u[i] = t[i - Len(s)] BY <1>1, <1>3, <1>5, <2>2, <3>1
    <3>3. v[i] = t[i - Len(s)] BY <1>2, <1>4, <1>5, <2>2
    <3> QED BY <3>2, <3>3
  <2>3. CASE i = Len(s) + Len(t) + 1
    <3>1. i - Len(s) = Len(t) + 1 BY <1>5, <2>3
    <3> QED BY <1>1, <1>3, <1>4, <1>5, <2>3, <3>1
  <2> QED BY <1>3, <1>5, <2>1, <2>2, <2>3
<1> QED BY <1>3, <1>4, <1>5, <1>6, SeqEqual

LEMMA ConcatFront ==
  ASSUME NEW S, NEW s \in Seq(S), NEW t \in Seq(S), s # <<>>
  PROVE  /\ s \o t # <<>>
         /\ Head(s \o t) = Head(s)
         /\ Tail(s \o t) = Tail(s) \o t
<1> DEFINE u == s \o t
           v == Tail(s) \o t
<1>1. Len(s) \in Nat \ {0} /\ Len(t) \in Nat
  BY EmptySeq
<1>2. /\ u \in Seq(S) /\ Len(u) = Len(s) + Len(t)
      /\ \A i \in 1..Len(s) + Len(t) :
            u[i] = IF i <= Len(s) THEN s[i] ELSE t[i - Len(s)]
  BY ConcatProperties
<1>3. u # <<>> /\ Head(u) = Head(s)
  <2>1. u # <<>> BY <1>1, <1>2
  <2>2. Head(u) = u[1] /\ Head(s) = s[1] BY <1>2, <2>1
  <2>3. u[1] = s[1] BY <1>1, <1>2
  <2> QED BY <2>1, <2>2, <2>3
<1>4. /\ Tail(s) \in Seq(S) /\ Len(Tail(s)) = Len(s) - 1
      /\ \A i \in 1..Len(Tail(s)) : Tail(s)[i] = s[i + 1]
  BY HeadTailProperties
<1>5. /\ Tail(u) \in Seq(S) /\ Len(Tail(u)) = Len(u) - 1
      /\ \A i \in 1..Len(Tail(u)) : Tail(u)[i] = u[i + 1]
  BY <1>2, <1>3, HeadTailProperties
<1>6. /\ v \in Seq(S) /\ Len(v) = (Len(s) - 1) + Len(t)
      /\ \A i \in 1..(Len(s) - 1) + Len(t) :
            v[i] = IF i <= Len(s) - 1 THEN Tail(s)[i] ELSE t[i - (Len(s) - 1)]
  BY <1>4, ConcatProperties
<1>7. ASSUME NEW i \in 1..Len(v) PROVE Tail(u)[i] = v[i]
  <2>1. i + 1 \in 1..Len(s) + Len(t) /\ i \in 1..Len(Tail(u))
    BY <1>1, <1>2, <1>5, <1>6
  <2>2. Tail(u)[i] = IF i + 1 <= Len(s) THEN s[i + 1] ELSE t[(i + 1) - Len(s)]
    BY <1>2, <1>5, <2>1
  <2>3. CASE i <= Len(s) - 1
    <3>1. i \in 1..Len(Tail(s)) /\ i + 1 <= Len(s) BY <1>1, <1>4, <2>3
    <3> QED BY <1>4, <1>6, <2>2, <2>3, <3>1
  <2>4. CASE i > Len(s) - 1
    <3>1. ~(i + 1 <= Len(s)) /\ (i + 1) - Len(s) = i - (Len(s) - 1) BY <1>1, <2>4
    <3> QED BY <1>1, <1>6, <2>2, <2>4, <3>1
  <2> QED BY <1>1, <2>3, <2>4
<1>8. Len(Tail(u)) = Len(v)
  BY <1>1, <1>2, <1>5, <1>6
<1> QED BY <1>3, <1>5, <1>6, <1>7, <1>8, SeqEqual

-------------------------------------------------------------------------------
(* Caches *)

Nodal(G) == \A n \in G : n = Node(n.key, n.value)

(* A key is in _lru once, as in _umap. *)
Distinct(nodes) ==
  \A i, j \in 1..Len(nodes) : nodes[i].key = nodes[j].key => i = j

(* The caches of nodes of G. *)
CachesOf(G) ==
  {c \in [lru : Seq(G), pending : Seq(G)] :
     Len(c.lru) <= CacheCapacity /\ Distinct(c.lru)}

(* The place of a key, or the one past the end. *)
At(nodes, key, p) ==
  /\ p \in 1..(Len(nodes) + 1)
  /\ \A i \in 1..Len(nodes) : nodes[i].key = key <=> i = p

LEMMA HasPlace ==
  ASSUME NEW G, NEW s \in Seq(G), Distinct(s), NEW key
  PROVE  \E p \in 1..(Len(s) + 1) : At(s, key, p)
<1>1. CASE \E i \in 1..Len(s) : s[i].key = key
  BY <1>1 DEF Distinct, At
<1>2. CASE \A i \in 1..Len(s) : s[i].key # key
  <2>1. At(s, key, Len(s) + 1)
    BY <1>2, LenProperties DEF At
  <2> QED BY <2>1, LenProperties DEF At
<1> QED BY <1>1, <1>2

LEMMA KeyPlace ==
  ASSUME NEW G, NEW s \in Seq(G), NEW key, NEW p, At(s, key, p)
  PROVE  key \in KeysOf(s) <=> p <= Len(s)
<1>1. DOMAIN s = 1..Len(s) /\ Len(s) \in Nat
  BY LenProperties
<1> QED BY <1>1 DEF At, KeysOf

LEMMA WithoutPlace ==
  ASSUME NEW G, NEW s \in Seq(G), NEW key, NEW p, At(s, key, p)
  PROVE  Without(s, key) = SubSeq(s, 1, p - 1) \o SubSeq(s, p + 1, Len(s))
<1>1. Len(s) \in Nat
  BY LenProperties
<1>2. CASE p <= Len(s)
  <2> DEFINE I == {i \in 1..Len(s) : s[i].key = key}
  <2>1. I = {p}
    BY <1>1, <1>2 DEF At
  <2>2. Min(I) = p
    BY <2>1 DEF Min
  <2>3. I # {}
    BY <2>1
  <2> QED BY <2>2, <2>3 DEF Without, RemoveFirstMatch, SelectInSeq, RemoveAt
<1>3. CASE p = Len(s) + 1
  <2>1. Without(s, key) = s
    BY <1>1, <1>3 DEF Without, RemoveFirstMatch, At
  <2>2. SubSeq(s, p + 1, Len(s)) = <<>>
    BY <1>1, <1>3, SubSeqEmpty
  <2>3. SubSeq(s, 1, p - 1) = s
    BY <1>1, <1>3, SubSeqFull
  <2>4. s \o <<>> = s
    BY ConcatEmptySeq
  <2> QED BY <2>1, <2>2, <2>3, <2>4
<1>4. p <= Len(s) \/ p = Len(s) + 1
  <2>1. p \in 1..(Len(s) + 1)
    BY DEF At
  <2> QED BY <1>1, <2>1
<1> QED BY <1>2, <1>3, <1>4

(* The list that get and put make of it: the node comes to the front, and  *)
(* those before its place move by one.                                     *)
LEMMA KeyFronted ==
  ASSUME NEW G, NEW s \in Seq(G), NEW h \in Seq(G), Len(h) = 1,
         NEW key, NEW p, At(s, key, p)
  PROVE  LET t == h \o Without(s, key)
         IN t \in Seq(G) /\ Fronted(t, h[1], s, p)
<1>1. p \in 1..(Len(s) + 1)
  BY DEF At
<1>2. Without(s, key) = SubSeq(s, 1, p - 1) \o SubSeq(s, p + 1, Len(s))
  BY WithoutPlace
<1> QED BY <1>1, <1>2, MovedToFront, Zenon

(* The first elements of such a list still hold each key once. *)
FrontOf(t, n, s, p) ==
  /\ Len(t) \in Nat /\ Len(t) <= IF p <= Len(s) THEN Len(s) ELSE Len(s) + 1
  /\ \A j \in 1..Len(t) :
        t[j] = IF j = 1 THEN n ELSE IF j <= p THEN s[j - 1] ELSE s[j]

LEMMA FrontedDistinct ==
  ASSUME NEW G, NEW s \in Seq(G), Distinct(s), NEW n, NEW p, At(s, n.key, p),
         NEW t, FrontOf(t, n, s, p)
  PROVE  Distinct(t)
<1> DEFINE from(j) == IF j <= p THEN j - 1 ELSE j
           m == Len(t)
<1>1. Len(s) \in Nat /\ p \in 1..(Len(s) + 1) /\ m \in Nat
      /\ m <= (IF p <= Len(s) THEN Len(s) ELSE Len(s) + 1)
      /\ \A j \in 1..m : t[j] = IF j = 1 THEN n ELSE IF j <= p THEN s[j - 1] ELSE s[j]
  BY LenProperties DEF At, FrontOf
<1> HIDE DEF m
<1>2. ASSUME NEW j \in 2..m
      PROVE  from(j) \in 1..Len(s) /\ t[j] = s[from(j)] /\ from(j) # p
  BY <1>1
<1>3. ASSUME NEW j \in 2..m PROVE t[j].key # n.key
  <2>1. \A i \in 1..Len(s) : i # p => s[i].key # n.key
    BY DEF At
  <2>2. from(j) \in 1..Len(s) /\ t[j] = s[from(j)] /\ from(j) # p
    BY <1>2
  <2> HIDE DEF from
  <2> QED BY <2>1, <2>2
<1>4. ASSUME NEW i \in 1..m, NEW j \in 1..m, t[i].key = t[j].key PROVE i = j
  <2>1. CASE i = 1 \/ j = 1
    <3>1. \A k \in 1..m : k # 1 => k \in 2..m
      OBVIOUS
    <3>2. t[1] = n
      BY <1>1
    <3>3. i # 1 => t[i].key # n.key
      BY <1>3, <3>1
    <3>4. j # 1 => t[j].key # n.key
      BY <1>3, <3>1
    <3> QED BY <1>4, <2>1, <3>2, <3>3, <3>4
  <2>2. CASE i # 1 /\ j # 1
    <3>1. i \in 2..m /\ j \in 2..m
      BY <2>2
    <3>2. from(i) = from(j)
      BY <1>2, <1>4, <3>1 DEF Distinct
    <3>3. from(i) # p /\ from(j) # p
      BY <1>2, <3>1
    <3> QED BY <1>1, <3>1, <3>2, <3>3
  <2> QED BY <2>1, <2>2
<1> QED BY <1>4 DEF Distinct, m

-------------------------------------------------------------------------------
LEMMA HitValue ==
  ASSUME NEW G, Nodal(G), NEW c \in CachesOf(G), NEW key, Hit(c, key)
  PROVE  /\ Node(key, ValueOf(c, key)) \in G
         /\ \E i \in 1..Len(c.lru) : c.lru[i] = Node(key, ValueOf(c, key))
<1>1. c.lru \in Seq(G) /\ DOMAIN c.lru = 1..Len(c.lru)
  BY LenProperties DEF CachesOf
<1>2. PICK i \in 1..Len(c.lru) : c.lru[i].key = key
  BY <1>1 DEF Hit, KeysOf
<1> DEFINE n == CHOOSE m \in ToSet(c.lru) : m.key = key
<1>3. n \in ToSet(c.lru) /\ n.key = key
  BY <1>1, <1>2 DEF ToSet
<1>4. PICK j \in 1..Len(c.lru) : c.lru[j] = n
  BY <1>1, <1>3 DEF ToSet
<1>5. n \in G /\ n = Node(key, n.value)
  BY <1>1, <1>3, <1>4, ElementOfSeq DEF Nodal
<1> QED BY <1>4, <1>5 DEF ValueOf

(* get: the node found, at p, comes to the front. *)
IsGot(after, c, p) ==
  /\ p \in 1..Len(c.lru) /\ Len(after.lru) = Len(c.lru) /\ after.pending = c.pending
  /\ \A j \in 1..Len(c.lru) :
        after.lru[j] = IF j = 1 THEN c.lru[p]
                       ELSE IF j <= p THEN c.lru[j - 1] ELSE c.lru[j]

LEMMA GetLru ==
  ASSUME NEW G, Nodal(G), NEW c \in CachesOf(G), NEW key, Hit(c, key),
         NEW p, At(c.lru, key, p)
  PROVE  Get(c, key) \in CachesOf(G) /\ IsGot(Get(c, key), c, p)
<1> DEFINE n == Node(key, ValueOf(c, key))
           h == <<n>>
           t == h \o Without(c.lru, key)
<1>1. c.lru \in Seq(G) /\ c.pending \in Seq(G) /\ Distinct(c.lru) /\ Len(c.lru) \in Nat
  BY LenProperties DEF CachesOf
<1>2. n \in G /\ n.key = key
  BY HitValue DEF Node
<1>3. p \in 1..Len(c.lru) /\ c.lru[p] = n
  <2>1. p \in 1..Len(c.lru)
    <3>1. p <= Len(c.lru)
      BY <1>1, KeyPlace DEF Hit
    <3> QED BY <1>1, <3>1 DEF At
  <2>2. PICK i \in 1..Len(c.lru) : c.lru[i] = n
    BY HitValue
  <2> QED BY <1>2, <2>1, <2>2 DEF At
<1>4. Get(c, key) = [lru |-> t, pending |-> c.pending]
  BY <1>2 DEF Get, CachesOf
<1>5. /\ t \in Seq(G) /\ Len(t) = Len(c.lru)
      /\ \A j \in 1..Len(t) :
            t[j] = IF j = 1 THEN n ELSE IF j <= p THEN c.lru[j - 1] ELSE c.lru[j]
  <2>1. h \in Seq(G) /\ Len(h) = 1 /\ h[1] = n
    BY <1>2
  <2> HIDE DEF h
  <2>2. t \in Seq(G) /\ Fronted(t, h[1], c.lru, p)
    BY <1>1, <2>1, KeyFronted
  <2> HIDE DEF t
  <2> QED BY <1>1, <1>3, <2>1, <2>2 DEF Fronted
<1> HIDE DEF t, n
<1>6. Distinct(t)
  <2>1. FrontOf(t, n, c.lru, p)
    BY <1>1, <1>3, <1>5 DEF FrontOf
  <2>2. At(c.lru, n.key, p)
    BY <1>2
  <2> QED BY <1>1, <2>1, <2>2, FrontedDistinct
<1>7. Get(c, key) \in CachesOf(G)
  BY <1>1, <1>4, <1>5, <1>6 DEF CachesOf
<1> QED BY <1>3, <1>4, <1>5, <1>7 DEF IsGot

LEMMA GetTyped ==
  ASSUME NEW G, Nodal(G), NEW c \in CachesOf(G), NEW key
  PROVE  Get(c, key) \in CachesOf(G)
<1>1. CASE Hit(c, key)
  <2>1. c.lru \in Seq(G) /\ Distinct(c.lru)
    BY DEF CachesOf
  <2>2. PICK p \in 1..(Len(c.lru) + 1) : At(c.lru, key, p)
    BY <2>1, HasPlace
  <2> QED BY <1>1, <2>2, GetLru
<1>2. CASE ~Hit(c, key)
  BY <1>2 DEF Get
<1> QED BY <1>1, <1>2

(* put: the node comes to the front, and of a list that is full the last   *)
(* one goes if the key is new.                                             *)
IsPut(after, c, key, value, p) ==
  /\ Len(after.lru) = IF p <= Len(c.lru) \/ Len(c.lru) = CacheCapacity
                      THEN Len(c.lru) ELSE Len(c.lru) + 1
  /\ \A j \in 1..Len(after.lru) :
        after.lru[j] = IF j = 1 THEN Node(key, value)
                       ELSE IF j <= p THEN c.lru[j - 1] ELSE c.lru[j]
  /\ after.pending = IF p <= Len(c.lru) THEN c.pending
                     ELSE <<Node(key, value)>> \o c.pending

LEMMA PutLru ==
  ASSUME NEW G, Nodal(G), NEW c \in CachesOf(G), NEW key, NEW value,
         Node(key, value) \in G, NEW p, At(c.lru, key, p)
  PROVE  LET after == Put(c, key, value)
         IN after \in CachesOf(G) /\ IsPut(after, c, key, value, p)
<1> DEFINE n == Node(key, value)
           h == <<n>>
           t == h \o Without(c.lru, key)
           u == IF Len(t) > CacheCapacity THEN Front(t) ELSE t
           q == IF p <= Len(c.lru) THEN c.pending ELSE <<n>> \o c.pending
           m == IF p <= Len(c.lru) \/ Len(c.lru) = CacheCapacity
                THEN Len(c.lru) ELSE Len(c.lru) + 1
<1>1. /\ c.lru \in Seq(G) /\ c.pending \in Seq(G) /\ Distinct(c.lru)
      /\ Len(c.lru) \in Nat /\ Len(c.lru) <= CacheCapacity /\ CacheCapacity \in Nat \ {0}
  BY LenProperties, CacheCapacityAssumption DEF CachesOf
<1>2. n.key = key /\ n \in G
  BY DEF Node
<1>3. Put(c, key, value) = [lru |-> u, pending |-> q]
  <2>1. Hit(c, key) <=> p <= Len(c.lru)
    BY <1>1, KeyPlace DEF Hit
  <2> QED BY <1>2, <2>1 DEF Put
<1>4. /\ t \in Seq(G) /\ Len(t) = IF p <= Len(c.lru) THEN Len(c.lru) ELSE Len(c.lru) + 1
      /\ \A j \in 1..Len(t) :
            t[j] = IF j = 1 THEN n ELSE IF j <= p THEN c.lru[j - 1] ELSE c.lru[j]
  <2>1. h \in Seq(G) /\ Len(h) = 1 /\ h[1] = n
    BY <1>2
  <2> HIDE DEF h
  <2>2. t \in Seq(G) /\ Fronted(t, h[1], c.lru, p)
    BY <1>1, <2>1, KeyFronted
  <2> HIDE DEF t
  <2> QED BY <2>1, <2>2 DEF Fronted
<1>5. q \in Seq(G)
  <2>1. <<n>> \in Seq(G)
    BY <1>2
  <2> QED BY <1>1, <2>1, ConcatProperties
<1> HIDE DEF t, n, q
<1>6. u \in Seq(G) /\ Len(u) = m /\ \A j \in 1..m : u[j] = t[j]
  <2>1. CASE Len(t) > CacheCapacity
    <3>1. Len(t) = Len(c.lru) + 1 /\ m = Len(c.lru) /\ Len(t) - 1 = m
      BY <1>1, <1>4, <2>1
    <3>2. \A j \in 1..m : t[j] \in G
      BY <1>4, <3>1, ElementOfSeq
    <3>3. SubSeq(t, 1, m) \in Seq(G) /\ Len(SubSeq(t, 1, m)) = m
          /\ \A j \in 1..m : SubSeq(t, 1, m)[j] = t[j]
      BY <1>1, <3>1, <3>2, SubSeqProperties
    <3> QED BY <2>1, <3>1, <3>3 DEF Front
  <2>2. CASE ~(Len(t) > CacheCapacity)
    <3>1. Len(t) = m
      BY <1>1, <1>4, <2>2
    <3> QED BY <1>4, <2>2, <3>1
  <2> QED BY <2>1, <2>2
<1>7. \A j \in 1..m : u[j] = IF j = 1 THEN n ELSE IF j <= p THEN c.lru[j - 1] ELSE c.lru[j]
  <2>1. m \in Nat /\ m <= Len(t)
    BY <1>1, <1>4
  <2> QED BY <1>4, <1>6, <2>1
<1> HIDE DEF u
<1>8. m \in Nat /\ m <= CacheCapacity
      /\ m <= IF p <= Len(c.lru) THEN Len(c.lru) ELSE Len(c.lru) + 1
  BY <1>1
<1>9. Distinct(u)
  <2> HIDE DEF m
  <2>1. FrontOf(u, n, c.lru, p)
    BY <1>6, <1>7, <1>8 DEF FrontOf
  <2>2. At(c.lru, n.key, p)
    BY <1>2
  <2> QED BY <1>1, <2>1, <2>2, FrontedDistinct
<1>10. Put(c, key, value) \in CachesOf(G)
  BY <1>3, <1>5, <1>6, <1>8, <1>9 DEF CachesOf
<1> QED BY <1>3, <1>6, <1>7, <1>10 DEF IsPut, n, q

LEMMA PutTyped ==
  ASSUME NEW G, Nodal(G), NEW c \in CachesOf(G), NEW key, NEW value, Node(key, value) \in G
  PROVE  Put(c, key, value) \in CachesOf(G)
<1>1. c.lru \in Seq(G) /\ Distinct(c.lru)
  BY DEF CachesOf
<1>2. PICK p \in 1..(Len(c.lru) + 1) : At(c.lru, key, p)
  BY <1>1, HasPlace
<1> QED BY <1>2, PutLru

-------------------------------------------------------------------------------
(* Every cache on the way of PutAll is a cache, and comes from the one     *)
(* before it by put.                                                       *)
Puts(f, c, nodes) ==
  f[0] = c /\ \A i \in 1..Len(nodes) : f[i] = Put(f[i - 1], nodes[i].key, nodes[i].value)

LEMMA PutAllSteps ==
  ASSUME NEW G, Nodal(G), NEW c \in CachesOf(G), NEW nodes \in Seq(G)
  PROVE  \E f \in [0..Len(nodes) -> CachesOf(G)] :
            Puts(f, c, nodes) /\ PutAll(c, nodes) = f[Len(nodes)]
<1> DEFINE D == CachesOf(G)
           step == [cn \in D \X G |-> Put(cn[1], cn[2].key, cn[2].value)]
           Rest(g) == [n \in 0..Len(nodes) |->
                         IF n = 0 THEN c ELSE Put(g[n - 1], nodes[n].key, nodes[n].value)]
<1>1. ASSUME NEW d \in D, NEW n \in G PROVE Put(d, n.key, n.value) \in D
  BY PutTyped DEF Nodal
<1>2. step \in [D \X G -> D]
  <2> HIDE DEF D
  <2> QED BY <1>1
<1>3. PICK f \in [0..Len(nodes) -> D] : Steps(f, step, c, nodes)
  <2> HIDE DEF D, step
  <2>1. c \in D
    BY DEF D
  <2> QED BY <1>2, <2>1, StepsExist
<1>4. Len(nodes) \in Nat /\ \A i \in 1..Len(nodes) : nodes[i] \in G
  BY LenProperties, ElementOfSeq
<1>5. f = Rest(f)
  <2> HIDE DEF D
  <2>1. ASSUME NEW i \in 1..Len(nodes)
        PROVE  f[i] = Put(f[i - 1], nodes[i].key, nodes[i].value)
    <3>1. i - 1 \in 0..Len(nodes)
      BY <1>4
    <3>2. f[i - 1] \in D /\ nodes[i] \in G
      BY <1>4, <3>1
    <3> QED BY <1>3, <3>2 DEF Steps
  <2> QED BY <1>3, <1>4, <2>1 DEF Steps
<1> DEFINE after == CHOOSE g : g = Rest(g)
<1>6. after = Rest(after)
  <2> HIDE DEF Rest
  <2> QED BY <1>5
<1>7. PutAll(c, nodes) = after[Len(nodes)]
  BY DEF PutAll
<1> HIDE DEF after
<1>8. Puts(after, c, nodes)
  BY <1>4, <1>6 DEF Puts
<1>9. after \in [0..Len(nodes) -> D]
  <2> DEFINE T == {i \in 0..Len(nodes) : after[i] \in D}
  <2> HIDE DEF D
  <2>1. 0 \in T
    BY <1>4, <1>8 DEF Puts, D
  <2>2. ASSUME NEW i \in 0..(Len(nodes) - 1), i \in T PROVE i + 1 \in T
    <3>1. i + 1 \in 1..Len(nodes) /\ (i + 1) - 1 = i
      BY <1>4
    <3>2. after[i + 1] = Put(after[i], nodes[i + 1].key, nodes[i + 1].value)
      BY <1>8, <3>1 DEF Puts
    <3> QED BY <1>1, <1>4, <2>2, <3>1, <3>2
  <2>3. 0..Len(nodes) \subseteq T
    <3> HIDE DEF T
    <3> QED BY <1>4, <2>1, <2>2, IntervalInduction
  <2> QED BY <1>6, <2>3
<1> QED BY <1>7, <1>8, <1>9

LEMMA PutAllTyped ==
  ASSUME NEW G, Nodal(G), NEW c \in CachesOf(G), NEW nodes \in Seq(G)
  PROVE  PutAll(c, nodes) \in CachesOf(G)
<1>1. PICK f \in [0..Len(nodes) -> CachesOf(G)] : PutAll(c, nodes) = f[Len(nodes)]
  BY PutAllSteps
<1> QED BY <1>1, LenProperties

LEMMA Cleared ==
  ASSUME NEW G, NEW c \in CachesOf(G)
  PROVE  [c EXCEPT !.lru = <<>>] \in CachesOf(G) /\ [c EXCEPT !.pending = <<>>] \in CachesOf(G)
<1>1. c \in [lru : Seq(G), pending : Seq(G)] /\ Len(c.lru) <= CacheCapacity /\ Distinct(c.lru)
  BY DEF CachesOf
<1>2. <<>> \in Seq(G) /\ Len(<<>>) = 0 /\ Distinct(<<>>)
  BY DEF Distinct
<1> DEFINE a == [c EXCEPT !.lru = <<>>]
           b == [c EXCEPT !.pending = <<>>]
<1>3. a \in [lru : Seq(G), pending : Seq(G)] /\ a.lru = <<>>
  BY <1>1, <1>2
<1>4. b \in [lru : Seq(G), pending : Seq(G)] /\ b.lru = c.lru
  BY <1>1, <1>2
<1> HIDE DEF a, b
<1>5. a \in CachesOf(G)
  BY <1>2, <1>3, CacheCapacityAssumption DEF CachesOf
<1>6. b \in CachesOf(G)
  BY <1>1, <1>4 DEF CachesOf
<1> QED BY <1>5, <1>6 DEF a, b

(* updateP2M, updateM2M and readFromFile, which put one node after another. *)
LEMMA UpdatesTyped ==
  ASSUME NEW G, Nodal(G), NEW c \in CachesOf(G), NEW d \in CachesOf(G)
  PROVE  UpdateP2M(c, d) \in CachesOf(G) /\ UpdateM2M(c, d) \in CachesOf(G)
<1>1. d.pending \in Seq(G) /\ d.lru \in Seq(G) /\ c.pending \in Seq(G)
  BY DEF CachesOf
<1>2. UpdateP2M(c, d) \in CachesOf(G)
  BY <1>1, PutAllTyped DEF UpdateP2M
<1> DEFINE e == [c EXCEPT !.lru = <<>>]
           f == PutAll(e, d.lru)
<1>3. e \in CachesOf(G)
  BY Cleared
<1>4. f \in CachesOf(G)
  <2> HIDE DEF e
  <2> QED BY <1>1, <1>3, PutAllTyped
<1>5. UpdateM2M(c, d) = [f EXCEPT !.pending = IF d.lru = <<>> THEN c.pending ELSE <<>>]
  BY DEF UpdateM2M
<1> HIDE DEF f
<1>6. UpdateM2M(c, d) \in CachesOf(G)
  <2>1. (IF d.lru = <<>> THEN c.pending ELSE <<>>) \in Seq(G)
    BY <1>1
  <2> QED BY <1>4, <1>5, <2>1 DEF CachesOf
<1> QED BY <1>2, <1>6

LEMMA EmptyCacheTyped == \A G : EmptyCache \in CachesOf(G)
BY CacheCapacityAssumption DEF EmptyCache, CachesOf, Distinct

(* As many keys as nodes. *)
LEMMA DistinctKeys ==
  ASSUME NEW G, NEW s \in Seq(G), Distinct(s)
  PROVE  Cardinality(KeysOf(s)) = Len(s)
<1> DEFINE f == [i \in 1..Len(s) |-> s[i].key]
<1>1. Len(s) \in Nat /\ DOMAIN s = 1..Len(s)
  BY LenProperties
<1>2. f \in Surjection(1..Len(s), KeysOf(s))
  BY <1>1 DEF KeysOf, Surjection
<1>3. f \in Injection(1..Len(s), KeysOf(s))
  BY <1>1, <1>2 DEF Injection, Surjection, IsInjective, Distinct
<1>4. IsFiniteSet(1..Len(s)) /\ Cardinality(1..Len(s)) = Len(s)
  BY <1>1, FS_Interval
<1> QED BY <1>2, <1>3, <1>4, FS_Surjection

(* updateM2M: the list of the other cache, turned round. *)
LEMMA CopyReverses ==
  ASSUME NEW G, Nodal(G), NEW c \in CachesOf(G), NEW d \in CachesOf(G)
  PROVE  /\ UpdateM2M(c, d).lru = Reverse(d.lru)
         /\ UpdateM2M(c, d).pending = IF d.lru = <<>> THEN c.pending ELSE <<>>
<1> DEFINE e == [c EXCEPT !.lru = <<>>]
           s == d.lru
<1>1. /\ s \in Seq(G) /\ Len(s) \in Nat /\ Len(s) <= CacheCapacity /\ Distinct(s)
      /\ \A i \in 1..Len(s) : s[i] \in G
  BY LenProperties, ElementOfSeq DEF CachesOf
<1>2. e \in CachesOf(G) /\ e.lru = <<>>
  BY Cleared DEF CachesOf
<1> HIDE DEF e, s
<1>3. PICK f \in [0..Len(s) -> CachesOf(G)] : Puts(f, e, s) /\ PutAll(e, s) = f[Len(s)]
  BY <1>1, <1>2, PutAllSteps
<1> DEFINE T == {i \in 0..Len(s) :
                   Len(f[i].lru) = i /\ \A j \in 1..i : f[i].lru[j] = s[(i - j) + 1]}
<1>4. 0 \in T
  BY <1>1, <1>2, <1>3 DEF Puts
<1>5. ASSUME NEW i \in 0..(Len(s) - 1), i \in T PROVE i + 1 \in T
  <2> DEFINE n == s[i + 1]
             b == f[i]
  <2>1. i + 1 \in 1..Len(s) /\ (i + 1) - 1 = i /\ i \in 0..Len(s) /\ i < CacheCapacity
    BY <1>1
  <2>2. b \in CachesOf(G) /\ n \in G /\ Node(n.key, n.value) = n
    BY <1>1, <1>3, <2>1 DEF Nodal
  <2>3. f[i + 1] = Put(b, n.key, n.value)
    BY <1>3, <2>1 DEF Puts
  <2>4. At(b.lru, n.key, i + 1)
    <3>1. Len(b.lru) = i
      BY <1>5
    <3>2. ASSUME NEW j \in 1..i PROVE b.lru[j].key # n.key
      <4>1. b.lru[j] = s[(i - j) + 1] /\ (i - j) + 1 \in 1..Len(s) /\ (i - j) + 1 # i + 1
        BY <1>5, <2>1
      <4> QED BY <1>1, <2>1, <4>1 DEF Distinct
    <3> QED BY <2>1, <3>1, <3>2 DEF At
  <2> HIDE DEF n, b
  <2> DEFINE a == Put(b, n.key, n.value)
  <2>5. IsPut(a, b, n.key, n.value, i + 1)
    BY <2>2, <2>4, PutLru
  <2> HIDE DEF a
  <2>6. Len(b.lru) = i /\ \A j \in 1..i : b.lru[j] = s[(i - j) + 1]
    BY <1>5 DEF b
  <2>7. Len(a.lru) = i + 1
    BY <2>1, <2>5, <2>6 DEF IsPut
  <2>8. ASSUME NEW j \in 1..(i + 1) PROVE a.lru[j] = s[((i + 1) - j) + 1]
    <3>1. CASE j = 1
      <4>1. a.lru[1] = n /\ ((i + 1) - 1) + 1 = i + 1
        BY <2>1, <2>2, <2>5, <2>7 DEF IsPut
      <4> QED BY <3>1, <4>1 DEF n
    <3>2. CASE j # 1
      <4>1. j - 1 \in 1..i /\ (i - (j - 1)) + 1 = ((i + 1) - j) + 1 /\ j <= i + 1
        BY <3>2
      <4>2. a.lru[j] = b.lru[j - 1]
        BY <2>5, <2>7, <3>2, <4>1 DEF IsPut
      <4> QED BY <2>6, <4>1, <4>2
    <3> QED BY <3>1, <3>2
  <2> QED BY <2>1, <2>3, <2>7, <2>8 DEF a
<1>6. Len(s) \in T
  <2>1. 0..Len(s) \subseteq T
    <3> HIDE DEF T
    <3> QED BY <1>1, <1>4, <1>5, IntervalInduction
  <2> QED BY <1>1, <2>1
<1>7. PutAll(e, s) \in CachesOf(G) /\ PutAll(e, s).lru = Reverse(s)
  <2> DEFINE r == PutAll(e, s).lru
  <2>1. PutAll(e, s) \in CachesOf(G)
    BY <1>1, <1>2, PutAllTyped
  <2>2. r \in Seq(G) /\ Len(r) = Len(s) /\ \A j \in 1..Len(s) : r[j] = s[(Len(s) - j) + 1]
    BY <1>3, <1>6, <2>1 DEF CachesOf
  <2>3. r = [j \in 1..Len(r) |-> r[j]]
    BY <2>2, LenProperties
  <2> HIDE DEF r
  <2>4. r = Reverse(s)
    BY <1>1, <2>2, <2>3 DEF Reverse
  <2> QED BY <2>1, <2>4 DEF r
<1>8. UpdateM2M(c, d) = [PutAll(e, s) EXCEPT !.pending = IF s = <<>> THEN c.pending ELSE <<>>]
  BY DEF UpdateM2M, e, s
<1> QED BY <1>7, <1>8 DEF CachesOf, s
===============================================================================
