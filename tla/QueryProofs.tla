------------------------------ MODULE QueryProofs ------------------------------
(***************************************************************************)
(* What holds of the two queries, the one on the dictionary and the one on *)
(* the pages, for any words, dictionaries, pages and queries.              *)
(***************************************************************************)
EXTENDS Dictionary, WebPageSearcher, DataLemmas

-------------------------------------------------------------------------------
(* Dictionary: the queue.  What is in it is given by what was pushed and   *)
(* what came out; only copies of results have been popped besides.         *)

Chars == DOMAIN Bytes

QueTyped ==
  /\ dict \subseteq Words /\ sought \in Seq(Chars)
  /\ op \in {"query", "solitaire", "random"}
  /\ at \in {"collect", "test", "scan", "done", "undefined"}
  /\ (at \in {"test", "scan"} => op = "query")
  /\ i \in Nat \ {0} /\ que \in [Words -> Nat]
  /\ cnt \in 0..MaxResults
  /\ (at = "scan" \/ (op = "random" /\ at = "collect") => cnt # 0)
  /\ (op = "query" => ret \in Seq(Words) /\ Len(ret) + cnt = MaxResults)

(* The places of sought, up to the k-th, that bring a word into the queue. *)
Sharing(w, k) == {n \in 1..k : sought[n] \notin Digits /\ sought[n] \in Range(w)}

Collected ==
  op = "query" /\ at = "collect" =>
     /\ i \in 1..(Len(sought) + 1) /\ ret = <<>> /\ top = NoTop
     /\ \A w \in Words : que[w] = IF w \in dict THEN Cardinality(Sharing(w, i - 1)) ELSE 0

(* A word that has not come out is there as often as it was pushed. *)
Counted ==
  op = "query" /\ at # "collect" =>
     \A w \in Words :
        /\ w \in Range(ret) => w \in dict /\ que[w] < Copies(w)
        /\ w \notin Range(ret) => que[w] = IF w \in dict THEN Copies(w) ELSE 0

(* What came out is not worse than what is there, or came out later. *)
Ordered ==
  op = "query" =>
     /\ top # NoTop => top \in Best
     /\ \A m \in DOMAIN ret : \A w \in Queued : ~Better(w, ret[m])
     /\ \A m, n \in DOMAIN ret : m < n => ~Better(ret[n], ret[m])

(* The queue was not empty when the scan began: copies of a result were. *)
Emptied ==
  /\ at = "undefined" => \/ op = "query" /\ Queued = {} /\ cnt # 0
                         \/ op = "random" /\ dict = {}
  /\ op = "query" /\ at \in {"scan", "undefined"} /\ Queued = {} =>
        \E w \in dict : Copies(w) > 1

QueInv == QueTyped /\ Collected /\ Counted /\ Ordered /\ Emptied

LEMMA SharingCounted ==
  ASSUME sought \in Seq(Chars), NEW w
  PROVE  /\ \A k \in Nat : IsFiniteSet(Sharing(w, k)) /\ Cardinality(Sharing(w, k)) \in Nat
         /\ Copies(w) = Cardinality(Sharing(w, Len(sought)))
         /\ Cardinality(Sharing(w, 0)) = 0
         /\ \A k \in 1..Len(sought) :
               Cardinality(Sharing(w, k))
                 = Cardinality(Sharing(w, k - 1))
                     + IF sought[k] \notin Digits /\ sought[k] \in Range(w) THEN 1 ELSE 0
<1>1. ASSUME NEW k \in Nat
      PROVE  IsFiniteSet(Sharing(w, k)) /\ Cardinality(Sharing(w, k)) \in Nat
  <2>1. IsFiniteSet(1..k)
    BY FS_Interval
  <2>2. IsFiniteSet(Sharing(w, k))
    BY <2>1, FS_Subset DEF Sharing
  <2> QED BY <2>2, FS_CardinalityType
<1>2. Copies(w) = Cardinality(Sharing(w, Len(sought)))
  BY LenProperties DEF Copies, Sharing
<1>3. Sharing(w, 0) = {}
  BY DEF Sharing
<1>4. ASSUME NEW k \in 1..Len(sought)
      PROVE  Cardinality(Sharing(w, k))
               = Cardinality(Sharing(w, k - 1))
                   + IF sought[k] \notin Digits /\ sought[k] \in Range(w) THEN 1 ELSE 0
  <2> DEFINE S == Sharing(w, k - 1)
  <2>0. k \in Nat /\ k - 1 \in Nat /\ 1..k = 1..(k - 1) \cup {k}
    BY LenProperties
  <2>1. IsFiniteSet(S) /\ Cardinality(S) \in Nat /\ k \notin S
    <3>1. k \notin 1..(k - 1)
      BY <2>0
    <3> QED BY <1>1, <2>0, <3>1 DEF Sharing
  <2>2. CASE sought[k] \notin Digits /\ sought[k] \in Range(w)
    <3>1. Sharing(w, k) = S \cup {k}
      BY <2>0, <2>2 DEF Sharing
    <3> QED BY <2>1, <2>2, <3>1, FS_AddElement
  <2>3. CASE ~(sought[k] \notin Digits /\ sought[k] \in Range(w))
    <3>1. Sharing(w, k) = S
      BY <2>0, <2>3 DEF Sharing
    <3> QED BY <2>1, <2>3, <3>1
  <2> QED BY <2>2, <2>3
<1> QED BY <1>1, <1>2, <1>3, <1>4, FS_EmptySet

LEMMA IndexedWord ==
  ASSUME NEW w \in Words, dict \subseteq Words, NEW ch
  PROVE  w \in Index(ch) <=> w \in dict /\ ch \notin Digits /\ ch \in Range(w)
<1>1. w \in Seq(Chars) /\ DOMAIN w = 1..Len(w)
  BY WordsAssumption, LenProperties DEF Chars
<1> QED BY <1>1 DEF Index, CreateIndex, Contains, Range

LEMMA InitQue == Init => QueInv
<1> SUFFICES ASSUME Init PROVE QueInv
  OBVIOUS
<1> USE DEF Init
<1>1. sought \in Seq(Chars)
  <2>1. CASE sought \in Soughts
    BY <2>1, SoughtsAssumption DEF Chars
  <2>2. CASE sought = <<>>
    BY <2>2
  <2> QED BY <2>1, <2>2
<1>2. QueTyped
  BY <1>1, ResultsAssumption DEF QueTyped
<1>3. Collected
  BY <1>1, SharingCounted, LenProperties DEF Collected
<1>4. Counted /\ Ordered /\ Emptied
  BY DEF Counted, Ordered, Emptied
<1> QED BY <1>2, <1>3, <1>4 DEF QueInv

(* What the bound variables range over, once for all the steps. *)
LEMMA QueFacts ==
  ASSUME QueTyped
  PROVE  /\ \A w : Copies(w) \in Nat
         /\ Queued \subseteq Words /\ Best \subseteq Queued
         /\ DOMAIN que = Words /\ \A w \in Words : que[w] \in Nat
         /\ NoTop \notin Words
         /\ Len(sought) \in Nat
         /\ op = "query" => Len(ret) \in Nat /\ DOMAIN ret = 1..Len(ret)
                            /\ \A n \in 1..Len(ret) : ret[n] \in Words
<1>1. \A w : Copies(w) \in Nat
  <2> TAKE w
  <2>1. Len(sought) \in Nat
    BY LenProperties DEF QueTyped
  <2> QED BY <2>1, SharingCounted DEF QueTyped
<1>2. op = "query" => Len(ret) \in Nat /\ DOMAIN ret = 1..Len(ret)
                      /\ \A n \in 1..Len(ret) : ret[n] \in Words
  BY LenProperties, ElementOfSeq DEF QueTyped
<1>3. Len(sought) \in Nat
  BY LenProperties DEF QueTyped
<1> QED BY <1>1, <1>2, <1>3, WordsAssumption DEF QueTyped, Queued, Best

LEMMA CollectQue == QueInv /\ Collect => QueInv'
<1> SUFFICES ASSUME QueInv, Collect PROVE QueInv'
  OBVIOUS
<1> USE DEF QueInv
<1>0. /\ op = "query" /\ at = "collect" /\ ret = <<>> /\ top = NoTop
      /\ dict' = dict /\ op' = op /\ sought' = sought /\ top' = top /\ cnt' = cnt /\ ret' = ret
  BY DEF Collect, Collected
<1>1. \A w : Copies(w)' = Copies(w)
  BY <1>0 DEF Copies
<1>2. DOMAIN ret = {} /\ Range(ret) = {} /\ Len(sought) \in Nat /\ i \in 1..(Len(sought) + 1)
  BY <1>0, QueFacts DEF Collected, Range
<1>3. CASE i <= Len(sought)
  <2>1. que' = [w \in Words |-> que[w] + IF w \in Index(sought[i]) THEN 1 ELSE 0]
        /\ i' = i + 1 /\ at' = at
    BY <1>3 DEF Collect
  <2>2. QueTyped'
    BY <1>0, <2>1, QueFacts DEF QueTyped
  <2>3. ASSUME NEW w \in Words
        PROVE  que'[w] = IF w \in dict THEN Cardinality(Sharing(w, i)) ELSE 0
    <3>1. /\ que[w] = IF w \in dict THEN Cardinality(Sharing(w, i - 1)) ELSE 0
          /\ i \in 1..Len(sought) /\ i - 1 \in Nat
      BY <1>0, <1>2, <1>3 DEF Collected
    <3>2. w \in Index(sought[i])
            <=> w \in dict /\ sought[i] \notin Digits /\ sought[i] \in Range(w)
      BY IndexedWord DEF QueTyped
    <3>3. Cardinality(Sharing(w, i))
            = Cardinality(Sharing(w, i - 1))
                + IF sought[i] \notin Digits /\ sought[i] \in Range(w) THEN 1 ELSE 0
      BY <3>1, SharingCounted DEF QueTyped
    <3>4. Cardinality(Sharing(w, i - 1)) \in Nat
      BY <3>1, SharingCounted DEF QueTyped
    <3>5. que'[w] = que[w] + IF w \in Index(sought[i]) THEN 1 ELSE 0
      BY <2>1
    <3> QED BY <3>1, <3>2, <3>3, <3>4, <3>5
  <2>4. \A w, k : Sharing(w, k)' = Sharing(w, k)
    BY <1>0 DEF Sharing
  <2>5. Collected'
    <3>1. i' \in 1..(Len(sought) + 1) /\ i' - 1 = i
      BY <1>2, <1>3, <2>1
    <3> QED BY <1>0, <2>3, <3>1 DEF Collected, Sharing
  <2>6. Counted' /\ Emptied'
    BY <1>0, <2>1 DEF Counted, Emptied
  <2>7. Ordered'
    BY <1>0, <1>2 DEF Ordered
  <2> QED BY <2>2, <2>5, <2>6, <2>7
<1>4. CASE ~(i <= Len(sought))
  <2>1. at' = "test" /\ que' = que /\ i' = i
    BY <1>4 DEF Collect
  <2>2. QueTyped'
    BY <1>0, <2>1 DEF QueTyped
  <2>3. Counted'
    <3>1. i - 1 = Len(sought)
      BY <1>2, <1>4
    <3>2. ASSUME NEW w \in Words PROVE que[w] = IF w \in dict THEN Copies(w) ELSE 0
      BY <1>0, <3>1, SharingCounted DEF Collected, QueTyped
    <3> QED BY <1>0, <1>1, <1>2, <2>1, <3>2 DEF Counted, Range
  <2>4. Collected' /\ Emptied'
    BY <1>0, <2>1 DEF Collected, Emptied
  <2>5. Ordered'
    BY <1>0, <1>2 DEF Ordered
  <2> QED BY <2>2, <2>3, <2>4, <2>5
<1> QED BY <1>3, <1>4

(* The queue and what is compared are the same after a step that leaves *)
(* dict, sought and que alone.                                          *)
LEMMA SameQueue ==
  ASSUME dict' = dict, sought' = sought, que' = que
  PROVE  /\ Queued' = Queued /\ Best' = Best
         /\ \A w : Copies(w)' = Copies(w)
         /\ \A v, w : Better(v, w)' = Better(v, w)
BY DEF Queued, Best, Copies, Better, Dis

LEMMA TestQue == QueInv /\ Test => QueInv'
<1> SUFFICES ASSUME QueInv, Test PROVE QueInv'
  OBVIOUS
<1> USE DEF QueInv
<1>0. /\ op = "query" /\ at = "test"
      /\ dict' = dict /\ op' = op /\ sought' = sought /\ que' = que /\ top' = top
      /\ cnt' = cnt /\ ret' = ret
      /\ \/ at' = "done" /\ i' = i
         \/ at' = "scan" /\ i' = 1 /\ cnt # 0 /\ Queued # {}
  BY DEF Test, QueTyped
<1>1. QueTyped'
  BY <1>0 DEF QueTyped
<1>2. Collected' /\ Counted'
  BY <1>0, SameQueue DEF Collected, Counted
<1>3. Ordered'
  BY <1>0, SameQueue DEF Ordered
<1>4. Emptied'
  BY <1>0, SameQueue DEF Emptied
<1> QED BY <1>1, <1>2, <1>3, <1>4

(* A copy of one of the best is popped: what is left is some of what was. *)
LEMMA Popped ==
  ASSUME QueInv, op = "query", NEW w \in Tops, Queued # {}, Pop(w), dict' = dict, sought' = sought
  PROVE  /\ w \in Best /\ w \in Words /\ que[w] > 0
         /\ que' \in [Words -> Nat] /\ que'[w] = que[w] - 1
         /\ \A v \in Words \ {w} : que'[v] = que[v]
         /\ Queued' \subseteq Queued
         /\ \A v : Copies(v)' = Copies(v)
         /\ \A v, u : Better(v, u)' = Better(v, u)
<1> USE DEF QueInv
<1>1. w \in Best
  BY DEF Tops, Ordered
<1>2. w \in Words /\ que[w] > 0 /\ que \in [Words -> Nat]
  BY <1>1, QueFacts DEF Best, Queued, QueTyped
<1>3. que' \in [Words -> Nat] /\ que'[w] = que[w] - 1 /\ \A v \in Words \ {w} : que'[v] = que[v]
  BY <1>2 DEF Pop
<1>4. Queued' \subseteq Queued
  BY <1>2, <1>3 DEF Queued
<1>5. /\ \A v : Copies(v)' = Copies(v)
      /\ \A v, u : Better(v, u)' = Better(v, u)
  BY DEF Copies, Better, Dis
<1> QED BY <1>1, <1>2, <1>3, <1>4, <1>5

LEMMA ScanQue == QueInv /\ Scan => QueInv'
<1> SUFFICES ASSUME QueInv, Scan PROVE QueInv'
  OBVIOUS
<1> USE DEF QueInv
<1>0. /\ op = "query" /\ at = "scan" /\ i <= Len(ret) /\ Queued # {}
      /\ dict' = dict /\ op' = op /\ sought' = sought /\ at' = at
      /\ cnt' = cnt /\ ret' = ret /\ i' = i + 1
      /\ i \in 1..Len(ret) /\ Len(ret) \in Nat /\ DOMAIN ret = 1..Len(ret)
  BY QueFacts DEF Scan, QueTyped
<1>1. PICK w \in Tops : IF ret[i] = w THEN Pop(w) ELSE top' = w /\ UNCHANGED que
  BY DEF Scan
<1>2. CASE ret[i] = w
  <2>1. Pop(w) /\ top' = NoTop
    BY <1>1, <1>2 DEF Pop
  <2>2. /\ w \in Words /\ que[w] > 0 /\ w \in Range(ret)
        /\ que' \in [Words -> Nat] /\ que'[w] = que[w] - 1
        /\ \A v \in Words \ {w} : que'[v] = que[v]
        /\ Queued' \subseteq Queued
        /\ \A v : Copies(v)' = Copies(v)
        /\ \A v, u : Better(v, u)' = Better(v, u)
    BY <1>0, <1>2, <2>1, Popped DEF Range
  <2>3. w \in dict /\ que[w] < Copies(w) /\ que[w] \in Nat /\ Copies(w) \in Nat
    BY <1>0, <2>2, QueFacts DEF Counted
  <2>4. QueTyped'
    BY <1>0, <2>2 DEF QueTyped
  <2>5. Collected'
    BY <1>0 DEF Collected
  <2>6. Counted'
    <3> SUFFICES ASSUME NEW v \in Words
                 PROVE  /\ v \in Range(ret) => v \in dict /\ que'[v] < Copies(v)
                        /\ v \notin Range(ret) => que'[v] = IF v \in dict THEN Copies(v) ELSE 0
      BY <1>0, <2>2 DEF Counted
    <3>1. CASE v = w
      BY <2>2, <2>3, <3>1
    <3>2. CASE v # w
      BY <1>0, <2>2, <3>2 DEF Counted
    <3> QED BY <3>1, <3>2
  <2>7. Ordered'
    BY <1>0, <2>1, <2>2 DEF Ordered
  <2>8. Emptied'
    BY <1>0, <2>2, <2>3 DEF Emptied
  <2> QED BY <2>4, <2>5, <2>6, <2>7, <2>8
<1>3. CASE ret[i] # w
  <2>1. top' = w /\ que' = que
    BY <1>1, <1>3
  <2>2. w \in Best
    BY <1>0 DEF Tops, Ordered
  <2>3. QueTyped'
    BY <1>0, <2>1 DEF QueTyped
  <2>4. Collected' /\ Counted' /\ Emptied'
    BY <1>0, <2>1, SameQueue DEF Collected, Counted, Emptied
  <2>5. Ordered'
    BY <1>0, <2>1, <2>2, SameQueue DEF Ordered
  <2> QED BY <2>3, <2>4, <2>5
<1> QED BY <1>2, <1>3

LEMMA TakeTopQue == QueInv /\ TakeTop => QueInv'
<1> SUFFICES ASSUME QueInv, TakeTop PROVE QueInv'
  OBVIOUS
<1> USE DEF QueInv
<1>0. /\ op = "query" /\ at = "scan" /\ Queued # {}
      /\ dict' = dict /\ op' = op /\ sought' = sought /\ at' = "test"
      /\ cnt' = cnt - 1 /\ i' = i
      /\ Len(ret) \in Nat /\ DOMAIN ret = 1..Len(ret) /\ ret \in Seq(Words)
      /\ cnt # 0 /\ cnt \in 0..MaxResults /\ Len(ret) + cnt = MaxResults
  BY QueFacts DEF TakeTop, QueTyped
<1>1. PICK w \in Tops : ret' = Append(ret, w) /\ Pop(w)
  BY DEF TakeTop
<1>2. /\ w \in Best /\ w \in Words /\ que[w] > 0
      /\ que' \in [Words -> Nat] /\ que'[w] = que[w] - 1
      /\ \A v \in Words \ {w} : que'[v] = que[v]
      /\ Queued' \subseteq Queued
      /\ \A v : Copies(v)' = Copies(v)
      /\ \A v, u : Better(v, u)' = Better(v, u)
  BY <1>0, <1>1, Popped
<1>3. /\ ret' \in Seq(Words) /\ Len(ret') = Len(ret) + 1
      /\ DOMAIN ret' = 1..(Len(ret) + 1)
      /\ \A m \in 1..Len(ret) : ret'[m] = ret[m]
      /\ ret'[Len(ret) + 1] = w
      /\ Range(ret') = Range(ret) \cup {w}
  BY <1>0, <1>1, <1>2, AppendProperties, AppendElements, LenProperties
<1>4. top' = NoTop
  BY <1>1 DEF Pop
<1>5. QueTyped'
  <2>1. cnt' \in 0..MaxResults /\ Len(ret') + cnt' = MaxResults
    BY <1>0, <1>3, ResultsAssumption
  <2> QED BY <1>0, <1>2, <1>3, <2>1 DEF QueTyped
<1>6. Collected' /\ Emptied'
  BY <1>0 DEF Collected, Emptied
<1>7. Counted'
  <2>1. w \in dict /\ que[w] - 1 < Copies(w) /\ que[w] \in Nat /\ Copies(w) \in Nat
    BY <1>0, <1>2, QueFacts DEF Counted
  <2> SUFFICES ASSUME NEW v \in Words
               PROVE  /\ v \in Range(ret') => v \in dict /\ que'[v] < Copies(v)
                      /\ v \notin Range(ret') => que'[v] = IF v \in dict THEN Copies(v) ELSE 0
    BY <1>0, <1>2 DEF Counted
  <2>2. CASE v = w
    BY <1>2, <1>3, <2>1, <2>2
  <2>3. CASE v # w
    BY <1>0, <1>2, <1>3, <2>3 DEF Counted
  <2> QED BY <2>2, <2>3
<1>8. Ordered'
  <2>1. \A v \in Queued : ~Better(v, w)
    BY <1>2 DEF Best
  <2>2. w \in Queued
    BY <1>2 DEF Queued
  <2>3. ASSUME NEW m \in 1..(Len(ret) + 1), NEW v \in Queued PROVE ~Better(v, ret'[m])
    <3>1. CASE m \in 1..Len(ret)
      BY <1>0, <1>3, <3>1 DEF Ordered
    <3>2. CASE m = Len(ret) + 1
      BY <1>3, <2>1, <3>2
    <3> QED BY <1>0, <3>1, <3>2
  <2>4. ASSUME NEW m \in 1..(Len(ret) + 1), NEW n \in 1..(Len(ret) + 1), m < n
        PROVE  ~Better(ret'[n], ret'[m])
    <3>1. m \in 1..Len(ret)
      BY <1>0, <2>4
    <3>2. CASE n \in 1..Len(ret)
      BY <1>0, <1>3, <2>4, <3>1, <3>2 DEF Ordered
    <3>3. CASE n = Len(ret) + 1
      BY <1>0, <1>3, <2>2, <3>1, <3>3 DEF Ordered
    <3> QED BY <1>0, <3>2, <3>3
  <2> QED BY <1>0, <1>2, <1>3, <1>4, <2>3, <2>4 DEF Ordered
<1> QED BY <1>5, <1>6, <1>7, <1>8

LEMMA OtherStepsQue ==
  QueInv /\ (EmptyTop \/ GetSolitaireKeys \/ GetRandKeys \/ UNCHANGED vars) => QueInv'
<1> SUFFICES ASSUME QueInv PROVE (EmptyTop \/ GetSolitaireKeys \/ GetRandKeys \/ UNCHANGED vars) => QueInv'
  OBVIOUS
<1> USE DEF QueInv
<1>1. ASSUME EmptyTop PROVE QueInv'
  <2>1. /\ op = "query" /\ at = "scan" /\ Queued = {} /\ cnt # 0 /\ at' = "undefined"
        /\ UNCHANGED <<dict, op, sought, i, que, top, cnt, ret>>
    BY <1>1 DEF EmptyTop, QueTyped
  <2> QED BY <2>1, SameQueue DEF QueTyped, Collected, Counted, Ordered, Emptied
<1>2. ASSUME GetSolitaireKeys PROVE QueInv'
  BY <1>2 DEF GetSolitaireKeys, QueTyped, Collected, Counted, Ordered, Emptied
<1>3. ASSUME GetRandKeys PROVE QueInv'
  <2>1. /\ op = "random" /\ at = "collect" /\ cnt \in 0..MaxResults /\ cnt # 0
        /\ UNCHANGED <<dict, op, sought, i, que, top>>
        /\ \/ dict = {} /\ at' = "undefined" /\ cnt' = cnt
           \/ /\ cnt' = cnt - 1 /\ at' \in {"done", "collect"}
              /\ at' = "collect" => cnt # 1
    BY <1>3 DEF GetRandKeys, QueTyped
  <2>2. cnt' \in 0..MaxResults /\ (at' = "collect" => cnt' # 0)
    BY <2>1, ResultsAssumption
  <2>3. QueTyped'
    BY <2>1, <2>2 DEF QueTyped
  <2>4. Collected' /\ Counted' /\ Ordered'
    BY <2>1 DEF Collected, Counted, Ordered
  <2>5. Emptied'
    BY <2>1 DEF Emptied
  <2> QED BY <2>3, <2>4, <2>5
<1>4. ASSUME UNCHANGED vars PROVE QueInv'
  <2>1. UNCHANGED <<dict, op, sought, at, i, que, top, cnt, ret>>
    BY <1>4 DEF vars
  <2>2. QueTyped'
    BY <2>1 DEF QueTyped
  <2>3. Collected'
    BY <2>1 DEF Collected, Sharing
  <2>4. Counted' /\ Ordered' /\ Emptied'
    BY <2>1, SameQueue DEF Counted, Ordered, Emptied
  <2> QED BY <2>2, <2>3, <2>4
<1> QED BY <1>1, <1>2, <1>3, <1>4

LEMMA NextQue == QueInv /\ [Next]_vars => QueInv'
BY CollectQue, TestQue, ScanQue, TakeTopQue, OtherStepsQue DEF Next

-------------------------------------------------------------------------------
(* Dictionary: what follows of the results. *)

(* The queue holds only words of the dictionary, as often as they were     *)
(* pushed, and gives them in the order of operator<: the results are the   *)
(* best there are, whichever of several equally good ones comes first.     *)
THEOREM ResultsAreTheBest == Spec => []ResultsAreBest
<1>1. Init => QueInv
  BY InitQue
<1>2. QueInv /\ [Next]_vars => QueInv'
  BY NextQue
<1>3. QueInv => ResultsAreBest
  <2> SUFFICES ASSUME QueInv, op = "query"
               PROVE  /\ Range(ret) \subseteq Candidates
                      /\ \A m, n \in DOMAIN ret : m < n => ~Beats(ret[n], ret[m])
                      /\ \A m \in DOMAIN ret : \A w \in Candidates \ Range(ret) : ~Beats(w, ret[m])
    BY DEF ResultsAreBest
  <2> USE DEF QueInv
  <2>0. \A v, w : Beats(v, w) <=> Better(v, w)
    BY DEF Beats, Better
  <2>1. CASE at = "collect"
    <3>1. DOMAIN ret = {} /\ Range(ret) = {}
      BY <2>1, QueFacts DEF Collected, Range
    <3> QED BY <3>1
  <2>2. CASE at # "collect"
    <3>1. \A w \in Words : w \in Range(ret) => w \in dict /\ que[w] < Copies(w)
      BY <2>2 DEF Counted
    <3>2. Range(ret) \subseteq Words
      BY QueFacts DEF Range
    <3>3. Range(ret) \subseteq Candidates
      BY <3>1, <3>2, QueFacts DEF Candidates
    <3>4. Candidates \ Range(ret) \subseteq Queued
      <4> SUFFICES ASSUME NEW w \in Candidates, w \notin Range(ret) PROVE w \in Queued
        OBVIOUS
      <4>1. w \in Words /\ w \in dict /\ Copies(w) > 0
        BY DEF Candidates, QueTyped
      <4> QED BY <2>2, <4>1 DEF Counted, Queued
    <3> QED BY <2>0, <3>3, <3>4 DEF Ordered
  <2> QED BY <2>1, <2>2
<1> QED BY <1>1, <1>2, <1>3, PTL DEF Spec

(* No more values than places. *)
LEMMA RangeCounted ==
  ASSUME NEW S, NEW s \in Seq(S)
  PROVE  IsFiniteSet(Range(s)) /\ Cardinality(Range(s)) <= Len(s)
<1>1. Len(s) \in Nat /\ DOMAIN s = 1..Len(s)
  BY LenProperties
<1>2. IsFiniteSet(1..Len(s)) /\ Cardinality(1..Len(s)) = Len(s)
  BY <1>1, FS_Interval
<1>3. s \in Surjection(1..Len(s), Range(s))
  BY <1>1 DEF Surjection, Range
<1> QED BY <1>2, <1>3, FS_Surjection

(* The queue is empty too early only when all candidates are results, so   *)
(* that there are fewer than wanted, and copies of one of them were in it  *)
(* when the scan began: top() of an empty queue needs both.                *)
THEOREM EmptyQueueNeedsFew == Spec => []UndefinedNeedsFew
<1>1. Init => QueInv
  BY InitQue
<1>2. QueInv /\ [Next]_vars => QueInv'
  BY NextQue
<1>3. QueInv => UndefinedNeedsFew
  <2> SUFFICES ASSUME QueInv, at = "undefined", ~(op = "random" /\ dict = {})
               PROVE  /\ op = "query" /\ Cardinality(Candidates) < MaxResults
                      /\ \E w \in Candidates : Copies(w) > 1
    BY DEF UndefinedNeedsFew
  <2> USE DEF QueInv
  <2>1. op = "query" /\ Queued = {} /\ cnt # 0
    BY DEF Emptied
  <2>2. \E w \in Candidates : Copies(w) > 1
    BY <2>1, QueFacts DEF Emptied, Candidates
  <2>3. Candidates \subseteq Range(ret)
    <3> SUFFICES ASSUME NEW w \in Candidates, w \notin Range(ret) PROVE FALSE
      OBVIOUS
    <3>1. w \in Words /\ w \in dict /\ Copies(w) > 0
      BY DEF Candidates, QueTyped
    <3>2. que[w] = Copies(w)
      BY <2>1, <3>1 DEF Counted
    <3> QED BY <2>1, <3>1, <3>2 DEF Queued
  <2>4. /\ ret \in Seq(Words) /\ cnt \in 0..MaxResults /\ Len(ret) + cnt = MaxResults
        /\ Len(ret) \in Nat
    BY <2>1, LenProperties DEF QueTyped
  <2>5. /\ IsFiniteSet(Range(ret)) /\ Cardinality(Range(ret)) <= Len(ret)
    BY <2>4, RangeCounted
  <2>6. Cardinality(Candidates) <= Cardinality(Range(ret))
    BY <2>3, <2>5, FS_Subset
  <2>7. Cardinality(Candidates) \in Nat /\ Cardinality(Range(ret)) \in Nat
    BY <2>3, <2>5, FS_Subset, FS_CardinalityType
  <2>8. Cardinality(Candidates) < MaxResults
    BY <2>1, <2>4, <2>5, <2>6, <2>7, ResultsAssumption
  <2> QED BY <2>1, <2>2, <2>8
<1> QED BY <1>1, <1>2, <1>3, PTL DEF Spec

(* What a repetition needs. *)
Several ==
  \E w \in Candidates :
     \/ Copies(w) >= 3
     \/ /\ Copies(w) = 2
        /\ \E v \in Candidates \ {w} : Copies(v) >= 2 /\ ~Beats(v, w) /\ ~Beats(w, v)

(* Without that, the scan pops the last copy of a result at its turn, or   *)
(* finds on top what is no result.                                         *)
Unrepeated ==
  op = "query" /\ ~Several =>
     /\ IsInjective(ret)
     /\ at = "scan" => \A k \in DOMAIN ret : k < i =>
                          que[ret[k]] = 0 \/ (top # NoTop /\ top # ret[k])

LEMMA OneCopyLeft ==
  ASSUME QueInv, op = "query", at = "scan", ~Several,
         NEW w \in Range(ret), que[w] > 0
  PROVE  que[w] = 1 /\ \A v \in Range(ret) : v # w => que[v] = 0
<1> USE DEF QueInv
<1>1. /\ \A v \in Range(ret) : /\ v \in Words /\ v \in dict /\ que[v] < Copies(v)
                               /\ que[v] \in Nat /\ Copies(v) \in Nat
                               /\ v \in Candidates
      /\ \A v \in Range(ret) : \A u \in Queued : ~Better(u, v)
  <2>1. Range(ret) \subseteq Words
    BY QueFacts DEF Range
  <2>2. \A v \in Range(ret) : /\ v \in Words /\ v \in dict /\ que[v] < Copies(v)
                             /\ que[v] \in Nat /\ Copies(v) \in Nat
    BY <2>1, QueFacts DEF Counted
  <2>3. \A v \in Range(ret) : \A u \in Queued : ~Better(u, v)
    BY DEF Ordered, Range
  <2> QED BY <2>2, <2>3 DEF Candidates
<1>2. Copies(w) = 2 /\ que[w] = 1
  BY <1>1 DEF Several
<1>3. ASSUME NEW v \in Range(ret), v # w, que[v] # 0 PROVE FALSE
  <2>1. v \in Queued /\ w \in Queued /\ Copies(v) >= 2
    BY <1>1, <1>3 DEF Queued
  <2>2. ~Beats(v, w) /\ ~Beats(w, v)
    BY <1>1, <2>1 DEF Beats, Better
  <2> QED BY <1>1, <1>2, <1>3, <2>1, <2>2 DEF Several
<1> QED BY <1>2, <1>3

LEMMA SeveralConstant ==
  ASSUME dict' = dict, sought' = sought
  PROVE  Several' = Several
BY DEF Several, Candidates, Copies, Beats, Dis

LEMMA ScanOnce == QueInv /\ Unrepeated /\ Scan => Unrepeated'
<1> SUFFICES ASSUME QueInv, Unrepeated, Scan, ~Several, op = "query" PROVE Unrepeated'
  BY SeveralConstant DEF Scan, Unrepeated
<1>0. /\ at = "scan" /\ i <= Len(ret) /\ Queued # {}
      /\ dict' = dict /\ op' = op /\ sought' = sought /\ at' = at
      /\ cnt' = cnt /\ ret' = ret /\ i' = i + 1
      /\ i \in 1..Len(ret) /\ Len(ret) \in Nat /\ DOMAIN ret = 1..Len(ret)
      /\ \A k \in 1..Len(ret) : ret[k] \in Words /\ ret[k] \in Range(ret)
      /\ \A v \in Words : que[v] \in Nat
  BY QueFacts DEF Scan, QueInv, QueTyped, Range
<1>1. /\ IsInjective(ret)
      /\ \A k \in 1..Len(ret) : k < i => que[ret[k]] = 0 \/ (top # NoTop /\ top # ret[k])
  BY <1>0 DEF Unrepeated
<1>2. PICK w \in Tops : IF ret[i] = w THEN Pop(w) ELSE top' = w /\ UNCHANGED que
  BY DEF Scan
<1>3. CASE ret[i] = w
  <2>1. /\ w \in Words /\ que[w] > 0 /\ w \in Range(ret)
        /\ que'[w] = que[w] - 1
        /\ \A v \in Words \ {w} : que'[v] = que[v]
    BY <1>0, <1>2, <1>3, Popped
  <2>2. que[w] = 1 /\ \A v \in Range(ret) : v # w => que[v] = 0
    BY <1>0, <2>1, OneCopyLeft
  <2>3. \A k \in 1..Len(ret) : que'[ret[k]] = 0
    BY <1>0, <2>1, <2>2
  <2> QED BY <1>0, <1>1, <2>3 DEF Unrepeated
<1>4. CASE ret[i] # w
  <2>1. top' = w /\ que' = que
    BY <1>2, <1>4
  <2>2. w # NoTop
    BY <1>0, QueFacts DEF Tops, Ordered, QueInv
  <2>3. ASSUME NEW k \in 1..Len(ret), k < i + 1
        PROVE  que[ret[k]] = 0 \/ w # ret[k]
    <3>1. CASE k = i
      BY <1>4, <3>1
    <3>2. CASE k # i
      <4>1. k < i
        BY <1>0, <2>3, <3>2
      <4> QED BY <1>1, <4>1 DEF Tops
    <3> QED BY <3>1, <3>2
  <2> QED BY <1>0, <1>1, <2>1, <2>2, <2>3 DEF Unrepeated
<1> QED BY <1>3, <1>4

LEMMA TakeTopOnce == QueInv /\ Unrepeated /\ TakeTop => Unrepeated'
<1> SUFFICES ASSUME QueInv, Unrepeated, TakeTop, ~Several, op = "query" PROVE Unrepeated'
  BY SeveralConstant DEF TakeTop, Unrepeated
<1>0. /\ at = "scan" /\ i > Len(ret) /\ Queued # {}
      /\ dict' = dict /\ op' = op /\ sought' = sought /\ at' = "test"
      /\ Len(ret) \in Nat /\ DOMAIN ret = 1..Len(ret) /\ ret \in Seq(Words) /\ i \in Nat
      /\ \A k \in 1..Len(ret) : k < i
  BY QueFacts DEF TakeTop, QueInv, QueTyped
<1>1. /\ IsInjective(ret)
      /\ \A k \in 1..Len(ret) : que[ret[k]] = 0 \/ (top # NoTop /\ top # ret[k])
  BY <1>0 DEF Unrepeated
<1>2. PICK w \in Tops : ret' = Append(ret, w) /\ Pop(w)
  BY DEF TakeTop
<1>3. w \in Words /\ que[w] > 0
  BY <1>0, <1>2, Popped
<1>4. w \notin Range(ret)
  BY <1>0, <1>1, <1>3, QueFacts DEF Range, Tops, QueInv
<1>5. IsInjective(ret')
  BY <1>0, <1>1, <1>2, <1>3, <1>4, AppendElements
<1> QED BY <1>0, <1>5 DEF Unrepeated

(* A word comes twice among the results only when three of its characters  *)
(* are asked for, or two, as two of an equally good other candidate are.   *)
THEOREM RepetitionIsOfCopies == Spec => []RepetitionNeedsCopies
<1>1. Init => QueInv /\ Unrepeated
  <2> SUFFICES ASSUME Init PROVE Unrepeated
    BY InitQue
  <2> QED BY DEF Init, Unrepeated, IsInjective
<1>2. QueInv /\ Unrepeated /\ [Next]_vars => (QueInv /\ Unrepeated)'
  <2> SUFFICES ASSUME QueInv, Unrepeated, [Next]_vars PROVE Unrepeated'
    BY NextQue
  <2>1. ASSUME Collect \/ Test \/ EmptyTop \/ GetSolitaireKeys \/ GetRandKeys \/ UNCHANGED vars
        PROVE  Unrepeated'
    <3>0. dict' = dict /\ sought' = sought /\ op' = op
      BY <2>1 DEF Collect, Test, EmptyTop, GetSolitaireKeys, GetRandKeys, vars
    <3>1. CASE op # "query"
      BY <3>0, <3>1 DEF Unrepeated
    <3>2. CASE op = "query"
      <4>1. ret' = ret
        BY <2>1, <3>2 DEF Collect, Test, EmptyTop, GetSolitaireKeys, GetRandKeys, vars
      <4>2. CASE UNCHANGED vars
        BY <3>0, <4>2, SeveralConstant DEF Unrepeated, vars
      <4>3. CASE Collect \/ EmptyTop \/ Test
        <5>1. at' = "scan" => i' = 1
          BY <4>3 DEF Collect, EmptyTop, Test
        <5>2. \A k \in DOMAIN ret : ~(k < 1)
          BY QueFacts, <3>2 DEF QueInv
        <5> QED BY <3>0, <4>1, <5>1, <5>2, SeveralConstant DEF Unrepeated
      <4> QED BY <2>1, <3>2, <4>2, <4>3 DEF GetSolitaireKeys, GetRandKeys
    <3> QED BY <3>1, <3>2
  <2> QED BY <2>1, ScanOnce, TakeTopOnce DEF Next
<1>3. QueInv /\ Unrepeated => RepetitionNeedsCopies
  BY DEF Unrepeated, Several, RepetitionNeedsCopies
<1> QED BY <1>1, <1>2, <1>3, PTL DEF Spec

-------------------------------------------------------------------------------
(* Dictionary: the edit distance.  Matchings and what they cost, for the   *)
(* first m characters of one word and the first n of the other.            *)

InOrder(M) ==
  \A p, q \in M : p # q => (p[1] < q[1] /\ p[2] < q[2]) \/ (p[1] > q[1] /\ p[2] > q[2])
Ways(m, n) == {M \in SUBSET ((1..m) \X (1..n)) : InOrder(M)}
Replaced(lhs, rhs, M) == {p \in M : lhs[p[1]] # rhs[p[2]]}
(* The price of a pair. *)
Change(lhs, rhs, m, n) == IF lhs[m] # rhs[n] THEN 1 ELSE 0
Price(lhs, rhs, m, n, M) ==
  m + n - 2 * Cardinality(M) + Cardinality(Replaced(lhs, rhs, M))

LEMMA ChangeCosts ==
  \A lhs, rhs, m, n : /\ Change(lhs, rhs, m, n) \in 0..1
                      /\ Change(lhs, rhs, m, n) = 0 <=> lhs[m] = rhs[n]
BY DEF Change

LEMMA WayCounted ==
  ASSUME NEW lhs, NEW rhs, NEW m \in Nat, NEW n \in Nat, NEW M \in Ways(m, n)
  PROVE  /\ IsFiniteSet(M) /\ Cardinality(M) \in Nat
         /\ IsFiniteSet(Replaced(lhs, rhs, M)) /\ Cardinality(Replaced(lhs, rhs, M)) \in Nat
         /\ \A k, l \in Nat : Price(lhs, rhs, k, l, M) \in Int
<1>1. IsFiniteSet((1..m) \X (1..n))
  <2>1. IsFiniteSet(1..m) /\ IsFiniteSet(1..n)
    BY FS_Interval
  <2> QED BY <2>1, FS_Product
<1>2. IsFiniteSet(M) /\ Cardinality(M) \in Nat
  BY <1>1, FS_Subset, FS_CardinalityType DEF Ways
<1>3. Replaced(lhs, rhs, M) \subseteq M
  BY DEF Replaced
<1>4. IsFiniteSet(Replaced(lhs, rhs, M)) /\ Cardinality(Replaced(lhs, rhs, M)) \in Nat
  BY <1>2, <1>3, FS_Subset, FS_CardinalityType
<1> QED BY <1>2, <1>4 DEF Price

(* One pair fewer. *)
LEMMA WayWithout ==
  ASSUME NEW lhs, NEW rhs, NEW m \in Nat, NEW n \in Nat, NEW M \in Ways(m, n), NEW p \in M
  PROVE  /\ Cardinality(M \ {p}) = Cardinality(M) - 1
         /\ Cardinality(Replaced(lhs, rhs, M \ {p}))
              = Cardinality(Replaced(lhs, rhs, M)) - Change(lhs, rhs, p[1], p[2])
<1> DEFINE R == Replaced(lhs, rhs, M)
           Rp == Replaced(lhs, rhs, M \ {p})
<1>1. IsFiniteSet(M) /\ Cardinality(M) \in Nat /\ IsFiniteSet(R) /\ Cardinality(R) \in Nat
  BY WayCounted
<1>2. Cardinality(M \ {p}) = Cardinality(M) - 1
  BY <1>1, FS_RemoveElement
<1>3. CASE lhs[p[1]] # rhs[p[2]]
  <2>1. Rp = R \ {p} /\ p \in R
    BY <1>3 DEF Replaced
  <2>2. Cardinality(Rp) = Cardinality(R) - 1
    BY <1>1, <2>1, FS_RemoveElement
  <2> QED BY <1>2, <1>3, <2>2 DEF Change
<1>4. CASE ~(lhs[p[1]] # rhs[p[2]])
  <2>1. Rp = R
    BY <1>4 DEF Replaced
  <2> HIDE DEF R, Rp
  <2>2. Cardinality(Rp) = Cardinality(R) - 0
    BY <1>1, <2>1
  <2> QED BY <1>2, <1>4, <2>2 DEF Change, R, Rp
<1> QED BY <1>3, <1>4

(* The same pairs, of longer or shorter beginnings. *)
LEMMA WaySame ==
  ASSUME NEW lhs, NEW rhs, NEW m \in Nat, NEW n \in Nat, NEW M \in Ways(m, n),
         NEW k \in Nat, NEW l \in Nat
  PROVE  Price(lhs, rhs, k, l, M) = Price(lhs, rhs, m, n, M) + (k - m) + (l - n)
BY WayCounted DEF Price

(* A matching without the last character of one word, or of both. *)
LEMMA WaySmaller ==
  ASSUME NEW m \in Nat, NEW n \in Nat, NEW M \in Ways(m, n), NEW N \in SUBSET M,
         NEW k \in 0..m, NEW l \in 0..n,
         \A p \in N : p[1] <= k /\ p[2] <= l
  PROVE  N \in Ways(k, l)
<1>1. ASSUME NEW p \in N PROVE p \in (1..k) \X (1..l)
  <2>1. p \in (1..m) \X (1..n) /\ p[1] <= k /\ p[2] <= l
    BY DEF Ways
  <2>2. p = <<p[1], p[2]>> /\ p[1] \in 1..k /\ p[2] \in 1..l
    BY <2>1
  <2> QED BY <2>2
<1>2. InOrder(N)
  BY DEF Ways, InOrder
<1> QED BY <1>1, <1>2 DEF Ways

(* One pair more: the last characters of both. *)
LEMMA WayWith ==
  ASSUME NEW lhs, NEW rhs, NEW m \in Nat \ {0}, NEW n \in Nat \ {0}, NEW M \in Ways(m - 1, n - 1)
  PROVE  /\ M \cup {<<m, n>>} \in Ways(m, n)
         /\ Price(lhs, rhs, m, n, M \cup {<<m, n>>})
              = Price(lhs, rhs, m - 1, n - 1, M) + Change(lhs, rhs, m, n)
<1> DEFINE p == <<m, n>>
           N == M \cup {p}
<1>0. /\ m - 1 \in Nat /\ n - 1 \in Nat
      /\ \A q \in M : /\ q[1] \in 1..(m - 1) /\ q[2] \in 1..(n - 1)
                      /\ q = <<q[1], q[2]>>
  BY DEF Ways
<1>1. N \in Ways(m, n)
  <2>1. ASSUME NEW q \in N PROVE q \in (1..m) \X (1..n)
    <3>1. CASE q = p
      BY <3>1
    <3>2. CASE q \in M
      <4>1. q[1] \in 1..m /\ q[2] \in 1..n /\ q = <<q[1], q[2]>>
        BY <1>0, <3>2
      <4> QED BY <4>1
    <3> QED BY <3>1, <3>2
  <2>2. \A q \in M : q[1] < p[1] /\ q[2] < p[2]
    BY <1>0
  <2>3. InOrder(M)
    BY DEF Ways
  <2> HIDE DEF p
  <2>4. InOrder(N)
    <3> SUFFICES ASSUME NEW q \in N, NEW r \in N, q # r
                 PROVE  (q[1] < r[1] /\ q[2] < r[2]) \/ (q[1] > r[1] /\ q[2] > r[2])
      BY DEF InOrder
    <3>1. CASE q \in M /\ r \in M
      BY <2>3, <3>1 DEF InOrder
    <3>2. CASE q \in M /\ r = p
      BY <2>2, <3>2
    <3>3. CASE q = p /\ r \in M
      <4>1. r[1] < p[1] /\ r[2] < p[2] /\ r[1] \in Int /\ r[2] \in Int /\ p[1] \in Int /\ p[2] \in Int
        BY <1>0, <2>2, <3>3 DEF p
      <4> QED BY <3>3, <4>1
    <3> QED BY <3>1, <3>2, <3>3
  <2> QED BY <2>1, <2>4 DEF Ways
<1>2. p \notin M
  BY <1>0
<1>3. N \ {p} = M /\ p \in N
  BY <1>2
<1>4. Price(lhs, rhs, m - 1, n - 1, M)
        = Price(lhs, rhs, m, n, N) + ((m - 1) - m) + ((n - 1) - n) + 2
            - Change(lhs, rhs, m, n)
  <2>1. p[1] = m /\ p[2] = n
    OBVIOUS
  <2>2. Cardinality(N) \in Nat /\ Cardinality(Replaced(lhs, rhs, N)) \in Nat
    <3> HIDE DEF N
    <3> QED BY <1>1, WayCounted
  <2>3. /\ Cardinality(M) = Cardinality(N) - 1
        /\ Cardinality(Replaced(lhs, rhs, M))
             = Cardinality(Replaced(lhs, rhs, N)) - Change(lhs, rhs, m, n)
    <3> HIDE DEF N, p
    <3> QED BY <1>1, <1>3, <2>1, WayWithout
  <2> HIDE DEF N
  <2> QED BY <2>2, <2>3, ChangeCosts DEF Price
<1>5. Price(lhs, rhs, m, n, N) \in Int
  <2> HIDE DEF N
  <2> QED BY <1>1, WayCounted
<1> HIDE DEF N
<1>6. Price(lhs, rhs, m, n, N)
        = Price(lhs, rhs, m - 1, n - 1, M) + Change(lhs, rhs, m, n)
  BY <1>0, <1>4, <1>5, ChangeCosts
<1> QED BY <1>1, <1>6 DEF N

(* Without the last character of one word a matching loses one pair at most. *)
LEMMA WayShorter ==
  ASSUME NEW lhs, NEW rhs, NEW m \in Nat, NEW n \in Nat, NEW M \in Ways(m, n)
  PROVE  /\ n > 0 => \E N \in Ways(m, n - 1) :
                        Price(lhs, rhs, m, n - 1, N) <= Price(lhs, rhs, m, n, M) + 1
         /\ m > 0 => \E N \in Ways(m - 1, n) :
                        Price(lhs, rhs, m - 1, n, N) <= Price(lhs, rhs, m, n, M) + 1
<1>0. /\ InOrder(M) /\ Price(lhs, rhs, m, n, M) \in Int
      /\ \A q \in M : q[1] \in 1..m /\ q[2] \in 1..n
  BY WayCounted DEF Ways
<1>1. ASSUME n > 0
      PROVE  \E N \in Ways(m, n - 1) :
                Price(lhs, rhs, m, n - 1, N) <= Price(lhs, rhs, m, n, M) + 1
  <2>0. n - 1 \in Nat /\ n - 1 \in 0..n /\ m \in 0..m
    BY <1>1
  <2>1. CASE \A q \in M : q[2] # n
    <3>1. \A q \in M : q[1] <= m /\ q[2] <= n - 1
      BY <1>0, <2>1
    <3>2. M \in Ways(m, n - 1)
      BY <2>0, <3>1, WaySmaller
    <3>3. Price(lhs, rhs, m, n - 1, M) = Price(lhs, rhs, m, n, M) - 1
      BY <2>0, WayCounted DEF Price
    <3> QED BY <1>0, <3>2, <3>3
  <2>2. CASE \E q \in M : q[2] = n
    <3>1. PICK q \in M : q[2] = n
      BY <2>2
    <3>2. ASSUME NEW r \in M \ {q} PROVE r[1] <= m /\ r[2] <= n - 1
      <4>1. (r[1] < q[1] /\ r[2] < q[2]) \/ (r[1] > q[1] /\ r[2] > q[2])
        BY <1>0 DEF InOrder
      <4> QED BY <1>0, <3>1, <4>1
    <3>3. M \ {q} \in Ways(m, n - 1)
      BY <2>0, <3>2, WaySmaller
    <3>4. Price(lhs, rhs, m, n - 1, M \ {q})
            = Price(lhs, rhs, m, n, M) + 1 - Change(lhs, rhs, q[1], q[2])
      <4>1. /\ Cardinality(M \ {q}) = Cardinality(M) - 1
            /\ Cardinality(Replaced(lhs, rhs, M \ {q}))
                 = Cardinality(Replaced(lhs, rhs, M)) - Change(lhs, rhs, q[1], q[2])
        BY WayWithout
      <4> QED BY <4>1, WayCounted, ChangeCosts DEF Price
    <3> QED BY <1>0, <3>3, <3>4, ChangeCosts
  <2> QED BY <2>1, <2>2
<1>2. ASSUME m > 0
      PROVE  \E N \in Ways(m - 1, n) :
                Price(lhs, rhs, m - 1, n, N) <= Price(lhs, rhs, m, n, M) + 1
  <2>0. m - 1 \in Nat /\ m - 1 \in 0..m /\ n \in 0..n
    BY <1>2
  <2>1. CASE \A q \in M : q[1] # m
    <3>1. \A q \in M : q[1] <= m - 1 /\ q[2] <= n
      BY <1>0, <2>1
    <3>2. M \in Ways(m - 1, n)
      BY <2>0, <3>1, WaySmaller
    <3>3. Price(lhs, rhs, m - 1, n, M) = Price(lhs, rhs, m, n, M) - 1
      BY <2>0, WayCounted DEF Price
    <3> QED BY <1>0, <3>2, <3>3
  <2>2. CASE \E q \in M : q[1] = m
    <3>1. PICK q \in M : q[1] = m
      BY <2>2
    <3>2. ASSUME NEW r \in M \ {q} PROVE r[1] <= m - 1 /\ r[2] <= n
      <4>1. (r[1] < q[1] /\ r[2] < q[2]) \/ (r[1] > q[1] /\ r[2] > q[2])
        BY <1>0 DEF InOrder
      <4> QED BY <1>0, <3>1, <4>1
    <3>3. M \ {q} \in Ways(m - 1, n)
      BY <2>0, <3>2, WaySmaller
    <3>4. Price(lhs, rhs, m - 1, n, M \ {q})
            = Price(lhs, rhs, m, n, M) + 1 - Change(lhs, rhs, q[1], q[2])
      <4>1. /\ Cardinality(M \ {q}) = Cardinality(M) - 1
            /\ Cardinality(Replaced(lhs, rhs, M \ {q}))
                 = Cardinality(Replaced(lhs, rhs, M)) - Change(lhs, rhs, q[1], q[2])
        BY WayWithout
      <4> QED BY <4>1, WayCounted, ChangeCosts DEF Price
    <3> QED BY <1>0, <3>3, <3>4, ChangeCosts
  <2> QED BY <2>1, <2>2
<1> QED BY <1>1, <1>2

(* What the table of the code has at a place is the least price there is. *)
IsLeastPrice(x, lhs, rhs, m, n) ==
  /\ x \in Int
  /\ \E M \in Ways(m, n) : x = Price(lhs, rhs, m, n, M)
  /\ \A M \in Ways(m, n) : x <= Price(lhs, rhs, m, n, M)

LEMMA LeastPriceAtEdge ==
  ASSUME NEW lhs, NEW rhs, NEW m \in Nat
  PROVE  IsLeastPrice(m, lhs, rhs, m, 0) /\ IsLeastPrice(m, lhs, rhs, 0, m)
<1>1. Ways(m, 0) = {{}} /\ Ways(0, m) = {{}}
  BY DEF Ways, InOrder
<1>2. Replaced(lhs, rhs, {}) = {}
  BY DEF Replaced
<1>3. Price(lhs, rhs, m, 0, {}) = m /\ Price(lhs, rhs, 0, m, {}) = m
  BY <1>2, FS_EmptySet DEF Price
<1>4. /\ {} \in Ways(m, 0) /\ \A M \in Ways(m, 0) : M = {}
      /\ {} \in Ways(0, m) /\ \A M \in Ways(0, m) : M = {}
  BY <1>1
<1>5. m \in Int /\ m <= m
  OBVIOUS
<1>6. IsLeastPrice(m, lhs, rhs, m, 0)
  BY <1>3, <1>4, <1>5, Zenon DEF IsLeastPrice
<1>7. IsLeastPrice(m, lhs, rhs, 0, m)
  BY <1>3, <1>4, <1>5, Zenon DEF IsLeastPrice
<1> QED BY <1>6, <1>7

(* A matching ends with the last characters of both words, or leaves one out. *)
LEMMA WayEnds ==
  ASSUME NEW lhs, NEW rhs, NEW m \in Nat \ {0}, NEW n \in Nat \ {0}, NEW M \in Ways(m, n)
  PROVE  \/ M \in Ways(m - 1, n) /\ Price(lhs, rhs, m, n, M) = Price(lhs, rhs, m - 1, n, M) + 1
         \/ M \in Ways(m, n - 1) /\ Price(lhs, rhs, m, n, M) = Price(lhs, rhs, m, n - 1, M) + 1
         \/ \E N \in Ways(m - 1, n - 1) :
               Price(lhs, rhs, m, n, M)
                 = Price(lhs, rhs, m - 1, n - 1, N) + Change(lhs, rhs, m, n)
<1>0. /\ InOrder(M) /\ \A k, l \in Nat : Price(lhs, rhs, k, l, M) \in Int
      /\ \A q \in M : q[1] \in 1..m /\ q[2] \in 1..n /\ q = <<q[1], q[2]>>
      /\ m - 1 \in Nat /\ m - 1 \in 0..m /\ n - 1 \in Nat /\ n - 1 \in 0..n
      /\ m \in 0..m /\ n \in 0..n
  BY WayCounted DEF Ways
<1>1. CASE \A q \in M : q[1] # m
  <2>1. \A q \in M : q[1] <= m - 1 /\ q[2] <= n
    BY <1>0, <1>1
  <2>2. M \in Ways(m - 1, n)
    BY <1>0, <2>1, WaySmaller
  <2>3. Price(lhs, rhs, m - 1, n, M) = Price(lhs, rhs, m, n, M) + ((m - 1) - m) + (n - n)
    BY <1>0, WaySame
  <2> QED BY <1>0, <2>2, <2>3
<1>2. CASE \A q \in M : q[2] # n
  <2>1. \A q \in M : q[1] <= m /\ q[2] <= n - 1
    BY <1>0, <1>2
  <2>2. M \in Ways(m, n - 1)
    BY <1>0, <2>1, WaySmaller
  <2>3. Price(lhs, rhs, m, n - 1, M) = Price(lhs, rhs, m, n, M) + (m - m) + ((n - 1) - n)
    BY <1>0, WaySame
  <2> QED BY <1>0, <2>2, <2>3
<1>3. CASE (\E q \in M : q[1] = m) /\ (\E q \in M : q[2] = n)
  <2>1. PICK p \in M : p[1] = m
    BY <1>3
  <2>2. PICK q \in M : q[2] = n
    BY <1>3
  <2>3. p = q
    <3> SUFFICES ASSUME p # q PROVE FALSE
      OBVIOUS
    <3>1. (p[1] < q[1] /\ p[2] < q[2]) \/ (p[1] > q[1] /\ p[2] > q[2])
      BY <1>0 DEF InOrder
    <3> QED BY <1>0, <2>1, <2>2, <3>1
  <2>4. ASSUME NEW r \in M \ {p} PROVE r[1] <= m - 1 /\ r[2] <= n - 1
    <3>1. (r[1] < p[1] /\ r[2] < p[2]) \/ (r[1] > p[1] /\ r[2] > p[2])
      BY <1>0 DEF InOrder
    <3> QED BY <1>0, <2>1, <2>2, <2>3, <3>1
  <2>5. M \ {p} \in Ways(m - 1, n - 1)
    BY <1>0, <2>4, WaySmaller
  <2>6. Price(lhs, rhs, m - 1, n - 1, M \ {p})
          = Price(lhs, rhs, m, n, M) + ((m - 1) - m) + ((n - 1) - n) + 2
              - Change(lhs, rhs, p[1], p[2])
    <3>1. /\ Cardinality(M \ {p}) = Cardinality(M) - 1
          /\ Cardinality(Replaced(lhs, rhs, M \ {p}))
               = Cardinality(Replaced(lhs, rhs, M)) - Change(lhs, rhs, p[1], p[2])
      BY WayWithout
    <3> QED BY <3>1, WayCounted, ChangeCosts DEF Price
  <2>7. Price(lhs, rhs, m, n, M)
          = Price(lhs, rhs, m - 1, n - 1, M \ {p}) + Change(lhs, rhs, m, n)
    BY <1>0, <2>1, <2>2, <2>3, <2>6, ChangeCosts
  <2> QED BY <2>5, <2>7
<1> QED BY <1>1, <1>2, <1>3

LEMMA LeastOfThree ==
  ASSUME NEW a \in Int, NEW b \in Int, NEW c \in Int
  PROVE  /\ Least(a, b, c) \in {a, b, c}
         /\ Least(a, b, c) <= a /\ Least(a, b, c) <= b /\ Least(a, b, c) <= c
<1>1. \E x \in {a, b, c} : \A y \in {a, b, c} : x <= y
  OBVIOUS
<1> QED BY <1>1 DEF Least, Min

(* The step of the table keeps the least price least. *)
LEMMA LeastPriceStep ==
  ASSUME NEW lhs, NEW rhs, NEW m \in Nat \ {0}, NEW n \in Nat \ {0},
         NEW a, IsLeastPrice(a, lhs, rhs, m, n - 1),
         NEW b, IsLeastPrice(b, lhs, rhs, m - 1, n),
         NEW c, IsLeastPrice(c, lhs, rhs, m - 1, n - 1)
  PROVE  IsLeastPrice(IF lhs[m] = rhs[n] THEN c ELSE 1 + Least(a, b, c), lhs, rhs, m, n)
<1> DEFINE P(k, l, M) == Price(lhs, rhs, k, l, M)
<1>0. /\ a \in Int /\ b \in Int /\ c \in Int /\ m - 1 \in Nat /\ n - 1 \in Nat
      /\ \A M \in Ways(m, n) : P(m, n, M) \in Int
      /\ \A M \in Ways(m - 1, n - 1) : P(m - 1, n - 1, M) \in Int
      /\ \A M \in Ways(m - 1, n) : P(m - 1, n, M) \in Int
      /\ \A M \in Ways(m, n - 1) : P(m, n - 1, M) \in Int
  BY WayCounted DEF IsLeastPrice
<1>1. /\ \A M \in Ways(m - 1, n - 1) : c <= P(m - 1, n - 1, M)
      /\ \A M \in Ways(m - 1, n) : b <= P(m - 1, n, M)
      /\ \A M \in Ways(m, n - 1) : a <= P(m, n - 1, M)
  BY DEF IsLeastPrice
<1>2. ASSUME NEW M \in Ways(m, n)
      PROVE  \/ M \in Ways(m - 1, n) /\ P(m, n, M) = P(m - 1, n, M) + 1
             \/ M \in Ways(m, n - 1) /\ P(m, n, M) = P(m, n - 1, M) + 1
             \/ \E N \in Ways(m - 1, n - 1) :
                   P(m, n, M) = P(m - 1, n - 1, N) + Change(lhs, rhs, m, n)
  BY WayEnds
(* Each of the three is the price of a matching, but for the last step. *)
<1>3. \E M \in Ways(m, n) : P(m, n, M) = c + Change(lhs, rhs, m, n)
  <2>1. PICK N \in Ways(m - 1, n - 1) : c = P(m - 1, n - 1, N)
    BY DEF IsLeastPrice
  <2> DEFINE O == N \cup {<<m, n>>}
  <2>2. O \in Ways(m, n)
    BY WayWith
  <2>3. Price(lhs, rhs, m, n, O)
          = Price(lhs, rhs, m - 1, n - 1, N) + Change(lhs, rhs, m, n)
    BY WayWith
  <2> HIDE DEF O
  <2> QED BY <2>1, <2>2, <2>3
<1>4. \E M \in Ways(m, n) : P(m, n, M) = b + 1
  <2>1. PICK N \in Ways(m - 1, n) : b = P(m - 1, n, N)
    BY DEF IsLeastPrice
  <2>2. N \in Ways(m, n)
    <3>1. \A p \in N : p \in (1..m) \X (1..n)
      BY <1>0 DEF Ways
    <3> QED BY <3>1 DEF Ways
  <2>3. P(m, n, N) = b + 1
    BY <1>0, <2>1, WayCounted DEF Price
  <2> QED BY <2>2, <2>3
<1>5. \E M \in Ways(m, n) : P(m, n, M) = a + 1
  <2>1. PICK N \in Ways(m, n - 1) : a = P(m, n - 1, N)
    BY DEF IsLeastPrice
  <2>2. N \in Ways(m, n)
    <3>1. \A p \in N : p \in (1..m) \X (1..n)
      BY <1>0 DEF Ways
    <3> QED BY <3>1 DEF Ways
  <2>3. P(m, n, N) = a + 1
    BY <1>0, <2>1, WayCounted DEF Price
  <2> QED BY <2>2, <2>3
<1>6. CASE lhs[m] = rhs[n]
  (* Leaving a character out instead does not pay: c <= b + 1, c <= a + 1. *)
  <2>1. c <= b + 1
    <3>1. PICK N \in Ways(m - 1, n) : b = P(m - 1, n, N)
      BY DEF IsLeastPrice
    <3>2. PICK O \in Ways(m - 1, n - 1) : P(m - 1, n - 1, O) <= P(m - 1, n, N) + 1
      BY <1>0, WayShorter
    <3> QED BY <1>0, <1>1, <3>1, <3>2
  <2>2. c <= a + 1
    <3>1. PICK N \in Ways(m, n - 1) : a = P(m, n - 1, N)
      BY DEF IsLeastPrice
    <3>2. PICK O \in Ways(m - 1, n - 1) : P(m - 1, n - 1, O) <= P(m, n - 1, N) + 1
      BY <1>0, WayShorter
    <3> QED BY <1>0, <1>1, <3>1, <3>2
  <2>3. ASSUME NEW M \in Ways(m, n) PROVE c <= P(m, n, M)
    <3>1. CASE M \in Ways(m - 1, n) /\ P(m, n, M) = P(m - 1, n, M) + 1
      BY <1>0, <1>1, <2>1, <3>1
    <3>2. CASE M \in Ways(m, n - 1) /\ P(m, n, M) = P(m, n - 1, M) + 1
      BY <1>0, <1>1, <2>2, <3>2
    <3>3. CASE \E N \in Ways(m - 1, n - 1) :
                 P(m, n, M) = P(m - 1, n - 1, N) + Change(lhs, rhs, m, n)
      <4>1. PICK N \in Ways(m - 1, n - 1) : P(m, n, M) = P(m - 1, n - 1, N)
        BY <1>0, <1>6, <3>3, ChangeCosts
      <4> QED BY <1>1, <4>1
    <3> QED BY <1>2, <3>1, <3>2, <3>3
  <2>4. \E M \in Ways(m, n) : c = P(m, n, M)
    BY <1>0, <1>3, <1>6, ChangeCosts
  <2> QED BY <1>0, <1>6, <2>3, <2>4 DEF IsLeastPrice
<1>7. CASE lhs[m] # rhs[n]
  <2> DEFINE x == Least(a, b, c)
  <2>1. x \in {a, b, c} /\ x \in Int /\ x <= a /\ x <= b /\ x <= c
    BY <1>0, LeastOfThree
  <2> HIDE DEF x
  <2>2. ASSUME NEW M \in Ways(m, n) PROVE 1 + x <= P(m, n, M)
    <3>1. CASE M \in Ways(m - 1, n) /\ P(m, n, M) = P(m - 1, n, M) + 1
      BY <1>0, <1>1, <2>1, <3>1
    <3>2. CASE M \in Ways(m, n - 1) /\ P(m, n, M) = P(m, n - 1, M) + 1
      BY <1>0, <1>1, <2>1, <3>2
    <3>3. CASE \E N \in Ways(m - 1, n - 1) :
                 P(m, n, M) = P(m - 1, n - 1, N) + Change(lhs, rhs, m, n)
      BY <1>0, <1>1, <1>7, <2>1, <3>3, ChangeCosts
    <3> QED BY <1>2, <3>1, <3>2, <3>3
  <2>3. \E M \in Ways(m, n) : 1 + x = P(m, n, M)
    BY <1>0, <1>3, <1>4, <1>5, <1>7, <2>1, ChangeCosts
  <2>4. IsLeastPrice(1 + x, lhs, rhs, m, n)
    BY <2>1, <2>2, <2>3 DEF IsLeastPrice
  <2> QED BY <1>7, <2>4 DEF x
<1> QED BY <1>6, <1>7

(* A set of places of a table that has its edge, and every place that has  *)
(* the three before it, has them all.                                      *)
LEMMA TableInduction ==
  ASSUME NEW A \in Nat, NEW B \in Nat, NEW T,
         \A m \in 0..A : <<m, 0>> \in T,
         \A n \in 0..B : <<0, n>> \in T,
         \A m \in 1..A, n \in 1..B :
            <<m, n - 1>> \in T /\ <<m - 1, n>> \in T /\ <<m - 1, n - 1>> \in T => <<m, n>> \in T
  PROVE  \A m \in 0..A, n \in 0..B : <<m, n>> \in T
<1> DEFINE Rows == {m \in 0..A : \A n \in 0..B : <<m, n>> \in T}
<1>1. 0 \in Rows
  OBVIOUS
<1>2. ASSUME NEW k \in 0..(A - 1), k \in Rows PROVE k + 1 \in Rows
  <2> DEFINE Cells == {n \in 0..B : <<k + 1, n>> \in T}
  <2>0. k + 1 \in 1..A /\ k + 1 \in 0..A /\ (k + 1) - 1 = k
    OBVIOUS
  <2>1. 0 \in Cells
    BY <2>0
  <2>2. ASSUME NEW l \in 0..(B - 1), l \in Cells PROVE l + 1 \in Cells
    <3>1. l + 1 \in 1..B /\ l + 1 \in 0..B /\ l \in 0..B /\ (l + 1) - 1 = l
      OBVIOUS
    <3>2. <<k + 1, l>> \in T /\ <<k, l + 1>> \in T /\ <<k, l>> \in T
      BY <1>2, <2>2, <3>1
    <3>3. <<k + 1, l + 1>> \in T
      BY <2>0, <3>1, <3>2
    <3> QED BY <3>1, <3>3
  <2>3. 0..B \subseteq Cells
    <3> HIDE DEF Cells
    <3> QED BY <2>1, <2>2, IntervalInduction
  <2> QED BY <2>0, <2>3
<1>3. 0..A \subseteq Rows
  <2> HIDE DEF Rows
  <2> QED BY <1>1, <1>2, IntervalInduction
<1> QED BY <1>3

(* There is a least price at every place, for any two words. *)
LEMMA LeastPriceExists ==
  ASSUME NEW lhs, NEW rhs, NEW A \in Nat, NEW B \in Nat
  PROVE  \A m \in 0..A, n \in 0..B : \E x : IsLeastPrice(x, lhs, rhs, m, n)
<1> DEFINE T == {p \in (0..A) \X (0..B) : \E x : IsLeastPrice(x, lhs, rhs, p[1], p[2])}
<1>1. \A m \in 0..A : <<m, 0>> \in T
  BY LeastPriceAtEdge
<1>2. \A n \in 0..B : <<0, n>> \in T
  BY LeastPriceAtEdge
<1>3. ASSUME NEW m \in 1..A, NEW n \in 1..B,
             <<m, n - 1>> \in T, <<m - 1, n>> \in T, <<m - 1, n - 1>> \in T
      PROVE  <<m, n>> \in T
  <2>1. PICK a : IsLeastPrice(a, lhs, rhs, m, n - 1)
    BY <1>3
  <2>2. PICK b : IsLeastPrice(b, lhs, rhs, m - 1, n)
    BY <1>3
  <2>3. PICK c : IsLeastPrice(c, lhs, rhs, m - 1, n - 1)
    BY <1>3
  <2> DEFINE x == IF lhs[m] = rhs[n] THEN c ELSE 1 + Least(a, b, c)
  <2>4. m \in Nat \ {0} /\ n \in Nat \ {0} /\ <<m, n>> \in (0..A) \X (0..B)
    OBVIOUS
  <2>5. IsLeastPrice(x, lhs, rhs, m, n)
    BY <2>1, <2>2, <2>3, <2>4, LeastPriceStep
  <2> HIDE DEF x
  <2> QED BY <2>4, <2>5
<1>4. \A m \in 0..A, n \in 0..B : <<m, n>> \in T
  <2> HIDE DEF T
  <2> QED BY <1>1, <1>2, <1>3, TableInduction
<1> QED BY <1>4

LEMMA LeastPriceUnique ==
  ASSUME NEW lhs, NEW rhs, NEW m, NEW n, NEW x, NEW y,
         IsLeastPrice(x, lhs, rhs, m, n), IsLeastPrice(y, lhs, rhs, m, n)
  PROVE  x = y
<1>1. x \in Int /\ y \in Int /\ x <= y /\ y <= x
  BY DEF IsLeastPrice
<1> QED BY <1>1

(* The table of EditDistance, from the table it is made of. *)
Table(lhs, rhs, g) ==
  [p \in (0..Len(lhs)) \X (0..Len(rhs)) |->
     IF p[1] = 0 THEN p[2]
     ELSE IF p[2] = 0 THEN p[1]
     ELSE IF lhs[p[1]] = rhs[p[2]] THEN g[<<p[1] - 1, p[2] - 1>>]
     ELSE 1 + Least(g[<<p[1], p[2] - 1>>], g[<<p[1] - 1, p[2]>>], g[<<p[1] - 1, p[2] - 1>>])]

LEMMA DistanceIsLeast ==
  ASSUME NEW C, NEW lhs \in Seq(C), NEW rhs \in Seq(C)
  PROVE  IsLeastPrice(EditDistance(lhs, rhs), lhs, rhs, Len(lhs), Len(rhs))
<1> DEFINE A == Len(lhs)
           B == Len(rhs)
<1>0. A \in Nat /\ B \in Nat
  BY LenProperties
<1> HIDE DEF A, B
(* A table of least prices is one. *)
<1>1. \E g : g = Table(lhs, rhs, g)
  <2> DEFINE g == [p \in (0..A) \X (0..B) |-> CHOOSE x : IsLeastPrice(x, lhs, rhs, p[1], p[2])]
  <2>1. \A m \in 0..A, n \in 0..B : IsLeastPrice(g[<<m, n>>], lhs, rhs, m, n)
    BY <1>0, LeastPriceExists
  <2>2. DOMAIN g = (0..A) \X (0..B)
    OBVIOUS
  <2>3. g = [p \in (0..A) \X (0..B) |-> g[p]]
    OBVIOUS
  <2> HIDE DEF g
  <2>4. ASSUME NEW p \in (0..A) \X (0..B)
        PROVE  g[p] = IF p[1] = 0 THEN p[2]
                      ELSE IF p[2] = 0 THEN p[1]
                      ELSE IF lhs[p[1]] = rhs[p[2]] THEN g[<<p[1] - 1, p[2] - 1>>]
                      ELSE 1 + Least(g[<<p[1], p[2] - 1>>], g[<<p[1] - 1, p[2]>>],
                                     g[<<p[1] - 1, p[2] - 1>>])
    <3>1. PICK m \in 0..A, n \in 0..B : p = <<m, n>>
      OBVIOUS
    <3>2. p[1] = m /\ p[2] = n /\ m \in Nat /\ n \in Nat /\ IsLeastPrice(g[p], lhs, rhs, m, n)
      BY <1>0, <2>1, <3>1
    <3>3. CASE m = 0
      <4>1. IsLeastPrice(n, lhs, rhs, 0, n)
        BY <3>2, LeastPriceAtEdge
      <4> QED BY <3>2, <3>3, <4>1, LeastPriceUnique
    <3>4. CASE m # 0 /\ n = 0
      <4>1. IsLeastPrice(m, lhs, rhs, m, 0)
        BY <3>2, LeastPriceAtEdge
      <4> QED BY <3>2, <3>4, <4>1, LeastPriceUnique
    <3>5. CASE m # 0 /\ n # 0
      <4> DEFINE a == g[<<m, n - 1>>]
                 b == g[<<m - 1, n>>]
                 c == g[<<m - 1, n - 1>>]
                 x == IF lhs[m] = rhs[n] THEN c ELSE 1 + Least(a, b, c)
      <4>1. /\ IsLeastPrice(a, lhs, rhs, m, n - 1)
            /\ IsLeastPrice(b, lhs, rhs, m - 1, n)
            /\ IsLeastPrice(c, lhs, rhs, m - 1, n - 1)
        BY <1>0, <2>1, <3>2, <3>5
      <4>2. IsLeastPrice(x, lhs, rhs, m, n)
        <5> HIDE DEF a, b, c
        <5> QED BY <3>2, <3>5, <4>1, LeastPriceStep
      <4> HIDE DEF x
      <4>3. g[p] = x
        BY <3>2, <4>2, LeastPriceUnique
      <4> QED BY <3>2, <3>5, <4>3 DEF x
    <3> QED BY <3>3, <3>4, <3>5
  <2>5. Table(lhs, rhs, g) = [p \in (0..A) \X (0..B) |-> g[p]]
    BY <2>4 DEF Table, A, B
  <2> HIDE DEF Table
  <2>6. g = Table(lhs, rhs, g)
    BY <2>3, <2>5
  <2> QED BY <2>6
(* And what is one has least prices. *)
<1> DEFINE dist == CHOOSE g : g = Table(lhs, rhs, g)
<1>2. dist = Table(lhs, rhs, dist)
  <2> HIDE DEF Table
  <2> QED BY <1>1
<1>3. EditDistance(lhs, rhs) = dist[<<A, B>>]
  BY DEF EditDistance, Table, A, B
<1> HIDE DEF dist
<1>4. ASSUME NEW m \in 0..A, NEW n \in 0..B
      PROVE  dist[<<m, n>>] = IF m = 0 THEN n
                              ELSE IF n = 0 THEN m
                              ELSE IF lhs[m] = rhs[n] THEN dist[<<m - 1, n - 1>>]
                              ELSE 1 + Least(dist[<<m, n - 1>>], dist[<<m - 1, n>>],
                                             dist[<<m - 1, n - 1>>])
  <2> DEFINE p == <<m, n>>
  <2>1. p \in (0..A) \X (0..B) /\ p[1] = m /\ p[2] = n
    OBVIOUS
  <2> HIDE DEF p
  <2>2. dist[p] = IF p[1] = 0 THEN p[2]
                  ELSE IF p[2] = 0 THEN p[1]
                  ELSE IF lhs[p[1]] = rhs[p[2]] THEN dist[<<p[1] - 1, p[2] - 1>>]
                  ELSE 1 + Least(dist[<<p[1], p[2] - 1>>], dist[<<p[1] - 1, p[2]>>],
                                 dist[<<p[1] - 1, p[2] - 1>>])
    BY <1>2, <2>1 DEF Table, A, B
  <2>3. dist[p] = IF m = 0 THEN n
                  ELSE IF n = 0 THEN m
                  ELSE IF lhs[m] = rhs[n] THEN dist[<<m - 1, n - 1>>]
                  ELSE 1 + Least(dist[<<m, n - 1>>], dist[<<m - 1, n>>],
                                 dist[<<m - 1, n - 1>>])
    BY <2>1, <2>2
  <2> QED BY <2>3 DEF p
<1> DEFINE T == {p \in (0..A) \X (0..B) : IsLeastPrice(dist[p], lhs, rhs, p[1], p[2])}
<1>5. \A m \in 0..A : <<m, 0>> \in T
  <2> TAKE m \in 0..A
  <2>1. m \in Nat /\ m \in 0..A /\ 0 \in 0..B
    BY <1>0
  <2>2. dist[<<m, 0>>] = IF m = 0 THEN 0 ELSE m
    <3>1. CASE m = 0
      BY <1>4, <2>1, <3>1
    <3>2. CASE m # 0
      BY <1>4, <2>1, <3>2
    <3> QED BY <3>1, <3>2
  <2> QED BY <2>1, <2>2, LeastPriceAtEdge
<1>6. \A n \in 0..B : <<0, n>> \in T
  <2> TAKE n \in 0..B
  <2>1. n \in Nat /\ n \in 0..B /\ 0 \in 0..A
    BY <1>0
  <2>2. dist[<<0, n>>] = n
    BY <1>4, <2>1
  <2> QED BY <2>1, <2>2, LeastPriceAtEdge
<1>7. ASSUME NEW m \in 1..A, NEW n \in 1..B,
             <<m, n - 1>> \in T, <<m - 1, n>> \in T, <<m - 1, n - 1>> \in T
      PROVE  <<m, n>> \in T
  <2> DEFINE a == dist[<<m, n - 1>>]
             b == dist[<<m - 1, n>>]
             c == dist[<<m - 1, n - 1>>]
             x == IF lhs[m] = rhs[n] THEN c ELSE 1 + Least(a, b, c)
  <2>1. /\ IsLeastPrice(a, lhs, rhs, m, n - 1)
        /\ IsLeastPrice(b, lhs, rhs, m - 1, n)
        /\ IsLeastPrice(c, lhs, rhs, m - 1, n - 1)
    BY <1>7
  <2>2. m \in 0..A /\ n \in 0..B /\ m \in Nat \ {0} /\ n \in Nat \ {0}
    BY <1>0
  <2>3. IsLeastPrice(x, lhs, rhs, m, n)
    <3> HIDE DEF a, b, c
    <3> QED BY <2>1, <2>2, LeastPriceStep
  <2>4. dist[<<m, n>>] = x
    BY <1>4, <2>2
  <2> HIDE DEF x
  <2> QED BY <2>2, <2>3, <2>4
<1>8. <<A, B>> \in T
  <2> HIDE DEF T
  <2>1. \A m \in 0..A, n \in 0..B : <<m, n>> \in T
    BY <1>0, <1>5, <1>6, <1>7, TableInduction
  <2> QED BY <1>0, <2>1
<1> QED BY <1>3, <1>8 DEF A, B

(* The edit distance of a word from what is sought is the price of the     *)
(* cheapest way to turn one into the other: the least of what matchings    *)
(* cost, for words of any length over any alphabet.                        *)
THEOREM DistanceIsLeastCost == Spec => []EditDistanceIsLeast
<1>1. Init => QueInv
  BY InitQue
<1>2. QueInv /\ [Next]_vars => QueInv'
  BY NextQue
<1>3. QueInv => EditDistanceIsLeast
  <2> SUFFICES ASSUME QueInv, NEW w \in dict
               PROVE  Dis(w) = Min({Cost(sought, w, M) : M \in Matchings(sought, w)})
    BY DEF EditDistanceIsLeast
  <2> DEFINE Costs == {Cost(sought, w, M) : M \in Matchings(sought, w)}
             A == Len(sought)
             B == Len(w)
  <2>1. sought \in Seq(Chars) /\ w \in Seq(Chars)
    BY WordsAssumption DEF QueInv, QueTyped, Chars
  <2>2. DOMAIN sought = 1..A /\ DOMAIN w = 1..B /\ A \in Nat /\ B \in Nat
    BY <2>1, LenProperties
  <2>3. IsLeastPrice(Dis(w), sought, w, A, B)
    BY <2>1, DistanceIsLeast DEF Dis
  <2>4. Matchings(sought, w) = Ways(A, B)
    BY <2>2 DEF Matchings, Ways, InOrder
  <2>5. \A M : Cost(sought, w, M) = Price(sought, w, A, B, M)
    BY DEF Cost, Price, Replaced
  <2>6. Dis(w) \in Costs /\ \A y \in Costs : Dis(w) <= y
    BY <2>3, <2>4, <2>5 DEF IsLeastPrice
  <2>7. Costs \subseteq Int /\ Dis(w) \in Int
    BY <2>2, <2>3, <2>4, <2>5, WayCounted DEF IsLeastPrice
  <2> HIDE DEF Costs
  <2>8. \A y \in Costs : (\A z \in Costs : y <= z) => y = Dis(w)
    BY <2>6, <2>7
  <2>9. Min(Costs) = Dis(w)
    BY <2>6, <2>8 DEF Min
  <2> QED BY <2>9 DEF Costs
<1> QED BY <1>1, <1>2, <1>3, PTL DEF Spec

-------------------------------------------------------------------------------
(* Page search: sums over finite sets, which weights and places are. *)

(* A set of sets that has the empty one, and each one that it has without  *)
(* any of its elements, has all subsets of a finite set.                   *)
LEMMA SubsetInduction ==
  ASSUME NEW S, IsFiniteSet(S), NEW T, {} \in T,
         \A U \in SUBSET S : U # {} /\ (\A x \in U : U \ {x} \in T) => U \in T
  PROVE  SUBSET S \subseteq T
<1> DEFINE N == {n \in Nat : \A U \in SUBSET S : Cardinality(U) = n => U \in T}
<1>0. \A U \in SUBSET S : IsFiniteSet(U) /\ Cardinality(U) \in Nat
  BY FS_Subset, FS_CardinalityType
<1>1. 0 \in N
  BY <1>0, FS_EmptySet
<1>2. ASSUME NEW n \in Nat, n \in N PROVE n + 1 \in N
  <2> SUFFICES ASSUME NEW U \in SUBSET S, Cardinality(U) = n + 1 PROVE U \in T
    OBVIOUS
  <2>1. U # {}
    <3>1. Cardinality({}) = 0 /\ n + 1 # 0
      BY FS_EmptySet
    <3> QED BY <3>1
  <2>2. ASSUME NEW x \in U PROVE U \ {x} \in T
    <3>1. Cardinality(U \ {x}) = n
      BY <1>0, FS_RemoveElement
    <3> QED BY <1>2, <3>1
  <2> QED BY <2>1, <2>2
<1>3. Nat \subseteq N
  <2> HIDE DEF N
  <2> QED BY <1>1, <1>2, NatSetInduction
<1> QED BY <1>0, <1>3

OneOf(s) == CHOOSE x \in s : TRUE
Sums(f, S, g) ==
  [s \in SUBSET S |-> IF s = {} THEN 0 ELSE f[OneOf(s)] + g[s \ {OneOf(s)}]]

LEMMA OneOfElement == ASSUME NEW s, s # {} PROVE OneOf(s) \in s
BY DEF OneOf

LEMMA SumsExist ==
  ASSUME NEW S, IsFiniteSet(S), NEW f, \A x \in S : f[x] \in Int
  PROVE  \E g \in [SUBSET S -> Int] : g = Sums(f, S, g)
<1> DEFINE Upto(n) == {U \in SUBSET S : Cardinality(U) <= n}
           Made(g, n) == \A U \in Upto(n) :
                            g[U] = IF U = {} THEN 0 ELSE f[OneOf(U)] + g[U \ {OneOf(U)}]
           N == {n \in Nat : \E g \in [Upto(n) -> Int] : Made(g, n)}
<1>0. \A U \in SUBSET S : IsFiniteSet(U) /\ Cardinality(U) \in Nat
                        /\ (U = {} <=> Cardinality(U) = 0)
  BY FS_Subset, FS_CardinalityType, FS_EmptySet
<1>1. 0 \in N
  <2> DEFINE g == [U \in Upto(0) |-> 0]
  <2>1. \A U \in Upto(0) : U = {}
    BY <1>0
  <2>2. g \in [Upto(0) -> Int] /\ Made(g, 0)
    BY <2>1
  <2> QED BY <2>2
<1>2. ASSUME NEW n \in Nat, n \in N PROVE n + 1 \in N
  <2>1. PICK g \in [Upto(n) -> Int] : Made(g, n)
    BY <1>2
  <2> DEFINE h == [U \in Upto(n + 1) |->
                     IF U \in Upto(n) THEN g[U] ELSE f[OneOf(U)] + g[U \ {OneOf(U)}]]
  <2>2. ASSUME NEW U \in Upto(n + 1), U # {}
        PROVE  OneOf(U) \in S /\ U \ {OneOf(U)} \in Upto(n) /\ U \ {OneOf(U)} \in Upto(n + 1)
    <3>1. OneOf(U) \in U
      BY <2>2, OneOfElement
    <3>2. Cardinality(U \ {OneOf(U)}) = Cardinality(U) - 1
      BY <1>0, <3>1, FS_RemoveElement
    <3>3. Cardinality(U) \in Nat /\ Cardinality(U) <= n + 1 /\ U \in SUBSET S
      BY <1>0
    <3> QED BY <3>1, <3>2, <3>3
  <2>3. ASSUME NEW U \in Upto(n + 1), U \notin Upto(n) PROVE U # {}
    <3> SUFFICES ASSUME U = {} PROVE FALSE
      OBVIOUS
    <3>1. Cardinality(U) = 0
      BY FS_EmptySet
    <3> QED BY <2>3, <3>1
  <2>4. h \in [Upto(n + 1) -> Int]
    <3> SUFFICES ASSUME NEW U \in Upto(n + 1)
                 PROVE  (IF U \in Upto(n) THEN g[U] ELSE f[OneOf(U)] + g[U \ {OneOf(U)}]) \in Int
      OBVIOUS
    <3>1. CASE U \in Upto(n)
      BY <3>1
    <3>2. CASE U \notin Upto(n)
      <4> HIDE DEF Upto
      <4>1. f[OneOf(U)] \in Int /\ g[U \ {OneOf(U)}] \in Int
        BY <2>2, <2>3, <3>2
      <4> QED BY <3>2, <4>1
    <3> QED BY <3>1, <3>2
  <2>5. Made(h, n + 1)
    <3> SUFFICES ASSUME NEW U \in Upto(n + 1)
                 PROVE  h[U] = IF U = {} THEN 0 ELSE f[OneOf(U)] + h[U \ {OneOf(U)}]
      OBVIOUS
    <3>1. U # {} => h[U \ {OneOf(U)}] = g[U \ {OneOf(U)}]
      <4> HIDE DEF Upto
      <4> QED BY <2>2
    <3>2. CASE U \in Upto(n)
      <4>1. h[U] = g[U] /\ g[U] = IF U = {} THEN 0 ELSE f[OneOf(U)] + g[U \ {OneOf(U)}]
        <5> HIDE DEF Upto
        <5> QED BY <2>1, <3>2
      <4> QED BY <3>1, <4>1
    <3>3. CASE U \notin Upto(n)
      <4>1. U # {} /\ h[U] = f[OneOf(U)] + g[U \ {OneOf(U)}]
        BY <2>3, <3>3
      <4> HIDE DEF h
      <4> QED BY <3>1, <4>1
    <3> QED BY <3>2, <3>3
  <2> HIDE DEF h, Upto
  <2> QED BY <2>4, <2>5
<1>3. Nat \subseteq N
  <2> HIDE DEF N
  <2> QED BY <1>1, <1>2, NatSetInduction
<1>4. Cardinality(S) \in N /\ Upto(Cardinality(S)) = SUBSET S
  <2>1. Cardinality(S) \in Nat
    BY FS_CardinalityType
  <2>2. \A U \in SUBSET S : Cardinality(U) <= Cardinality(S)
    BY FS_Subset
  <2> HIDE DEF N
  <2> QED BY <1>3, <2>1, <2>2
<1>5. PICK g \in [SUBSET S -> Int] : Made(g, Cardinality(S))
  <2> HIDE DEF Made
  <2> QED BY <1>4
<1>6. g = Sums(f, S, g)
  <2> HIDE DEF Upto
  <2> QED BY <1>4, <1>5 DEF Sums
<1> QED BY <1>6

(* The order in which the elements are taken makes no difference. *)
IsSum(g, f, S) ==
  /\ g \in [SUBSET S -> Int] /\ g[{}] = 0
  /\ \A U \in SUBSET S : \A x \in U : g[U] = f[x] + g[U \ {x}]

LEMMA SumsAreSums ==
  ASSUME NEW S, IsFiniteSet(S), NEW f, \A x \in S : f[x] \in Int,
         NEW g \in [SUBSET S -> Int], g = Sums(f, S, g)
  PROVE  IsSum(g, f, S)
<1>1. \A U \in SUBSET S : g[U] = IF U = {} THEN 0 ELSE f[OneOf(U)] + g[U \ {OneOf(U)}]
  BY DEF Sums
<1> DEFINE T == {U \in SUBSET S : \A x \in U : g[U] = f[x] + g[U \ {x}]}
<1>2. {} \in T
  OBVIOUS
<1>3. ASSUME NEW U \in SUBSET S, U # {}, \A x \in U : U \ {x} \in T PROVE U \in T
  <2> DEFINE c == OneOf(U)
  <2>1. c \in U /\ g[U] = f[c] + g[U \ {c}]
    BY <1>1, <1>3, OneOfElement
  <2> HIDE DEF c
  <2> SUFFICES ASSUME NEW x \in U, x # c PROVE g[U] = f[x] + g[U \ {x}]
    BY <2>1
  <2>2. c \in U \ {x} /\ x \in U \ {c}
    BY <2>1
  <2>3. g[U \ {x}] = f[c] + g[(U \ {x}) \ {c}]
    BY <1>3, <2>2
  <2>4. g[U \ {c}] = f[x] + g[(U \ {c}) \ {x}]
    BY <1>3, <2>1, <2>2
  <2>5. (U \ {x}) \ {c} = (U \ {c}) \ {x}
    OBVIOUS
  <2> DEFINE r == g[(U \ {c}) \ {x}]
  <2>6. f[x] \in Int /\ f[c] \in Int /\ r \in Int
    BY <2>1
  <2>7. g[U \ {x}] = f[c] + r /\ g[U \ {c}] = f[x] + r
    BY <2>3, <2>4, <2>5
  <2> HIDE DEF r
  <2> QED BY <2>1, <2>6, <2>7
<1>4. SUBSET S \subseteq T
  <2> HIDE DEF T
  <2> QED BY <1>2, <1>3, SubsetInduction
<1> QED BY <1>1, <1>4 DEF IsSum

(* What the folds of the community modules add up is such a sum. *)
LEMMA TotalUnfolds ==
  ASSUME NEW h
  PROVE  Total(h) = (CHOOSE q : q = Sums(h, DOMAIN h, q))[DOMAIN h]
BY DEF Total, MapThenSumSet, MapThenFoldSet, Sums, OneOf

LEMMA TotalIsSum ==
  ASSUME NEW S, IsFiniteSet(S), NEW f, \A x \in S : f[x] \in Int
  PROVE  \E g : IsSum(g, f, S) /\ \A U \in SUBSET S : Total([x \in U |-> f[x]]) = g[U]
<1>1. PICK g \in [SUBSET S -> Int] : g = Sums(f, S, g)
  BY SumsExist
<1>2. \A U \in SUBSET S : g[U] = IF U = {} THEN 0 ELSE f[OneOf(U)] + g[U \ {OneOf(U)}]
  BY <1>1 DEF Sums
<1>3. IsSum(g, f, S)
  BY <1>1, SumsAreSums
<1>4. ASSUME NEW U \in SUBSET S PROVE Total([x \in U |-> f[x]]) = g[U]
  <2> DEFINE h == [x \in U |-> f[x]]
             r == CHOOSE q : q = Sums(h, U, q)
  <2>1. DOMAIN h = U /\ (\A x \in U : h[x] = f[x] /\ h[x] \in Int) /\ IsFiniteSet(U)
    BY FS_Subset
  <2> HIDE DEF h
  <2>2. Total(h) = r[U]
    BY <2>1, TotalUnfolds
  <2>3. r = Sums(h, U, r)
    BY <2>1, SumsExist
  <2> HIDE DEF r
  <2>4. \A V \in SUBSET U : r[V] = IF V = {} THEN 0 ELSE h[OneOf(V)] + r[V \ {OneOf(V)}]
    BY <2>3 DEF Sums
  <2> DEFINE T == {V \in SUBSET U : r[V] = g[V]}
  <2>5. {} \in T
    BY <1>2, <2>4
  <2>6. ASSUME NEW V \in SUBSET U, V # {}, \A x \in V : V \ {x} \in T PROVE V \in T
    <3>1. OneOf(V) \in V
      BY <2>6, OneOfElement
    <3>2. r[V \ {OneOf(V)}] = g[V \ {OneOf(V)}] /\ h[OneOf(V)] = f[OneOf(V)]
      BY <2>1, <2>6, <3>1
    <3>3. r[V] = g[V]
      BY <1>2, <2>4, <2>6, <3>2
    <3> QED BY <3>3
  <2>7. SUBSET U \subseteq T
    <3> HIDE DEF T
    <3>1. \A V \in SUBSET U : V # {} /\ (\A x \in V : V \ {x} \in T) => V \in T
      BY <2>6
    <3>2. IsFiniteSet(U)
      BY <2>1
    <3> QED BY <2>5, <3>1, <3>2, SubsetInduction
  <2>8. r[U] = g[U]
    BY <2>7
  <2> QED BY <2>2, <2>8 DEF h
<1> QED BY <1>3, <1>4

(* A total of natural numbers is one, and is 0 only if they all are. *)
LEMMA TotalOfNaturals ==
  ASSUME NEW S, IsFiniteSet(S), NEW f \in [S -> Nat]
  PROVE  Total(f) \in Nat /\ (Total(f) = 0 => \A x \in S : f[x] = 0)
<1>1. PICK g : IsSum(g, f, S) /\ \A U \in SUBSET S : Total([x \in U |-> f[x]]) = g[U]
  BY TotalIsSum
<1>2. Total(f) = g[S]
  <2>1. f = [x \in S |-> f[x]]
    OBVIOUS
  <2>2. Total([x \in S |-> f[x]]) = g[S]
    BY <1>1
  <2> QED BY <2>1, <2>2
<1> DEFINE T == {U \in SUBSET S : g[U] \in Nat /\ (g[U] = 0 => \A x \in U : f[x] = 0)}
<1>3. {} \in T
  BY <1>1 DEF IsSum
<1>4. ASSUME NEW U \in SUBSET S, U # {}, \A x \in U : U \ {x} \in T PROVE U \in T
  <2>1. ASSUME NEW x \in U PROVE \E r \in Nat : g[U] = f[x] + r
    <3>1. g[U \ {x}] \in Nat
      BY <1>4
    <3>2. g[U] = f[x] + g[U \ {x}]
      BY <1>1 DEF IsSum
    <3> QED BY <3>1, <3>2
  <2>2. \A x \in U : f[x] \in Nat
    OBVIOUS
  <2> HIDE DEF T
  <2>3. g[U] \in Nat
    <3>1. PICK x \in U : TRUE
      BY <1>4
    <3>2. PICK r \in Nat : g[U] = f[x] + r
      BY <2>1
    <3>3. f[x] \in Nat
      BY <2>2
    <3> QED BY <3>2, <3>3
  <2>4. ASSUME g[U] = 0, NEW y \in U PROVE f[y] = 0
    <3>1. PICK r \in Nat : g[U] = f[y] + r
      BY <2>1
    <3>2. f[y] \in Nat
      BY <2>2
    <3> QED BY <2>4, <3>1, <3>2
  <2> USE DEF T
  <2> QED BY <2>3, <2>4
<1>5. SUBSET S \subseteq T
  <2> HIDE DEF T
  <2> QED BY <1>3, <1>4, SubsetInduction
<1> QED BY <1>2, <1>5

-------------------------------------------------------------------------------
(* Both queries: finite sets in an order, the keys of a map. *)

IsOrder(R, S) ==
  /\ \A x \in S : <<x, x>> \notin R
  /\ \A x, y \in S : x # y => <<x, y>> \in R \/ <<y, x>> \in R
  /\ \A x, y, z \in S : <<x, y>> \in R /\ <<y, z>> \in R => <<x, z>> \in R

InOrderOf(s, R) == \A m, n \in DOMAIN s : m < n => <<s[m], s[n]>> \in R

LEMMA GreatestExists ==
  ASSUME NEW S, IsFiniteSet(S), S # {}, NEW R, IsOrder(R, S)
  PROVE  \E x \in S : \A y \in S \ {x} : <<y, x>> \in R
<1> DEFINE T == {U \in SUBSET S : U = {} \/ \E x \in U : \A y \in U \ {x} : <<y, x>> \in R}
<1>1. {} \in T
  OBVIOUS
<1>2. ASSUME NEW U \in SUBSET S, U # {}, \A x \in U : U \ {x} \in T PROVE U \in T
  <2>1. PICK y \in U : TRUE
    BY <1>2
  <2>2. CASE U \ {y} = {}
    BY <2>1, <2>2
  <2>3. CASE U \ {y} # {}
    <3>1. PICK x \in U \ {y} : \A z \in (U \ {y}) \ {x} : <<z, x>> \in R
      BY <1>2, <2>1, <2>3
    <3>2. CASE <<y, x>> \in R
      BY <3>1, <3>2
    <3>3. CASE <<x, y>> \in R
      <4>1. \A z \in U \ {y} : <<z, y>> \in R
        BY <2>1, <3>1, <3>3 DEF IsOrder
      <4> QED BY <2>1, <4>1
    <3> QED BY <2>1, <3>1, <3>2, <3>3 DEF IsOrder
  <2> QED BY <2>2, <2>3
<1>3. SUBSET S \subseteq T
  <2> HIDE DEF T
  <2> QED BY <1>1, <1>2, SubsetInduction
<1> QED BY <1>3

LEMMA SortExists ==
  ASSUME NEW S, IsFiniteSet(S), NEW R, IsOrder(R, S)
  PROVE  \E s \in [1..Cardinality(S) -> S] : InOrderOf(s, R)
<1> DEFINE T == {U \in SUBSET S : \E s \in [1..Cardinality(U) -> U] : InOrderOf(s, R)}
<1>1. {} \in T
  <2>1. Cardinality({}) = 0
    BY FS_EmptySet
  <2> DEFINE s == [m \in 1..0 |-> m]
  <2>2. s \in [1..0 -> {}] /\ InOrderOf(s, R)
    BY DEF InOrderOf
  <2> HIDE DEF s
  <2> QED BY <2>1, <2>2
<1>2. ASSUME NEW U \in SUBSET S, U # {}, \A x \in U : U \ {x} \in T PROVE U \in T
  <2>1. IsFiniteSet(U) /\ IsOrder(R, U)
    BY FS_Subset DEF IsOrder
  <2>2. PICK x \in U : \A y \in U \ {x} : <<y, x>> \in R
    BY <1>2, <2>1, GreatestExists
  <2>3. PICK s \in [1..Cardinality(U \ {x}) -> U \ {x}] : InOrderOf(s, R)
    BY <1>2, <2>2
  <2> DEFINE k == Cardinality(U)
  <2>4. Cardinality(U \ {x}) = k - 1 /\ k \in Nat \ {0}
    BY <1>2, <2>1, FS_RemoveElement, FS_CardinalityType, FS_EmptySet
  <2> HIDE DEF k
  <2> DEFINE t == [m \in 1..k |-> IF m = k THEN x ELSE s[m]]
  <2>5. \A m \in 1..k : m # k => m \in 1..(k - 1) /\ s[m] \in U \ {x}
    <3> TAKE m \in 1..k
    <3>1. m # k => m \in 1..(k - 1)
      BY <2>4
    <3>2. s \in [1..(k - 1) -> U \ {x}]
      BY <2>3, <2>4
    <3> QED BY <3>1, <3>2
  <2>6. t \in [1..k -> U]
    BY <2>5
  <2>7. ASSUME NEW m \in 1..k, NEW n \in 1..k, m < n PROVE <<t[m], t[n]>> \in R
    <3>1. CASE n = k
      <4>0. m # k
        BY <2>4, <2>7, <3>1
      <4>1. s[m] \in U \ {x}
        BY <2>5, <4>0
      <4>2. t[n] = x /\ t[m] = s[m]
        BY <3>1, <4>0
      <4> QED BY <2>2, <4>1, <4>2
    <3>2. CASE n # k
      <4>1. m \in 1..(k - 1) /\ n \in 1..(k - 1) /\ m # k
        BY <2>4, <2>7, <3>2
      <4>2. <<s[m], s[n]>> \in R
        BY <2>3, <2>4, <2>7, <4>1 DEF InOrderOf
      <4> QED BY <3>2, <4>1, <4>2
    <3> QED BY <3>1, <3>2
  <2>8. InOrderOf(t, R)
    BY <2>6, <2>7 DEF InOrderOf
  <2> HIDE DEF t
  <2> QED BY <2>6, <2>8 DEF k
<1>3. SUBSET S \subseteq T
  <2> HIDE DEF T
  <2> QED BY <1>1, <1>2, SubsetInduction
<1> QED BY <1>3

(* What is in order has every element, and once. *)
LEMMA SortedHasAll ==
  ASSUME NEW S, IsFiniteSet(S), NEW R, IsOrder(R, S),
         NEW s \in [1..Cardinality(S) -> S], InOrderOf(s, R)
  PROVE  IsInjective(s) /\ Range(s) = S
<1>1. Cardinality(S) \in Nat
  BY FS_CardinalityType
<1>2. ASSUME NEW m \in DOMAIN s, NEW n \in DOMAIN s, s[m] = s[n] PROVE m = n
  <2>1. m \in Nat /\ n \in Nat /\ s[m] \in S
    BY <1>1
  <2>2. ~(m < n) /\ ~(n < m)
    BY <1>2, <2>1 DEF InOrderOf, IsOrder
  <2> QED BY <2>1, <2>2
<1>3. IsInjective(s)
  BY <1>2 DEF IsInjective
<1>4. s \in Injection(1..Cardinality(S), S)
  BY <1>3 DEF Injection
<1>5. s \in Surjection(1..Cardinality(S), S)
  BY <1>1, <1>4, FS_Injection, FS_Interval
<1> QED BY <1>3, <1>5 DEF Surjection, Range

(* The pages of a word in the order of their numbers: a map<int, ...>. *)
LEMMA AscendingHasAll ==
  ASSUME NEW S, IsFiniteSet(S), S \subseteq Int
  PROVE  Ascending(S) \in Seq(S) /\ IsInjective(Ascending(S)) /\ Range(Ascending(S)) = S
<1> DEFINE R == {p \in S \X S : p[1] < p[2]}
<1>1. \A x, y \in S : <<x, y>> \in R <=> x < y
  OBVIOUS
<1>2. IsOrder(R, S)
  <2> HIDE DEF R
  <2> QED BY <1>1 DEF IsOrder
<1>3. \A s \in [1..Cardinality(S) -> S] :
         InOrderOf(s, R) <=> \A m, n \in DOMAIN s : m < n => s[m] < s[n]
  <2> HIDE DEF R
  <2> QED BY <1>1 DEF InOrderOf
<1>4. \E s \in [1..Cardinality(S) -> S] : \A m, n \in DOMAIN s : m < n => s[m] < s[n]
  <2> HIDE DEF R
  <2> QED BY <1>2, <1>3, SortExists
<1>5. Ascending(S) \in [1..Cardinality(S) -> S] /\ InOrderOf(Ascending(S), R)
  <2> HIDE DEF R
  <2> QED BY <1>3, <1>4 DEF Ascending
<1>6. Cardinality(S) \in Nat
  BY FS_CardinalityType
<1>7. Ascending(S) \in Seq(S)
  BY <1>5, <1>6
<1> HIDE DEF R
<1> QED BY <1>2, <1>5, <1>7, SortedHasAll

-------------------------------------------------------------------------------
(* Page search: sequences one after the other. *)

Joined(f, ss) == f[0] = <<>> /\ \A k \in 1..Len(ss) : f[k] = f[k - 1] \o ss[k]

LEMMA FlattenJoins ==
  ASSUME NEW S, NEW ss \in Seq(Seq(S))
  PROVE  \E f \in [0..Len(ss) -> Seq(S)] : Joined(f, ss) /\ FlattenSeq(ss) = f[Len(ss)]
<1> DEFINE D == Seq(S)
           step == [p \in D \X D |-> p[1] \o p[2]]
           Rest(g) == [k \in 1..Len(ss) |-> IF k = 1 THEN ss[k] ELSE g[k - 1] \o ss[k]]
<1>0. Len(ss) \in Nat /\ \A k \in 1..Len(ss) : ss[k] \in D
  BY LenProperties, ElementOfSeq
<1>1. step \in [D \X D -> D] /\ <<>> \in D /\ \A d \in D : <<>> \o d = d
  OBVIOUS
<1>2. PICK f \in [0..Len(ss) -> D] : Steps(f, step, <<>>, ss)
  <2> HIDE DEF D, step
  <2>1. ss \in Seq(D)
    BY DEF D
  <2> QED BY <1>1, <2>1, StepsExist
<1>3. Joined(f, ss)
  <2> HIDE DEF D
  <2>1. ASSUME NEW k \in 1..Len(ss) PROVE f[k] = f[k - 1] \o ss[k]
    <3>1. k - 1 \in 0..Len(ss)
      BY <1>0
    <3>2. <<f[k - 1], ss[k]>> \in D \X D
      BY <1>0, <3>1
    <3>3. f[k] = step[<<f[k - 1], ss[k]>>]
      BY <1>2 DEF Steps
    <3> QED BY <3>2, <3>3
  <2> QED BY <1>2, <2>1 DEF Joined, Steps
<1>4. CASE Len(ss) = 0
  <2>1. ss = <<>>
    BY <1>4, EmptySeq
  <2> QED BY <1>3, <1>4, <2>1 DEF FlattenSeq, Joined
<1>5. CASE Len(ss) # 0
  <2> DEFINE g == [k \in 1..Len(ss) |-> f[k]]
             flat == CHOOSE h : h = Rest(h)
  <2>1. g = Rest(g)
    <3> HIDE DEF D
    <3>1. ASSUME NEW k \in 1..Len(ss) PROVE f[k] = IF k = 1 THEN ss[k] ELSE g[k - 1] \o ss[k]
      <4>1. CASE k = 1
        <5>0. 1 \in 1..Len(ss)
          BY <1>0, <1>5
        <5>1. f[1] = f[1 - 1] \o ss[1] /\ f[0] = <<>>
          BY <1>3, <5>0 DEF Joined
        <5>2. ss[1] \in D
          BY <1>0, <4>1
        <5>3. f[1] = ss[1]
          <6>1. f[1 - 1] = f[0]
            OBVIOUS
          <6> QED BY <1>1, <5>1, <5>2, <6>1
        <5> QED BY <4>1, <5>3
      <4>2. CASE k # 1
        <5>1. k - 1 \in 1..Len(ss)
          BY <1>0, <4>2
        <5> QED BY <1>3, <4>2, <5>1 DEF Joined
      <4> QED BY <4>1, <4>2
    <3> QED BY <3>1
  <2>2. flat = Rest(flat)
    <3> HIDE DEF Rest, g
    <3> QED BY <2>1
  <2>3. FlattenSeq(ss) = flat[Len(ss)]
    BY <1>5 DEF FlattenSeq
  <2> HIDE DEF flat
  <2> DEFINE T == {k \in 0..Len(ss) : k # 0 => flat[k] = f[k]}
  <2>4. 0 \in T
    BY <1>0
  <2>8. \A k \in 0..Len(ss) : flat[k] = f[k] => k \in T
    OBVIOUS
  <2>5. ASSUME NEW k \in 0..(Len(ss) - 1), k \in T PROVE k + 1 \in T
    <3>0. k + 1 \in 1..Len(ss) /\ (k + 1) - 1 = k /\ k \in 0..Len(ss)
      BY <1>0
    <3>1. f[k + 1] = f[k] \o ss[k + 1]
      BY <1>3, <3>0 DEF Joined
    <3>2. flat[k + 1] = IF k + 1 = 1 THEN ss[k + 1] ELSE flat[k] \o ss[k + 1]
      BY <2>2, <3>0
    <3>5. flat[k + 1] = f[k + 1]
      <4>3. CASE k = 0
        <5>1. f[0] = <<>> /\ ss[k + 1] \in D
          BY <1>0, <1>3, <3>0 DEF Joined
        <5>2. f[k + 1] = ss[k + 1]
          <6> HIDE DEF D
          <6> QED BY <1>1, <3>1, <4>3, <5>1
        <5> QED BY <3>2, <4>3, <5>2
      <4>4. CASE k # 0
        <5>1. flat[k] = f[k]
          BY <2>5, <4>4
        <5>2. k + 1 # 1
          BY <3>0, <4>4
        <5>3. flat[k + 1] = flat[k] \o ss[k + 1]
          BY <3>2, <5>2
        <5> QED BY <3>1, <5>1, <5>3
      <4> QED BY <4>3, <4>4
    <3>6. k + 1 \in 0..Len(ss)
      BY <1>0, <3>0
    <3> HIDE DEF T
    <3> QED BY <2>8, <3>5, <3>6
  <2>6. 0..Len(ss) \subseteq T
    <3> HIDE DEF T
    <3> QED BY <1>0, <2>4, <2>5, IntervalInduction
  <2>7. flat[Len(ss)] = f[Len(ss)]
    BY <1>0, <1>5, <2>6
  <2> QED BY <1>3, <2>3, <2>7
<1> QED BY <1>4, <1>5

(* Every place of the whole is one place of one part, and the other way. *)
Cuts(t, ss, n, a, b) ==
  /\ \A k \in 1..Len(t) : /\ a[k] \in 1..n /\ b[k] \in 1..Len(ss[a[k]])
                          /\ t[k] = ss[a[k]][b[k]]
  /\ \A k, l \in 1..Len(t) : a[k] = a[l] /\ b[k] = b[l] => k = l
  /\ \A m \in 1..n : \A j \in 1..Len(ss[m]) : \E k \in 1..Len(t) : a[k] = m /\ b[k] = j

LEMMA FlattenPlaces ==
  ASSUME NEW S, NEW ss \in Seq(Seq(S))
  PROVE  FlattenSeq(ss) \in Seq(S) /\ \E a, b : Cuts(FlattenSeq(ss), ss, Len(ss), a, b)
<1>0. Len(ss) \in Nat /\ \A k \in 1..Len(ss) : ss[k] \in Seq(S) /\ Len(ss[k]) \in Nat
  BY LenProperties, ElementOfSeq
<1>1. PICK f \in [0..Len(ss) -> Seq(S)] : Joined(f, ss) /\ FlattenSeq(ss) = f[Len(ss)]
  BY FlattenJoins
<1> DEFINE T == {n \in 0..Len(ss) : \E a, b : Cuts(f[n], ss, n, a, b)}
<1>2. 0 \in T
  <2>1. Len(f[0]) = 0
    BY <1>1 DEF Joined
  <2>2. Cuts(f[0], ss, 0, 0, 0)
    BY <2>1 DEF Cuts
  <2> QED BY <1>0, <2>2
<1>3. ASSUME NEW n \in 0..(Len(ss) - 1), n \in T PROVE n + 1 \in T
  <2>0. n + 1 \in 1..Len(ss) /\ (n + 1) - 1 = n /\ n \in 0..Len(ss) /\ n + 1 \in 0..Len(ss)
    BY <1>0
  <2>1. PICK a, b : Cuts(f[n], ss, n, a, b)
    BY <1>3
  <2> DEFINE t == f[n]
             u == ss[n + 1]
             v == f[n + 1]
             L == Len(t)
             M == Len(u)
  <2>2. v = t \o u /\ t \in Seq(S) /\ u \in Seq(S) /\ L \in Nat /\ M \in Nat
    BY <1>0, <1>1, <2>0, LenProperties DEF Joined
  <2> HIDE DEF t, u, v
  <2>3. /\ Len(v) = L + M
        /\ \A k \in 1..(L + M) : v[k] = IF k <= L THEN t[k] ELSE u[k - L]
    <3>1. /\ Len(t \o u) = Len(t) + Len(u)
          /\ \A k \in 1..(Len(t) + Len(u)) :
                (t \o u)[k] = IF k <= Len(t) THEN t[k] ELSE u[k - Len(t)]
      BY <2>2, ConcatProperties
    <3> QED BY <2>2, <3>1
  <2> HIDE DEF L, M
  <2> DEFINE aa == [k \in 1..(L + M) |-> IF k <= L THEN a[k] ELSE n + 1]
             bb == [k \in 1..(L + M) |-> IF k <= L THEN b[k] ELSE k - L]
  <2>4. \A k \in 1..(L + M) : \/ k \in 1..L /\ aa[k] = a[k] /\ bb[k] = b[k] /\ v[k] = t[k]
                              \/ /\ k - L \in 1..M /\ k > L /\ aa[k] = n + 1 /\ bb[k] = k - L
                                 /\ v[k] = u[k - L]
    BY <2>2, <2>3
  <2>5. /\ \A k \in 1..L : /\ a[k] \in 1..n /\ b[k] \in 1..Len(ss[a[k]])
                          /\ t[k] = ss[a[k]][b[k]]
    BY <2>1 DEF Cuts, t, L
  <2>12. \A k, l \in 1..L : a[k] = a[l] /\ b[k] = b[l] => k = l
    BY <2>1 DEF Cuts, t, L
  <2>13. \A m \in 1..n : \A j \in 1..Len(ss[m]) : \E k \in 1..L : a[k] = m /\ b[k] = j
    BY <2>1 DEF Cuts, t, L
  <2>6. \A k \in 1..L : k \in 1..(L + M) /\ aa[k] = a[k] /\ bb[k] = b[k]
    BY <2>2
  <2>7. \A j \in 1..M : j + L \in 1..(L + M) /\ aa[j + L] = n + 1 /\ bb[j + L] = j
    BY <2>2
  <2> HIDE DEF aa, bb
  <2>8. ASSUME NEW k \in 1..(L + M)
        PROVE  /\ aa[k] \in 1..(n + 1) /\ bb[k] \in 1..Len(ss[aa[k]])
               /\ v[k] = ss[aa[k]][bb[k]]
    <3>1. CASE k \in 1..L /\ aa[k] = a[k] /\ bb[k] = b[k] /\ v[k] = t[k]
      BY <2>5, <3>1
    <3>2. CASE k - L \in 1..M /\ aa[k] = n + 1 /\ bb[k] = k - L /\ v[k] = u[k - L]
      BY <3>2 DEF M, u
    <3> QED BY <2>4, <3>1, <3>2
  <2>9. ASSUME NEW k \in 1..(L + M), NEW l \in 1..(L + M), aa[k] = aa[l], bb[k] = bb[l]
        PROVE  k = l
    <3>1. CASE k \in 1..L /\ l \in 1..L
      BY <2>6, <2>9, <2>12, <3>1
    <3>2. CASE k \in 1..L /\ l \notin 1..L
      <4>1. aa[k] \in 1..n /\ aa[l] = n + 1
        BY <2>4, <2>5, <2>6, <3>2
      <4> QED BY <2>9, <4>1
    <3>3. CASE k \notin 1..L /\ l \in 1..L
      <4>1. aa[l] \in 1..n /\ aa[k] = n + 1
        BY <2>4, <2>5, <2>6, <3>3
      <4> QED BY <2>9, <4>1
    <3>4. CASE k \notin 1..L /\ l \notin 1..L
      <4>1. bb[k] = k - L /\ bb[l] = l - L
        BY <2>4, <3>4
      <4>2. k - L = l - L
        BY <2>9, <4>1
      <4>3. k \in Int /\ l \in Int /\ L \in Int
        BY <2>2
      <4> QED BY <4>2, <4>3
    <3> QED BY <3>1, <3>2, <3>3, <3>4
  <2>10. ASSUME NEW m \in 1..(n + 1), NEW j \in 1..Len(ss[m])
         PROVE  \E k \in 1..(L + M) : aa[k] = m /\ bb[k] = j
    <3>1. CASE m = n + 1
      BY <2>7, <3>1 DEF M, u
    <3>2. CASE m # n + 1
      <4>1. m \in 1..n
        BY <2>0, <3>2
      <4>2. PICK k \in 1..L : a[k] = m /\ b[k] = j
        BY <2>13, <4>1
      <4> QED BY <2>6, <4>2
    <3> QED BY <3>1, <3>2
  <2>11. Cuts(v, ss, n + 1, aa, bb)
    BY <2>3, <2>8, <2>9, <2>10 DEF Cuts
  <2> QED BY <2>0, <2>11 DEF v
<1>4. 0..Len(ss) \subseteq T
  <2> HIDE DEF T
  <2> QED BY <1>0, <1>2, <1>3, IntervalInduction
<1>5. Len(ss) \in T /\ f[Len(ss)] \in Seq(S)
  BY <1>0, <1>4
<1> QED BY <1>1, <1>5

-------------------------------------------------------------------------------
(* Page search: the index, the pages to score, and the set of pages. *)

EntriesMade(library, key) ==
  IF key \in DOMAIN InvertProcess(library) THEN InvertProcess(library)[key] ELSE <<>>

TableFits ==
  /\ corpus \in Corpora /\ keys \in Queries
  /\ \A n \in DOMAIN keys : Entries(keys[n]) = EntriesMade(corpus, keys[n])

(* The pages to score have the first word; all that have all words are     *)
(* among them; one that has not all, and one that comes twice without      *)
(* them, is there because of other words.                                  *)
IdsFit(ids) ==
  /\ ids \in Seq(DOMAIN corpus)
  /\ \A page \in DOMAIN corpus : HasAll(page) => \E k \in DOMAIN ids : ids[k] = page
  /\ \A k \in DOMAIN ids :
        /\ Has(ids[k], keys[1])
        /\ ~HasAll(ids[k]) => Len(keys) > 2 /\ \E n \in 2..Len(keys) : Has(ids[k], keys[n])
  /\ Len(keys) <= 3 =>
        \A k, l \in DOMAIN ids : ids[k] = ids[l] /\ k # l => HasAll(ids[k])

SetFits ==
  /\ IsFiniteSet(webPageSet) /\ nth \in Nat \ {0}
  /\ \A p \in webPageSet :
        /\ p = [id |-> p.id, cos |-> p.cos]
        /\ \E k \in DOMAIN calcId : k < nth /\ calcId[k] = p.id
        /\ HasAll(p.id) => p.cos = Cos(p.id)
  /\ \A k \in DOMAIN calcId :
        k < nth /\ HasAll(calcId[k]) => \E p \in webPageSet : Same(p.cos, Cos(calcId[k]))
  /\ \A p, q \in webPageSet : p # q => ~Same(p.cos, q.cos)
  /\ Len(keys) <= 3 => \A p, q \in webPageSet : p.id = q.id => p = q

ShownFits ==
  webPageSet # {} => \E p \in webPageSet, n \in DOMAIN keys :
     shown = [id |-> p.id, text |-> [m \in 1..n |-> Excerpt(p.id, keys[m])]]

SearchInv ==
  /\ TableFits
  /\ phase \in {"ids", "score", "done"}
  /\ phase = "ids" => webPageSet = {} /\ nth = 1
  /\ phase # "ids" => IdsFit(calcId) /\ SetFits
  /\ phase = "done" => nth > Len(calcId) /\ ShownFits

LEMMA LibraryFacts ==
  ASSUME TableFits
  PROVE  /\ IsFiniteSet(DOMAIN corpus) /\ DOMAIN corpus \subseteq Int
         /\ \A id \in DOMAIN corpus : corpus[id] \in Seq(DOMAIN CharSizes)
         /\ keys # <<>> /\ Len(keys) \in Nat \ {0} /\ DOMAIN keys = 1..Len(keys)
         /\ Range(keys) = {keys[n] : n \in 1..Len(keys)}
<1>1. keys \in Seq(Range(keys)) /\ keys # <<>>
  BY QueriesAssumption DEF TableFits
<1>2. Len(keys) \in Nat /\ DOMAIN keys = 1..Len(keys)
  BY <1>1, LenProperties
<1>3. Len(keys) # 0
  BY <1>1, EmptySeq
<1> QED BY <1>1, <1>2, <1>3, CorporaAssumption DEF TableFits, Range

(* The index gives for each word of the query the pages that have it. *)
LEMMA IndexFits ==
  ASSUME TableFits, NEW n \in DOMAIN keys
  PROVE  /\ PagesOf(keys[n]) = WithWord(corpus, keys[n])
         /\ \A page : page \in PagesOf(keys[n]) <=> page \in DOMAIN corpus /\ Has(page, keys[n])
         /\ \A page \in PagesOf(keys[n]) :
              Entries(keys[n])[page] =
                [weight |-> Weight(TFIDF(corpus, page, keys[n]), SumW(corpus, page)),
                 pos    |-> CurPos(corpus[page], Max(Places(corpus[page], keys[n])))]
<1> DEFINE w == keys[n]
           all == UNION {DocWords(corpus[id]) : id \in Docs(corpus)}
<1>1. Entries(w) = EntriesMade(corpus, w)
  BY DEF TableFits
<1>2. DOMAIN InvertProcess(corpus) = all
  BY DEF InvertProcess
<1>3. \A page : page \in DOMAIN corpus /\ Has(page, w) => page \in Docs(corpus)
  <2> SUFFICES ASSUME NEW page \in DOMAIN corpus, w \in DocWords(corpus[page]), corpus[page] = <<>>
               PROVE  FALSE
    BY DEF Has, Docs
  <2>1. w \in Range(corpus[page])
    BY DEF DocWords
  <2> QED BY <2>1 DEF Range
<1>4. WithWord(corpus, w) = {id \in DOMAIN corpus : Has(id, w)}
  BY <1>3 DEF WithWord, Has, Docs
<1>5. CASE w \in all
  <2>1. Entries(w) = InvertProcess(corpus)[w]
    BY <1>1, <1>2, <1>5 DEF EntriesMade
  <2>2. InvertProcess(corpus)[w] =
          [id \in WithWord(corpus, w) |->
             [weight |-> Weight(TFIDF(corpus, id, w), SumW(corpus, id)),
              pos    |-> CurPos(corpus[id], Max(Places(corpus[id], w)))]]
    BY <1>5 DEF InvertProcess
  <2> HIDE DEF w
  <2> QED BY <2>1, <2>2, <1>4 DEF PagesOf, w
<1>6. CASE w \notin all
  <2>1. Entries(w) = <<>>
    BY <1>1, <1>2, <1>6 DEF EntriesMade
  <2>2. PagesOf(w) = {}
    BY <2>1 DEF PagesOf
  <2>3. WithWord(corpus, w) = {}
    BY <1>6 DEF WithWord
  <2> QED BY <1>4, <2>2, <2>3
<1> QED BY <1>5, <1>6

LEMMA InitSearchInv == SearchInit => SearchInv
<1> SUFFICES ASSUME SearchInit PROVE SearchInv
  OBVIOUS
<1>1. TableFits
  BY DEF SearchInit, TableFits, Entries, EntriesMade
<1> QED BY <1>1 DEF SearchInit, SearchInv

LEMMA WiderSeq ==
  ASSUME NEW S, NEW T, S \subseteq T, NEW s \in Seq(S)
  PROVE  s \in Seq(T)
OBVIOUS

LEMMA SingleIdsFit ==
  ASSUME TableFits, Len(keys) = 1
  PROVE  IdsFit(SingleIds)
<1> DEFINE S == PagesOf(keys[1])
<1>0. DOMAIN keys = {1}
  BY LibraryFacts
<1>1. \A page : page \in S <=> page \in DOMAIN corpus /\ HasAll(page)
  BY <1>0, IndexFits DEF HasAll
<1>2. IsFiniteSet(S) /\ S \subseteq Int /\ S \subseteq DOMAIN corpus
  BY <1>1, LibraryFacts, FS_Subset
<1>3. SingleIds \in Seq(S) /\ IsInjective(SingleIds) /\ Range(SingleIds) = S
  BY <1>2, AscendingHasAll DEF SingleIds
<1> HIDE DEF S
<1>4. DOMAIN SingleIds = 1..Len(SingleIds) /\ \A k \in DOMAIN SingleIds : SingleIds[k] \in S
  BY <1>3
<1>5. SingleIds \in Seq(DOMAIN corpus)
  BY <1>2, <1>3, WiderSeq
<1>6. \A page \in DOMAIN corpus : HasAll(page) => \E k \in DOMAIN SingleIds : SingleIds[k] = page
  BY <1>1, <1>3 DEF Range
<1>7. \A k \in DOMAIN SingleIds : HasAll(SingleIds[k]) /\ Has(SingleIds[k], keys[1])
  BY <1>0, <1>1, <1>4 DEF HasAll
<1> QED BY <1>5, <1>6, <1>7 DEF IdsFit

LEMMA MultiIdsFit ==
  ASSUME TableFits, Len(keys) # 1
  PROVE  IdsFit(MultiIds)
<1> DEFINE L == Len(keys) - 1
           S(n) == PagesOf(keys[1]) \cap PagesOf(keys[n + 1])
           ss == [n \in 1..L |-> Ascending(S(n))]
<1>0. L \in Nat \ {0} /\ DOMAIN keys = 1..(L + 1)
      /\ \A n \in 1..L : 1 \in DOMAIN keys /\ n + 1 \in DOMAIN keys
  BY LibraryFacts
<1>1. ASSUME NEW n \in 1..L
      PROVE  /\ \A page : page \in S(n) <=> /\ page \in DOMAIN corpus
                                           /\ Has(page, keys[1]) /\ Has(page, keys[n + 1])
             /\ IsFiniteSet(S(n)) /\ S(n) \subseteq Int /\ S(n) \subseteq DOMAIN corpus
  <2>1. 1 \in DOMAIN keys /\ n + 1 \in DOMAIN keys
    BY <1>0
  <2>2. \A page : page \in S(n) <=> /\ page \in DOMAIN corpus
                                   /\ Has(page, keys[1]) /\ Has(page, keys[n + 1])
    BY <2>1, IndexFits
  <2> HIDE DEF S
  <2>3. S(n) \subseteq DOMAIN corpus
    BY <2>2
  <2> QED BY <2>2, <2>3, LibraryFacts, FS_Subset
<1> HIDE DEF S
<1>2. ASSUME NEW n \in 1..L
      PROVE  /\ ss[n] \in Seq(S(n)) /\ ss[n] \in Seq(DOMAIN corpus)
             /\ IsInjective(ss[n]) /\ Range(ss[n]) = S(n)
  <2>1. /\ Ascending(S(n)) \in Seq(S(n)) /\ IsInjective(Ascending(S(n)))
        /\ Range(Ascending(S(n))) = S(n)
    BY <1>1, AscendingHasAll
  <2>2. ss[n] = Ascending(S(n))
    OBVIOUS
  <2> HIDE DEF ss
  <2> QED BY <1>1, <2>1, <2>2
<1>3. ss \in Seq(Seq(DOMAIN corpus)) /\ Len(ss) = L
  <2>1. \A n \in 1..L : Ascending(S(n)) \in Seq(DOMAIN corpus)
    BY <1>2
  <2> QED BY <1>0, <2>1
<1>4. MultiIds = FlattenSeq(ss)
  BY DEF MultiIds, S
<1> HIDE DEF ss
<1> DEFINE ids == FlattenSeq(ss)
<1>5. ids \in Seq(DOMAIN corpus) /\ \E a, b : Cuts(ids, ss, L, a, b)
  BY <1>3, FlattenPlaces
<1>6. PICK a, b : Cuts(ids, ss, L, a, b)
  BY <1>5
<1> HIDE DEF ids
<1>7. DOMAIN ids = 1..Len(ids) /\ \A n \in 1..L : DOMAIN ss[n] = 1..Len(ss[n])
  BY <1>2, <1>5
<1>8. \A k \in DOMAIN ids : a[k] \in 1..L /\ ids[k] \in S(a[k])
  <2> TAKE k \in DOMAIN ids
  <2>1. a[k] \in 1..L /\ b[k] \in 1..Len(ss[a[k]]) /\ ids[k] = ss[a[k]][b[k]]
    BY <1>6, <1>7 DEF Cuts
  <2>2. Range(ss[a[k]]) = S(a[k])
    BY <1>2, <2>1
  <2> QED BY <1>7, <2>1, <2>2 DEF Range
<1>9. ASSUME NEW page \in DOMAIN corpus, HasAll(page) PROVE \E k \in DOMAIN ids : ids[k] = page
  <2>1. 1 \in 1..L /\ page \in S(1)
    BY <1>0, <1>1, <1>9 DEF HasAll
  <2>2. PICK j \in 1..Len(ss[1]) : ss[1][j] = page
    BY <1>2, <1>7, <2>1 DEF Range
  <2>3. PICK k \in 1..Len(ids) : a[k] = 1 /\ b[k] = j
    BY <1>6, <2>1 DEF Cuts
  <2>4. ids[k] = ss[1][j]
    BY <1>6, <2>3 DEF Cuts
  <2> QED BY <1>7, <2>2, <2>4
<1>10. ASSUME NEW k \in DOMAIN ids
       PROVE  Has(ids[k], keys[1]) /\ Has(ids[k], keys[a[k] + 1]) /\ a[k] + 1 \in 2..Len(keys)
  BY <1>0, <1>1, <1>8
<1>11. ASSUME NEW k \in DOMAIN ids, ~HasAll(ids[k]) PROVE Len(keys) > 2
  <2> SUFFICES ASSUME ~(Len(keys) > 2) PROVE FALSE
    OBVIOUS
  <2>1. L = 1 /\ a[k] = 1 /\ DOMAIN keys = {1, 2}
    BY <1>0, <1>8
  <2>2. Has(ids[k], keys[1]) /\ Has(ids[k], keys[2])
    BY <1>10, <2>1
  <2> QED BY <1>11, <2>1, <2>2 DEF HasAll
<1>12. ASSUME Len(keys) <= 3, NEW k \in DOMAIN ids, NEW l \in DOMAIN ids, ids[k] = ids[l], k # l
       PROVE  HasAll(ids[k])
  <2>1. a[k] # a[l]
    <3> SUFFICES ASSUME a[k] = a[l] PROVE FALSE
      OBVIOUS
    <3>1. /\ b[k] \in DOMAIN ss[a[k]] /\ b[l] \in DOMAIN ss[a[k]]
          /\ ids[k] = ss[a[k]][b[k]] /\ ids[l] = ss[a[k]][b[l]]
      BY <1>6, <1>7, <1>8 DEF Cuts
    <3>2. b[k] = b[l]
      BY <1>2, <1>8, <1>12, <3>1 DEF IsInjective
    <3> QED BY <1>6, <1>7, <1>12, <3>2 DEF Cuts
  <2>2. a[k] \in 1..2 /\ a[l] \in 1..2 /\ L = 2
    BY <1>0, <1>8, <1>12, <2>1
  <2>3. DOMAIN keys = {1, 2, 3}
    <3>1. L + 1 = 3
      BY <2>2
    <3>2. DOMAIN keys = 1..3
      BY <1>0, <3>1
    <3> QED BY <3>2
  <2>6. (a[k] = 1 /\ a[l] = 2) \/ (a[k] = 2 /\ a[l] = 1)
    BY <2>1, <2>2
  <2>4. Has(ids[k], keys[1]) /\ Has(ids[k], keys[a[k] + 1]) /\ Has(ids[k], keys[a[l] + 1])
    BY <1>10, <1>12
  <2>5. Has(ids[k], keys[2]) /\ Has(ids[k], keys[3])
    BY <2>4, <2>6
  <2> QED BY <2>3, <2>4, <2>5 DEF HasAll
<1>13. IdsFit(ids)
  BY <1>5, <1>9, <1>10, <1>11, <1>12 DEF IdsFit
<1> QED BY <1>4, <1>13 DEF ids

(* The step that fills calcId leaves the entries of the words as they are. *)
LEMMA QueryIdsInv == SearchInv /\ QueryIds => SearchInv'
<1> SUFFICES ASSUME SearchInv, QueryIds PROVE SearchInv'
  OBVIOUS
<1> USE DEF SearchInv
<1>1. /\ TableFits /\ phase = "ids" /\ webPageSet = {} /\ nth = 1
      /\ corpus' = corpus /\ keys' = keys /\ webPageSet' = {} /\ nth' = 1 /\ phase' = "score"
      /\ calcId' = IF Len(keys) = 1 THEN SingleIds ELSE MultiIds
      /\ table' = [key \in DOMAIN table \cup Range(keys) |-> Entries(key)]
  BY DEF QueryIds
<1>2. \A n \in DOMAIN keys : Entries(keys[n])' = Entries(keys[n])
  <2> TAKE n \in DOMAIN keys
  <2>1. keys[n] \in Range(keys)
    BY DEF Range
  <2>2. keys[n] \in DOMAIN table' /\ table'[keys[n]] = Entries(keys[n])
    BY <1>1, <2>1
  <2>3. (keys[n])' = keys[n]
    BY <1>1
  <2> QED BY <2>2, <2>3 DEF Entries
<1>3. TableFits'
  BY <1>1, <1>2 DEF TableFits
<1>4. IdsFit(calcId')
  BY <1>1, SingleIdsFit, MultiIdsFit
<1>5. IdsFit(calcId)'
  BY <1>1, <1>4 DEF IdsFit, HasAll, Has
<1>6. SetFits'
  <2>1. IsFiniteSet({})
    BY FS_EmptySet
  <2>2. \A k \in DOMAIN calcId' : ~(k < 1)
    BY <1>4 DEF IdsFit
  <2> QED BY <1>1, <2>1, <2>2 DEF SetFits
<1> QED BY <1>1, <1>3, <1>5, <1>6

(* Where the loop stays in obwArr. *)
LEMMA WholeObwArr ==
  ASSUME TableFits, NEW page \in DOMAIN corpus
  PROVE  DOMAIN ObwArr(page) = DOMAIN keys <=> HasAll(page)
<1>1. DOMAIN ObwArr(page) = {m \in DOMAIN keys : Has(page, keys[m])}
  BY IndexFits DEF ObwArr
<1> QED BY <1>1 DEF HasAll

LEMMA ScoreStepSame ==
  ASSUME UNCHANGED <<corpus, table, keys, calcId>>
  PROVE  /\ TableFits' = TableFits /\ IdsFit(calcId)' = IdsFit(calcId)
         /\ \A page : HasAll(page)' = HasAll(page) /\ Cos(page)' = Cos(page)
BY DEF TableFits, Entries, IdsFit, HasAll, Has, Cos, ObwArr, PagesOf

LEMMA SetFitsSame ==
  ASSUME UNCHANGED <<corpus, table, keys, calcId, nth, webPageSet>>
  PROVE  SetFits' = SetFits
BY ScoreStepSame DEF SetFits

(* One more page is scored: cos is its score, if it has all the words. *)
LEMMA InsertFits ==
  ASSUME IdsFit(calcId), SetFits, nth <= Len(calcId), nth' = nth + 1,
         UNCHANGED <<corpus, table, keys, phase, calcId>>,
         NEW cos, HasAll(calcId[nth]) => cos = Cos(calcId[nth]), Insert(calcId[nth], cos)
  PROVE  SetFits'
<1> DEFINE page == calcId[nth]
           new == [id |-> page, cos |-> cos]
<1>1. /\ \A x : HasAll(x)' = HasAll(x) /\ Cos(x)' = Cos(x)
      /\ keys' = keys /\ calcId' = calcId
  BY ScoreStepSame
<1>2. nth \in DOMAIN calcId /\ nth \in Nat \ {0} /\ nth + 1 \in Nat \ {0}
  BY DEF SetFits, IdsFit
<1>3. \A k \in DOMAIN calcId : k < nth + 1 <=> k < nth \/ k = nth
  BY <1>2 DEF IdsFit
<1>4. CASE \E p \in webPageSet : Same(p.cos, cos)
  <2>1. webPageSet' = webPageSet
    BY <1>4 DEF Insert
  <2>2. HasAll(page) => \E p \in webPageSet : Same(p.cos, Cos(page))
    BY <1>4
  <2>3. \A k \in DOMAIN calcId :
           k < nth + 1 /\ HasAll(calcId[k]) => \E p \in webPageSet : Same(p.cos, Cos(calcId[k]))
    BY <1>3, <2>2 DEF SetFits
  <2>4. \A p \in webPageSet : \E k \in DOMAIN calcId : k < nth + 1 /\ calcId[k] = p.id
    BY <1>3 DEF SetFits
  <2> QED BY <1>1, <1>2, <2>1, <2>3, <2>4 DEF SetFits
<1>5. CASE ~\E p \in webPageSet : Same(p.cos, cos)
  <2>1. webPageSet' = webPageSet \cup {new}
    BY <1>5 DEF Insert
  <2>2. \A p \in webPageSet : p # new => ~Same(p.cos, cos) /\ ~Same(cos, p.cos)
    BY <1>5 DEF Same
  <2>3. \A k \in DOMAIN calcId :
           k < nth + 1 /\ HasAll(calcId[k]) => \E p \in webPageSet' : Same(p.cos, Cos(calcId[k]))
    <3> SUFFICES ASSUME NEW k \in DOMAIN calcId, k < nth + 1, HasAll(calcId[k])
                 PROVE  \E p \in webPageSet' : Same(p.cos, Cos(calcId[k]))
      OBVIOUS
    <3>1. CASE k < nth
      BY <2>1, <3>1 DEF SetFits
    <3>2. CASE k = nth
      <4>1. new.cos = Cos(page) /\ new \in webPageSet'
        BY <2>1, <3>2
      <4>2. Same(Cos(page), Cos(page))
        BY DEF Same
      <4> HIDE DEF new
      <4> QED BY <3>2, <4>1, <4>2
    <3> QED BY <1>3, <3>1, <3>2
  <2>4. \A p \in webPageSet' : \E k \in DOMAIN calcId : k < nth + 1 /\ calcId[k] = p.id
    BY <1>2, <1>3, <2>1 DEF SetFits
  <2>5. ASSUME Len(keys) <= 3, NEW p \in webPageSet, p.id = page PROVE FALSE
    <3>1. PICK k \in DOMAIN calcId : k < nth /\ calcId[k] = page
      BY <2>5 DEF SetFits
    <3>2. HasAll(page)
      BY <1>2, <2>5, <3>1 DEF IdsFit
    <3>3. p.cos = cos
      BY <2>5, <3>2 DEF SetFits
    <3>4. Same(p.cos, cos)
      BY <3>3 DEF Same
    <3> QED BY <1>5, <3>4
  <2>6. IsFiniteSet(webPageSet')
    BY <2>1, FS_AddElement DEF SetFits
  <2>7. \A p \in webPageSet' : p = [id |-> p.id, cos |-> p.cos] /\ (HasAll(p.id) => p.cos = Cos(p.id))
    BY <2>1 DEF SetFits
  <2>8. \A p, q \in webPageSet' : p # q => ~Same(p.cos, q.cos)
    BY <2>1, <2>2 DEF SetFits
  <2>9. Len(keys) <= 3 => \A p, q \in webPageSet' : p.id = q.id => p = q
    BY <2>1, <2>5 DEF SetFits
  <2> HIDE DEF new
  <2> QED BY <1>1, <1>2, <2>3, <2>4, <2>6, <2>7, <2>8, <2>9 DEF SetFits
<1> QED BY <1>4, <1>5

LEMMA ScoreInv == SearchInv /\ (GetWebPageSet \/ PastObwArr) => SearchInv'
<1> SUFFICES ASSUME SearchInv, GetWebPageSet \/ PastObwArr PROVE SearchInv'
  OBVIOUS
<1> USE DEF SearchInv
<1>1. /\ phase = "score" /\ phase' = "score" /\ nth <= Len(calcId) /\ nth' = nth + 1
      /\ UNCHANGED <<corpus, table, keys, phase, calcId>>
  BY DEF GetWebPageSet, PastObwArr
<1>2. TableFits /\ IdsFit(calcId) /\ SetFits
  BY <1>1
<1>3. calcId[nth] \in DOMAIN corpus
  BY <1>1, <1>2 DEF IdsFit, SetFits
<1>4. PICK cos : Insert(calcId[nth], cos) /\ (HasAll(calcId[nth]) => cos = Cos(calcId[nth]))
  BY <1>2, <1>3, WholeObwArr DEF GetWebPageSet, PastObwArr
<1>5. SetFits'
  BY <1>1, <1>2, <1>4, InsertFits
<1>6. TableFits' /\ IdsFit(calcId)'
  BY <1>1, <1>2, ScoreStepSame
<1> QED BY <1>1, <1>5, <1>6

LEMMA OutResInv == SearchInv /\ OutRes => SearchInv'
<1> SUFFICES ASSUME SearchInv, OutRes PROVE SearchInv'
  OBVIOUS
<1> USE DEF SearchInv
<1>1. /\ phase = "score" /\ phase' = "done" /\ nth > Len(calcId)
      /\ UNCHANGED <<corpus, table, keys, calcId, nth, webPageSet>>
  BY DEF OutRes
<1>2. TableFits' /\ IdsFit(calcId)' /\ SetFits'
  BY <1>1, ScoreStepSame, SetFitsSame
<1>3. ShownFits'
  BY <1>1 DEF OutRes, ShownFits, Excerpt, Idx, Entries, PagesOf
<1> QED BY <1>1, <1>2, <1>3

LEMMA SearchStays == SearchInv /\ UNCHANGED searchVars => SearchInv'
<1> SUFFICES ASSUME SearchInv, UNCHANGED searchVars PROVE SearchInv'
  OBVIOUS
<1>1. TableFits' = TableFits /\ IdsFit(calcId)' = IdsFit(calcId) /\ SetFits' = SetFits
  BY ScoreStepSame, SetFitsSame DEF searchVars
<1>2. ShownFits' = ShownFits
  BY DEF searchVars, ShownFits, Excerpt, Idx, Entries, PagesOf
<1> QED BY <1>1, <1>2 DEF searchVars, SearchInv

LEMMA NextSearchInv == SearchInv /\ [SearchNext]_searchVars => SearchInv'
BY QueryIdsInv, ScoreInv, OutResInv, SearchStays DEF SearchNext

(* A page that has all the words is in the answer, or one of equal score. *)
THEOREM MatchesFound == SearchSpec => []MatchesAreFound
<1>1. SearchInv => MatchesAreFound
  <2> SUFFICES ASSUME SearchInv, phase = "done", NEW page \in DOMAIN corpus, HasAll(page)
               PROVE  \E p \in webPageSet : Same(p.cos, Cos(page))
    BY DEF MatchesAreFound
  <2>1. IdsFit(calcId) /\ SetFits /\ nth > Len(calcId)
    BY DEF SearchInv
  <2>2. PICK k \in DOMAIN calcId : calcId[k] = page
    BY <2>1 DEF IdsFit
  <2>3. k < nth
    BY <2>1 DEF IdsFit, SetFits
  <2> QED BY <2>1, <2>2, <2>3 DEF SetFits
<1> QED BY <1>1, InitSearchInv, NextSearchInv, PTL DEF SearchSpec

(* A page that has not all the words is in the answer only when three or   *)
(* more are asked for, and it has the first of them and another; it is     *)
(* there twice only when there are more than three.                        *)
THEOREM PartialNeedsThird == SearchSpec => []PartialNeedsThirdKey
<1>1. SearchInv => PartialNeedsThirdKey
  <2> SUFFICES ASSUME SearchInv PROVE PartialNeedsThirdKey
    OBVIOUS
  <2>1. CASE phase = "ids"
    <3>1. webPageSet = {} /\ Ids = {}
      BY <2>1 DEF SearchInv, Ids
    <3>2. Cardinality(Ids) = 0 /\ Cardinality(webPageSet) = 0
      BY <3>1, FS_EmptySet
    <3> QED BY <3>1, <3>2 DEF PartialNeedsThirdKey
  <2>2. CASE phase # "ids"
    <3>1. IdsFit(calcId) /\ SetFits /\ Len(keys) \in Nat
      BY <2>2, LibraryFacts DEF SearchInv
    <3>2. ASSUME NEW page \in Ids, ~HasAll(page)
          PROVE  /\ Len(keys) > 2
                 /\ Has(page, keys[1]) /\ \E n \in 2..Len(keys) : Has(page, keys[n])
      BY <3>1, <3>2 DEF Ids, IdsFit, SetFits
    <3>3. ASSUME ~(Len(keys) > 3) PROVE ~(Cardinality(Ids) < Cardinality(webPageSet))
      <4> DEFINE f == [p \in webPageSet |-> p.id]
      <4>1. \A p, q \in webPageSet : p.id = q.id => p = q
        BY <3>1, <3>3 DEF SetFits
      <4>2. f \in Bijection(webPageSet, Ids)
        BY <4>1 DEF Ids, Bijection, Injection, Surjection, IsInjective
      <4> HIDE DEF f
      <4>3. ExistsBijection(webPageSet, Ids) /\ IsFiniteSet(webPageSet)
        BY <3>1, <4>2 DEF ExistsBijection, SetFits
      <4>4. Cardinality(Ids) = Cardinality(webPageSet) /\ Cardinality(webPageSet) \in Nat
        BY <4>3, FS_Bijection, FS_CardinalityType
      <4> QED BY <4>4
    <3> QED BY <3>2, <3>3 DEF PartialNeedsThirdKey
  <2> QED BY <2>1, <2>2
<1> QED BY <1>1, InitSearchInv, NextSearchInv, PTL DEF SearchSpec

LEMMA ZeroProduct ==
  ASSUME NEW m \in Nat \ {0}, NEW x \in Int, Square(m * x) = 0
  PROVE  x = 0
<1> DEFINE y == m * x
<1>1. y \in Int
  OBVIOUS
<1>2. y = 0
  <2> HIDE DEF y
  <2>1. y * y = 0 => y = 0
    BY <1>1
  <2> QED BY <2>1 DEF Square, y
<1> QED BY <1>2

LEMMA RangeFinite ==
  ASSUME NEW S, NEW s \in Seq(S)
  PROVE  IsFiniteSet(Range(s))
<1>1. s \in Surjection(1..Len(s), Range(s))
  BY DEF Surjection, Range
<1>2. IsFiniteSet(1..Len(s))
  BY FS_Interval
<1> QED BY <1>1, <1>2, FS_Surjection

(* How often a word is in a page, and its weight there. *)
LEMMA WeightFacts ==
  ASSUME TableFits, NEW page \in DOMAIN corpus, NEW w \in DocWords(corpus[page])
  PROVE  /\ Cardinality(Places(corpus[page], w)) \in Nat \ {0}
         /\ IDF(corpus, w) \in Int /\ TFIDF(corpus, page, w) \in Int
         /\ IDF(corpus, w) = 0 =>
              Cardinality(WithWord(corpus, w)) + 1 = Cardinality(Docs(corpus))
<1> DEFINE text == corpus[page]
           n == Cardinality(Docs(corpus))
           d == Cardinality(WithWord(corpus, w)) + 1
           N == Cardinality(DOMAIN corpus)
<1>1. text \in Seq(DOMAIN CharSizes) /\ Len(text) \in Nat /\ DOMAIN text = 1..Len(text)
  BY LibraryFacts, LenProperties
<1>2. w \in Range(text)
  BY DEF DocWords
<1> HIDE DEF text
<1>3. Places(text, w) \subseteq 1..Len(text) /\ Places(text, w) # {}
  BY <1>1, <1>2 DEF Places, Range
<1>4. Cardinality(Places(text, w)) \in Nat \ {0}
  <2>1. IsFiniteSet(1..Len(text))
    BY <1>1, FS_Interval
  <2>2. IsFiniteSet(Places(text, w))
    BY <1>3, <2>1, FS_Subset
  <2> QED BY <1>3, <2>2, FS_CardinalityType, FS_EmptySet
<1>5. IsFiniteSet(DOMAIN corpus) /\ Docs(corpus) \subseteq DOMAIN corpus
      /\ WithWord(corpus, w) \subseteq Docs(corpus) /\ page \in WithWord(corpus, w)
  <2>1. page \in Docs(corpus)
    BY <1>1, <1>2 DEF Docs, Range, text
  <2> QED BY <2>1, LibraryFacts DEF WithWord, Docs
<1>6. /\ N \in Nat /\ n \in 1..N /\ d \in 1..(N + 1)
  <2>1. /\ IsFiniteSet(Docs(corpus)) /\ IsFiniteSet(WithWord(corpus, w))
        /\ n <= N /\ Cardinality(WithWord(corpus, w)) <= n
    BY <1>5, FS_Subset
  <2>2. N \in Nat /\ n \in Nat /\ Cardinality(WithWord(corpus, w)) \in Nat
    BY <1>5, <2>1, FS_CardinalityType
  <2>3. n # 0
    BY <1>5, <2>1, FS_EmptySet
  <2> QED BY <2>1, <2>2, <2>3
<1>7. n \in DOMAIN Log2 /\ d \in DOMAIN Log2[n]
  <2>1. 1..N \subseteq DOMAIN Log2 /\ \A m \in 1..N : 1..(N + 1) \subseteq DOMAIN Log2[m]
    BY CorporaAssumption DEF TableFits
  <2> HIDE DEF N, n, d
  <2> QED BY <1>6, <2>1
<1>8. IDF(corpus, w) = Log2[n][d]
  BY DEF IDF
<1>9. n \in Int /\ d \in Int
  BY <1>6
<1> HIDE DEF n, d
<1>10. IDF(corpus, w) \in Int /\ (IDF(corpus, w) = 0 => d = n)
  BY <1>7, <1>8, <1>9, Log2Assumption
<1>11. TFIDF(corpus, page, w) \in Int
  BY <1>4, <1>10 DEF TFIDF, text
<1> QED BY <1>4, <1>10, <1>11 DEF n, d, text

(* A page that has all the words has no score only if none of them weighs. *)
LEMMA NoScore ==
  ASSUME TableFits, NEW page \in DOMAIN corpus, HasAll(page), IsNaN(Cos(page)),
         NEW n \in DOMAIN keys
  PROVE  IDF(corpus, keys[n]) = 0
<1> DEFINE text == corpus[page]
           obw == ObwArr(page)
           tfidf(w) == TFIDF(corpus, page, w)
<1>1. \A m \in DOMAIN keys : keys[m] \in DocWords(text) /\ page \in PagesOf(keys[m])
  BY IndexFits DEF HasAll, Has
<1>2. DOMAIN obw = DOMAIN keys /\ \A m \in DOMAIN keys : obw[m] = Entries(keys[m])[page]
  BY <1>1 DEF ObwArr
<1> HIDE DEF obw
<1>3. \A m \in DOMAIN keys : obw[m].weight = Weight(tfidf(keys[m]), SumW(corpus, page))
  <2> TAKE m \in DOMAIN keys
  <2>1. obw[m] = [weight |-> Weight(TFIDF(corpus, page, keys[m]), SumW(corpus, page)),
                  pos    |-> CurPos(corpus[page], Max(Places(corpus[page], keys[m])))]
    BY <1>1, <1>2, IndexFits
  <2> QED BY <2>1
<1>0. \A x, y : Weight(x, y).num = Stored[<<x, y>>] /\ (Weight(x, y).den = 0 => y = 0)
  BY DEF Weight
<1>4. \A w \in DocWords(text) : tfidf(w) \in Int /\ Square(tfidf(w)) \in Nat
  <2> TAKE w \in DocWords(text)
  <2>1. tfidf(w) \in Int
    BY WeightFacts
  <2> HIDE DEF tfidf
  <2> QED BY <2>1 DEF Square
<1>5. Square(tfidf(keys[n])) = 0
  <2>1. CASE Len(keys) = 1
    <3>1. SumW(corpus, page) = 0
      <4>1. Cos(page) = obw[1].weight
        BY <2>1 DEF Cos, obw
      <4>2. 1 \in DOMAIN keys
        BY LibraryFacts, <2>1
      <4>3. Cos(page) = Weight(tfidf(keys[1]), SumW(corpus, page))
        BY <1>3, <4>1, <4>2
      <4> HIDE DEF tfidf
      <4> QED BY <1>0, <4>3 DEF IsNaN
    <3> DEFINE f == [w \in DocWords(text) |-> Square(tfidf(w))]
    <3>2. SumW(corpus, page) = Total(f)
      BY DEF SumW
    <3>3. IsFiniteSet(DocWords(text))
      <4>1. IsFiniteSet(Range(text))
        BY LibraryFacts, RangeFinite
      <4> QED BY <4>1, FS_Subset DEF DocWords
    <3>4. f \in [DocWords(text) -> Nat]
      <4> HIDE DEF tfidf
      <4> QED BY <1>4
    <3>5. f[keys[n]] = Square(tfidf(keys[n]))
      BY <1>1
    <3> HIDE DEF f
    <3>6. f[keys[n]] = 0
      BY <1>1, <3>1, <3>2, <3>3, <3>4, TotalOfNaturals
    <3> QED BY <3>5, <3>6
  <2>2. CASE Len(keys) # 1
    <3> DEFINE num(m) == obw[m].weight.num
               f == [m \in DOMAIN obw |-> Square(num(m))]
    <3>1. Total(f) = 0
      BY <2>2 DEF Cos, IsNaN, obw
    <3>2. IsFiniteSet(DOMAIN keys)
      BY LibraryFacts, FS_Interval
    <3>3. ASSUME NEW m \in DOMAIN keys
          PROVE  num(m) \in Int /\ (num(m) = 0 => tfidf(keys[m]) = 0)
      <4> DEFINE q == <<tfidf(keys[m]), SumW(corpus, page)>>
      <4>1. num(m) = Stored[q]
        <5> HIDE DEF tfidf
        <5> QED BY <1>0, <1>3
      <4>2. q \in DOMAIN Stored
        BY <1>1, CorporaAssumption DEF TableFits
      <4>3. q[1] = tfidf(keys[m]) /\ tfidf(keys[m]) \in Int
        BY <1>1, <1>4
      <4> HIDE DEF q, num, tfidf
      <4> QED BY <4>1, <4>2, <4>3, StoredAssumption
    <3> HIDE DEF num
    <3>4. f \in [DOMAIN keys -> Nat]
      <4>1. \A x \in Int : Square(x) \in Nat
        BY DEF Square
      <4> QED BY <1>2, <3>3, <4>1
    <3>5. f[n] = Square(num(n))
      BY <1>2
    <3>6. Total(f) = 0
      BY <3>1 DEF num
    <3> HIDE DEF f
    <3>7. f[n] = 0
      BY <3>2, <3>4, <3>6, TotalOfNaturals
    <3>8. num(n) = 0
      BY <3>3, <3>5, <3>7, ZeroProduct DEF Square
    <3>9. tfidf(keys[n]) = 0
      BY <3>3, <3>8
    <3> QED BY <3>9 DEF Square
  <2> QED BY <2>1, <2>2
<1>6. keys[n] \in DocWords(corpus[page])
  BY <1>1
<1> QED BY <1>5, <1>6, WeightFacts, ZeroProduct DEF TFIDF

(* A page without a score is the only one in the answer, and every word is *)
(* in all pages but one.                                                   *)
THEOREM NaNAlone == SearchSpec => []NaNIsAlone
<1>1. SearchInv => NaNIsAlone
  <2> SUFFICES ASSUME SearchInv, NEW p \in webPageSet, IsNaN(p.cos)
               PROVE  /\ Cardinality(webPageSet) = 1
                      /\ HasAll(p.id) => \A n \in DOMAIN keys :
                           Cardinality({id \in DOMAIN corpus : Has(id, keys[n])}) + 1
                             = Cardinality({id \in DOMAIN corpus : corpus[id] # <<>>})
    BY DEF NaNIsAlone
  <2>1. IdsFit(calcId) /\ SetFits /\ TableFits
    BY DEF SearchInv
  <2>2. \A q \in webPageSet : Same(p.cos, q.cos)
    BY DEF Same
  <2>3. webPageSet = {p}
    BY <2>1, <2>2 DEF SetFits
  <2>4. Cardinality(webPageSet) = 1
    BY <2>3, FS_Singleton
  <2>5. ASSUME HasAll(p.id), NEW n \in DOMAIN keys
        PROVE  Cardinality({id \in DOMAIN corpus : Has(id, keys[n])}) + 1
                 = Cardinality({id \in DOMAIN corpus : corpus[id] # <<>>})
    <3>1. p.id \in DOMAIN corpus /\ IsNaN(Cos(p.id))
      BY <2>1, <2>5 DEF SetFits, IdsFit
    <3>2. IDF(corpus, keys[n]) = 0
      BY <2>1, <2>5, <3>1, NoScore
    <3>3. keys[n] \in DocWords(corpus[p.id])
      BY <2>5 DEF HasAll, Has
    <3>4. Cardinality(WithWord(corpus, keys[n])) + 1 = Cardinality(Docs(corpus))
      BY <2>1, <3>1, <3>2, <3>3, WeightFacts
    <3>5. WithWord(corpus, keys[n]) = {id \in DOMAIN corpus : Has(id, keys[n])}
      BY <2>1, IndexFits
    <3> QED BY <3>4, <3>5 DEF Docs
  <2> QED BY <2>4, <2>5
<1> QED BY <1>1, InitSearchInv, NextSearchInv, PTL DEF SearchSpec

-------------------------------------------------------------------------------
(* Page search: where the characters of a page end. *)

LEMMA BoundedMaximum ==
  ASSUME NEW n \in Nat, NEW T, T \subseteq 0..n, T # {}
  PROVE  Max(T) \in T /\ \A y \in T : y <= Max(T)
<1> DEFINE U == {n - x : x \in T}
<1>1. U \subseteq Nat /\ U # {}
  <2>1. \A x \in T : n - x \in Nat
    OBVIOUS
  <2> QED BY <2>1
<1>2. PICK u \in U : \A v \in U : u <= v
  BY <1>1, NatMinimum
<1>3. PICK x \in T : u = n - x
  BY <1>2
<1>4. \A y \in T : x >= y
  <2> TAKE y \in T
  <2>1. n - x <= n - y
    BY <1>2, <1>3
  <2>2. x \in Int /\ y \in Int
    OBVIOUS
  <2> QED BY <2>1, <2>2
<1>5. Max(T) \in T /\ \A y \in T : Max(T) >= y
  BY <1>4 DEF Max
<1>6. \A y \in T : y \in Int
  OBVIOUS
<1> QED BY <1>5, <1>6

LEMMA LeastIsMin ==
  ASSUME NEW T, T \subseteq Nat, T # {}
  PROVE  Min(T) \in T /\ \A y \in T : Min(T) <= y
BY NatMinimum DEF Min

(* The sums of the first numbers of a sequence. *)
Adds(P, d) ==
  /\ P \in [0..Len(d) -> Nat] /\ P[0] = 0
  /\ \A n \in 1..Len(d) : P[n] = P[n - 1] + d[n]

LEMMA PrefixOfSeq ==
  ASSUME NEW S, NEW d \in Seq(S), NEW n \in 0..Len(d)
  PROVE  /\ SubSeq(d, 1, n) \in Seq(S) /\ Len(SubSeq(d, 1, n)) = n
         /\ SubSeq(d, 1, n) = [k \in 1..n |-> d[k]]
         /\ \A k \in 1..n : SubSeq(d, 1, n)[k] = d[k]
OBVIOUS

LEMMA WholeSeq ==
  ASSUME NEW S, NEW d \in Seq(S)
  PROVE  SubSeq(d, 1, Len(d)) = d
OBVIOUS

LEMMA TotalsAdd ==
  ASSUME NEW d \in Seq(Nat)
  PROVE  \E P : Adds(P, d) /\ \A n \in 0..Len(d) : Total(SubSeq(d, 1, n)) = P[n]
<1>0. Len(d) \in Nat /\ \A n \in 1..Len(d) : d[n] \in Nat
  BY LenProperties, ElementOfSeq
<1> DEFINE S == 1..Len(d)
<1>1. IsFiniteSet(S)
  BY <1>0, FS_Interval
<1>2. PICK g : IsSum(g, d, S) /\ \A U \in SUBSET S : Total([x \in U |-> d[x]]) = g[U]
  <2>1. \A x \in S : d[x] \in Int
    BY <1>0
  <2> HIDE DEF S
  <2> QED BY <1>1, <2>1, TotalIsSum
<1> DEFINE P == [n \in 0..Len(d) |-> g[1..n]]
<1>3. P[0] = 0
  <2>1. 1..0 = {}
    OBVIOUS
  <2> QED BY <1>0, <1>2, <2>1 DEF IsSum
<1>4. ASSUME NEW n \in 1..Len(d) PROVE P[n] = P[n - 1] + d[n] /\ P[n - 1] \in Int
  <2>1. 1..n \in SUBSET S /\ n \in 1..n /\ (1..n) \ {n} = 1..(n - 1) /\ n - 1 \in 0..Len(d)
        /\ 1..(n - 1) \in SUBSET S
    BY <1>0
  <2>2. g[1..n] = d[n] + g[(1..n) \ {n}]
    BY <1>2, <2>1 DEF IsSum
  <2>3. g[1..(n - 1)] \in Int
    BY <1>2, <2>1 DEF IsSum
  <2>4. P[n] = g[1..n] /\ P[n - 1] = g[1..(n - 1)]
    BY <2>1
  <2>5. d[n] \in Int
    BY <1>0
  <2> HIDE DEF P
  <2>6. P[n] = d[n] + P[n - 1] /\ P[n - 1] \in Int
    BY <2>1, <2>2, <2>3, <2>4
  <2> QED BY <2>5, <2>6
<1>5. \A n \in 0..Len(d) : Total(SubSeq(d, 1, n)) = P[n]
  <2> TAKE n \in 0..Len(d)
  <2>1. SubSeq(d, 1, n) = [k \in 1..n |-> d[k]]
    BY PrefixOfSeq
  <2>2. 1..n \in SUBSET S
    BY <1>0
  <2> QED BY <1>2, <2>1, <2>2
<1>6. P = [n \in 0..Len(d) |-> P[n]]
  OBVIOUS
<1> HIDE DEF P, S
<1> DEFINE T == {n \in 0..Len(d) : P[n] \in Nat}
<1>7. 0 \in T
  BY <1>0, <1>3
<1>8. ASSUME NEW n \in 0..(Len(d) - 1), n \in T PROVE n + 1 \in T
  <2>1. n + 1 \in 1..Len(d) /\ (n + 1) - 1 = n
    BY <1>0
  <2>2. P[n + 1] = P[n] + d[n + 1] /\ d[n + 1] \in Nat
    BY <1>0, <1>4, <2>1
  <2> QED BY <1>0, <1>8, <2>1, <2>2
<1>9. 0..Len(d) \subseteq T
  <2> HIDE DEF T
  <2> QED BY <1>0, <1>7, <1>8, IntervalInduction
<1>10. P \in [0..Len(d) -> Nat]
  BY <1>6, <1>9
<1>11. Adds(P, d)
  BY <1>3, <1>4, <1>10 DEF Adds
<1> QED BY <1>5, <1>11

LEMMA AddsGrow ==
  ASSUME NEW d \in Seq(Nat), NEW P, Adds(P, d), NEW n \in 0..Len(d), NEW m \in 0..n
  PROVE  P[m] <= P[n]
<1>0. Len(d) \in Nat /\ \A k \in 1..Len(d) : d[k] \in Nat
  BY LenProperties, ElementOfSeq
<1> DEFINE T == {k \in 0..Len(d) : m <= k => P[m] <= P[k]}
<1>1. 0 \in T
  BY <1>0 DEF Adds
<1>2. ASSUME NEW k \in 0..(Len(d) - 1), k \in T PROVE k + 1 \in T
  <2>1. k + 1 \in 1..Len(d) /\ (k + 1) - 1 = k /\ k \in 0..Len(d) /\ k + 1 \in 0..Len(d)
    BY <1>0
  <2>2. P[k + 1] = P[k] + d[k + 1] /\ d[k + 1] \in Nat /\ P[k] \in Nat
    BY <1>0, <2>1 DEF Adds
  <2>3. P[m] \in Nat
    BY <1>0 DEF Adds
  <2>4. m <= k + 1 => P[m] <= P[k + 1]
    <3>1. CASE m = k + 1
      BY <2>2, <2>3, <3>1
    <3>2. CASE m # k + 1 /\ m <= k + 1
      <4>1. m <= k
        BY <3>2
      <4>2. P[m] <= P[k]
        BY <1>2, <4>1
      <4> QED BY <2>2, <2>3, <4>2
    <3> QED BY <3>1, <3>2
  <2> QED BY <2>1, <2>4
<1>3. 0..Len(d) \subseteq T
  <2> HIDE DEF T
  <2> QED BY <1>0, <1>1, <1>2, IntervalInduction
<1> QED BY <1>3

LEMMA TotalJoined ==
  ASSUME NEW s \in Seq(Nat), NEW t \in Seq(Nat)
  PROVE  /\ Total(s) \in Nat /\ Total(t) \in Nat
         /\ Total(s \o t) = Total(s) + Total(t)
<1> DEFINE L == Len(s)
           M == Len(t)
           v == s \o t
<1>0. L \in Nat /\ M \in Nat /\ v \in Seq(Nat)
      /\ (\A k \in 1..M : t[k] \in Nat) /\ (\A k \in 1..L : s[k] \in Nat)
  BY LenProperties, ElementOfSeq
<1>1. Len(v) = L + M /\ \A k \in 1..(L + M) : v[k] = IF k <= L THEN s[k] ELSE t[k - L]
  BY ConcatProperties
<1>2. PICK O : Adds(O, s) /\ \A n \in 0..L : Total(SubSeq(s, 1, n)) = O[n]
  BY TotalsAdd
<1>3. PICK Q : Adds(Q, t) /\ \A n \in 0..M : Total(SubSeq(t, 1, n)) = Q[n]
  BY TotalsAdd
<1>4. PICK P : Adds(P, v) /\ \A n \in 0..Len(v) : Total(SubSeq(v, 1, n)) = P[n]
  BY <1>0, TotalsAdd
<1>5. Total(s) = O[L] /\ Total(t) = Q[M] /\ Total(v) = P[L + M]
  <2>1. SubSeq(s, 1, L) = s /\ SubSeq(t, 1, M) = t /\ SubSeq(v, 1, Len(v)) = v
    BY <1>0, WholeSeq
  <2>2. L \in 0..L /\ M \in 0..M /\ Len(v) \in 0..Len(v)
    BY <1>0, <1>1
  <2> HIDE DEF L, M, v
  <2> QED BY <1>1, <1>2, <1>3, <1>4, <2>1, <2>2
<1>6. O[L] \in Nat /\ Q[M] \in Nat
  <2>1. L \in 0..Len(s) /\ M \in 0..Len(t)
    BY <1>0
  <2> QED BY <1>2, <1>3, <2>1 DEF Adds
<1> HIDE DEF v, L, M
<1> DEFINE T == {n \in 0..L : P[n] = O[n]}
<1>7. 0 \in T
  BY <1>0, <1>2, <1>4 DEF Adds
<1>8. ASSUME NEW n \in 0..(L - 1), n \in T PROVE n + 1 \in T
  <2>1. n + 1 \in 1..L /\ n + 1 \in 1..(L + M) /\ (n + 1) - 1 = n /\ n + 1 <= L
    BY <1>0
  <2>2. P[n + 1] = P[n] + v[n + 1]
    BY <1>1, <1>4, <2>1 DEF Adds
  <2>3. O[n + 1] = O[n] + s[n + 1]
    BY <1>2, <2>1 DEF Adds, L
  <2>4. v[n + 1] = s[n + 1]
    BY <1>1, <2>1
  <2>5. P[n] = O[n] /\ n + 1 \in 0..L
    BY <1>0, <1>8
  <2> QED BY <2>2, <2>3, <2>4, <2>5
<1>9. 0..L \subseteq T
  <2> HIDE DEF T
  <2> QED BY <1>0, <1>7, <1>8, IntervalInduction
<1>10. P[L] = O[L]
  BY <1>0, <1>9
<1> DEFINE U == {j \in 0..M : P[L + j] = O[L] + Q[j]}
<1>11. 0 \in U
  <2>1. L + 0 = L /\ Q[0] = 0 /\ 0 \in 0..M
    BY <1>0, <1>3 DEF Adds
  <2>2. P[L + 0] = O[L] + Q[0]
    BY <1>6, <1>10, <2>1
  <2> QED BY <2>1, <2>2
<1>12. ASSUME NEW j \in 0..(M - 1), j \in U PROVE j + 1 \in U
  <2>1. /\ j + 1 \in 1..M /\ L + (j + 1) \in 1..(L + M) /\ (L + (j + 1)) - 1 = L + j
        /\ (j + 1) - 1 = j /\ ~(L + (j + 1) <= L) /\ (L + (j + 1)) - L = j + 1
        /\ j + 1 \in 0..M /\ j \in 0..M
    BY <1>0
  <2>2. P[L + (j + 1)] = P[L + j] + v[L + (j + 1)]
    BY <1>1, <1>4, <2>1 DEF Adds
  <2>3. Q[j + 1] = Q[j] + t[j + 1]
    BY <1>3, <2>1 DEF Adds, M
  <2>4. v[L + (j + 1)] = t[j + 1]
    BY <1>1, <2>1
  <2>5. P[L + j] = O[L] + Q[j]
    BY <1>12
  <2>6. Q[j] \in Nat /\ t[j + 1] \in Nat
    BY <1>0, <1>3, <2>1 DEF Adds, M
  <2> DEFINE q == Q[j]
             o == O[L]
             c == t[j + 1]
  <2>7. q \in Nat /\ o \in Nat /\ c \in Nat
    BY <1>6, <2>6
  <2>8. P[L + (j + 1)] = (o + q) + c /\ O[L] + Q[j + 1] = o + (q + c)
    BY <2>2, <2>3, <2>4, <2>5
  <2> HIDE DEF q, o, c
  <2>9. (o + q) + c = o + (q + c)
    BY <2>7
  <2>10. P[L + (j + 1)] = O[L] + Q[j + 1]
    BY <2>8, <2>9
  <2> QED BY <2>1, <2>10
<1>13. 0..M \subseteq U
  <2> HIDE DEF U
  <2> QED BY <1>0, <1>11, <1>12, IntervalInduction
<1>14. P[L + M] = O[L] + Q[M]
  BY <1>0, <1>13
<1> QED BY <1>5, <1>6, <1>14 DEF v

(* The texts that end with each word of a page. *)
TextUpto(T, page) ==
  /\ T \in [0..Len(page) -> Seq(1..4)] /\ T[0] = <<>>
  /\ \A n \in 1..Len(page) : T[n] = T[n - 1] \o CharSizes[page[n]]

LEMMA TextsGrow ==
  ASSUME NEW page \in Seq(DOMAIN CharSizes)
  PROVE  \E T : TextUpto(T, page) /\ \A n \in 0..Len(page) : Description(SubSeq(page, 1, n)) = T[n]
<1>0. Len(page) \in Nat /\ \A k \in 1..Len(page) : CharSizes[page[k]] \in Seq(1..4)
  BY LenProperties, ElementOfSeq, CharSizesAssumption
<1> DEFINE ss == [k \in 1..Len(page) |-> CharSizes[page[k]]]
<1>1. ss \in Seq(Seq(1..4)) /\ Len(ss) = Len(page)
      /\ \A k \in 1..Len(page) : ss[k] = CharSizes[page[k]]
  BY <1>0
<1> HIDE DEF ss
<1>2. PICK T \in [0..Len(page) -> Seq(1..4)] : Joined(T, ss)
  BY <1>1, FlattenJoins
<1>3. TextUpto(T, page)
  BY <1>1, <1>2 DEF Joined, TextUpto
<1>4. ASSUME NEW n \in 0..Len(page) PROVE Description(SubSeq(page, 1, n)) = T[n]
  <2> DEFINE sub == SubSeq(page, 1, n)
             uu == [k \in 1..n |-> CharSizes[sub[k]]]
  <2>1. DOMAIN sub = 1..n /\ (\A k \in 1..n : sub[k] = page[k]) /\ n \in Nat
    BY <1>0, PrefixOfSeq
  <2>2. Description(sub) = FlattenSeq(uu)
    BY <2>1 DEF Description
  <2> HIDE DEF sub
  <2>3. \A k \in 1..n : k \in 1..Len(page) /\ uu[k] = CharSizes[page[k]] /\ uu[k] \in Seq(1..4)
    BY <1>0, <2>1
  <2>4. uu \in Seq(Seq(1..4)) /\ Len(uu) = n
    <3>1. \A k \in 1..n : CharSizes[sub[k]] \in Seq(1..4)
      BY <2>3
    <3> QED BY <2>1, <3>1
  <2> HIDE DEF uu
  <2>5. PICK f \in [0..n -> Seq(1..4)] : Joined(f, uu) /\ FlattenSeq(uu) = f[n]
    BY <2>4, FlattenJoins
  <2> DEFINE W == {k \in 0..n : f[k] = T[k]}
  <2>6. 0 \in W
    BY <1>2, <2>1, <2>5 DEF Joined
  <2>7. ASSUME NEW k \in 0..(n - 1), k \in W PROVE k + 1 \in W
    <3>1. k + 1 \in 1..n /\ (k + 1) - 1 = k /\ k + 1 \in 0..n
      BY <2>1
    <3>2. f[k + 1] = f[k] \o uu[k + 1]
      BY <2>4, <2>5, <3>1 DEF Joined
    <3>3. T[k + 1] = T[k] \o ss[k + 1] /\ ss[k + 1] = uu[k + 1]
      BY <1>1, <1>2, <2>3, <3>1 DEF Joined
    <3>4. f[k] = T[k]
      BY <2>7
    <3> QED BY <3>1, <3>2, <3>3, <3>4
  <2>8. 0..n \subseteq W
    <3> HIDE DEF W
    <3> QED BY <2>1, <2>6, <2>7, IntervalInduction
  <2>9. f[n] = T[n]
    BY <2>1, <2>8
  <2> QED BY <2>2, <2>5, <2>9 DEF sub
<1> QED BY <1>3, <1>4

(* Each of them is the beginning of the later ones. *)
LEMMA TextIsPrefix ==
  ASSUME NEW page \in Seq(DOMAIN CharSizes), NEW T, TextUpto(T, page),
         NEW n \in 0..Len(page)
  PROVE  LET d == T[Len(page)]
         IN Len(T[n]) \in 0..Len(d) /\ T[n] = SubSeq(d, 1, Len(T[n]))
<1>0. Len(page) \in Nat /\ \A k \in 0..Len(page) : T[k] \in Seq(1..4) /\ Len(T[k]) \in Nat
  BY LenProperties DEF TextUpto
<1>1. \A k \in 1..Len(page) : CharSizes[page[k]] \in Seq(1..4)
  BY ElementOfSeq, CharSizesAssumption
<1> DEFINE W == {m \in 0..Len(page) :
                   n <= m => Len(T[n]) \in 0..Len(T[m]) /\ T[n] = SubSeq(T[m], 1, Len(T[n]))}
<1>2. T[n] = SubSeq(T[n], 1, Len(T[n])) /\ Len(T[n]) \in 0..Len(T[n])
  BY <1>0, WholeSeq
<1>3. 0 \in W
  <2>1. n <= 0 => n = 0
    OBVIOUS
  <2> QED BY <1>0, <1>2, <2>1
<1>4. ASSUME NEW m \in 0..(Len(page) - 1), m \in W PROVE m + 1 \in W
  <2>1. m + 1 \in 1..Len(page) /\ (m + 1) - 1 = m /\ m \in 0..Len(page) /\ m + 1 \in 0..Len(page)
    BY <1>0
  <2>2. CASE n <= m
    <3> DEFINE t == T[m]
               u == CharSizes[page[m + 1]]
               L == Len(T[n])
    <3>1. T[m + 1] = t \o u /\ t \in Seq(1..4) /\ u \in Seq(1..4)
      BY <1>0, <1>1, <2>1 DEF TextUpto
    <3>2. L \in 0..Len(t) /\ T[n] = SubSeq(t, 1, L)
      BY <1>4, <2>2
    <3> HIDE DEF t, u, L
    <3>3. L \in 0..Len(t \o u) /\ SubSeq(t \o u, 1, L) = SubSeq(t, 1, L)
      BY <3>1, <3>2
    <3>4. L \in 0..Len(T[m + 1]) /\ T[n] = SubSeq(T[m + 1], 1, L)
      BY <3>1, <3>2, <3>3
    <3> QED BY <2>1, <3>4 DEF L
  <2>3. CASE n = m + 1
    BY <1>2, <2>1, <2>3
  <2>4. CASE n > m + 1
    <3>1. ~(n <= m + 1)
      BY <2>4
    <3> QED BY <2>1, <3>1
  <2> QED BY <2>2, <2>3, <2>4
<1>5. 0..Len(page) \subseteq W
  <2> HIDE DEF W
  <2> QED BY <1>0, <1>3, <1>4, IntervalInduction
<1> QED BY <1>0, <1>5

LEMMA CharEndsFacts ==
  ASSUME NEW d \in Seq(1..4), d # <<>>
  PROVE  /\ CharEnds(d) \subseteq Nat /\ Total(d) \in CharEnds(d)
         /\ \A e \in CharEnds(d) : e <= Total(d)
         /\ Max(Range(d)) \in Nat
         /\ \A e \in CharEnds(d) : \E c \in {0} \cup CharEnds(d) :
               c < e /\ e <= c + Max(Range(d))
         /\ \A n \in 0..Len(d) : Total(SubSeq(d, 1, n)) \in {0} \cup CharEnds(d)
<1>0. Len(d) \in Nat \ {0} /\ d \in Seq(Nat) /\ DOMAIN d = 1..Len(d)
      /\ \A n \in 1..Len(d) : d[n] \in 1..4
  BY EmptySeq, LenProperties, ElementOfSeq
<1>1. PICK P : Adds(P, d) /\ \A n \in 0..Len(d) : Total(SubSeq(d, 1, n)) = P[n]
  BY <1>0, TotalsAdd
<1>2. \A n \in 0..Len(d) : P[n] \in Nat
  BY <1>1 DEF Adds
<1>3. CharEnds(d) = {P[n] : n \in 1..Len(d)}
  <2>1. \A n \in 1..Len(d) : Total(SubSeq(d, 1, n)) = P[n]
    BY <1>1
  <2> QED BY <1>0, <2>1 DEF CharEnds
<1>4. Total(d) = P[Len(d)]
  <2>1. SubSeq(d, 1, Len(d)) = d
    BY WholeSeq
  <2>2. Len(d) \in 0..Len(d)
    BY <1>0
  <2> QED BY <1>1, <2>1, <2>2
<1>5. CharEnds(d) \subseteq Nat /\ Total(d) \in CharEnds(d)
  BY <1>0, <1>2, <1>3, <1>4
<1>6. \A n \in 1..Len(d) : P[n] <= P[Len(d)]
  BY <1>0, <1>1, AddsGrow
<1>7. Max(Range(d)) \in Nat /\ \A n \in 1..Len(d) : d[n] <= Max(Range(d))
  <2>1. Range(d) \subseteq 0..4 /\ Range(d) # {} /\ \A n \in 1..Len(d) : d[n] \in Range(d)
    BY <1>0 DEF Range
  <2> QED BY <2>1, BoundedMaximum
<1>8. ASSUME NEW n \in 1..Len(d)
      PROVE  \E c \in {0} \cup CharEnds(d) : c < P[n] /\ P[n] <= c + Max(Range(d))
  <2>1. P[n] = P[n - 1] + d[n] /\ d[n] \in 1..4 /\ n - 1 \in 0..Len(d)
    BY <1>0, <1>1 DEF Adds
  <2>2. P[n - 1] \in Nat /\ d[n] <= Max(Range(d)) /\ Max(Range(d)) \in Nat
    BY <1>2, <1>7, <2>1
  <2>3. P[n - 1] < P[n] /\ P[n] <= P[n - 1] + Max(Range(d))
    BY <2>1, <2>2
  <2>4. P[n - 1] \in {0} \cup CharEnds(d)
    <3>1. CASE n = 1
      <4>1. P[0] = 0 /\ n - 1 = 0
        BY <1>1, <3>1 DEF Adds
      <4> QED BY <4>1
    <3>2. CASE n # 1
      <4>1. n - 1 \in 1..Len(d)
        BY <1>0, <3>2
      <4> QED BY <1>3, <4>1
    <3> QED BY <3>1, <3>2
  <2> QED BY <2>3, <2>4
<1>9. ASSUME NEW n \in 0..Len(d) PROVE Total(SubSeq(d, 1, n)) \in {0} \cup CharEnds(d)
  <2>1. CASE n = 0
    BY <1>1, <2>1 DEF Adds
  <2>2. CASE n # 0
    <3>1. n \in 1..Len(d)
      BY <2>2
    <3> QED BY <1>1, <1>3, <3>1
  <2> QED BY <2>1, <2>2
<1> QED BY <1>3, <1>4, <1>5, <1>6, <1>7, <1>8, <1>9

(* What outRes cuts out around a place idx of a text. *)
LEMMA ExcerptFits ==
  ASSUME NEW d \in Seq(1..4), d # <<>>, NEW idx \in Nat, idx <= Total(d)
  PROVE  /\ Begin(d, idx) \in {0} \cup CharEnds(d) /\ End(d, idx) \in CharEnds(d)
         /\ End(d, idx) - Begin(d, idx) <= 2 * Around + Max(Range(d))
         /\ idx \in {0} \cup CharEnds(d) => Begin(d, idx) <= idx
         /\ \A e \in {0} \cup CharEnds(d) : e <= idx + Around => e <= End(d, idx)
<1> DEFINE E == CharEnds(d)
           M == Max(Range(d))
           all == Total(d)
           lo == {k \in E : idx >= Around /\ k > idx - Around}
           hi == {k \in E : k > idx + Around}
           b == Begin(d, idx)
           e == End(d, idx)
<1>1. /\ E \subseteq Nat /\ all \in E /\ M \in Nat
      /\ (\A k \in E : k <= all)
      /\ \A k \in E : \E c \in {0} \cup E : c < k /\ k <= c + M
  BY CharEndsFacts
<1>2. b = IF lo = {} THEN 0 ELSE Min(lo)
  BY DEF Begin
<1>3. e = IF hi = {} THEN all ELSE Min(hi)
  BY DEF End
<1>4. Around \in Nat \ {0} /\ idx \in Nat /\ idx <= all
  BY AroundAssumption
<1> HIDE DEF E, M, all, b, e
<1>5. lo # {} => b \in lo /\ \A k \in lo : b <= k
  <2>1. lo \subseteq Nat
    BY <1>1
  <2> HIDE DEF lo
  <2> QED BY <1>2, <2>1, LeastIsMin
<1>6. hi # {} => e \in hi /\ \A k \in hi : e <= k
  <2>1. hi \subseteq Nat
    BY <1>1
  <2> HIDE DEF hi
  <2> QED BY <1>3, <2>1, LeastIsMin
<1>7. b \in {0} \cup E /\ e \in E /\ b \in Nat /\ e \in Nat
  BY <1>1, <1>2, <1>3, <1>5, <1>6
<1>8. e <= idx + Around + M
  <2>1. CASE hi = {}
    <3>1. e = all /\ ~(all > idx + Around) /\ all \in Nat
      BY <1>1, <1>3, <2>1
    <3> QED BY <1>1, <1>4, <3>1
  <2>2. CASE hi # {}
    <3>1. PICK c \in {0} \cup E : c < e /\ e <= c + M
      BY <1>1, <1>7
    <3>2. c \notin hi
      BY <1>1, <1>6, <1>7, <2>2, <3>1
    <3>3. c \in Nat /\ c <= idx + Around
      BY <1>1, <1>4, <3>2
    <3> QED BY <1>1, <1>4, <1>7, <3>1, <3>3
  <2> QED BY <2>1, <2>2
<1>9. idx >= Around => b > idx - Around
  <2> SUFFICES ASSUME idx >= Around PROVE b > idx - Around
    OBVIOUS
  <2>1. all \in lo
    BY <1>1, <1>4
  <2> QED BY <1>5, <2>1
<1>10. e - b <= 2 * Around + M
  <2>1. CASE idx >= Around
    BY <1>1, <1>4, <1>7, <1>8, <1>9, <2>1
  <2>2. CASE ~(idx >= Around)
    BY <1>1, <1>4, <1>7, <1>8, <2>2
  <2> QED BY <2>1, <2>2
<1>11. idx \in {0} \cup E => b <= idx
  <2> SUFFICES ASSUME idx \in {0} \cup E PROVE b <= idx
    OBVIOUS
  <2>1. CASE idx >= Around
    <3>1. idx \in lo
      BY <1>4, <2>1
    <3> QED BY <1>5, <3>1
  <2>2. CASE ~(idx >= Around)
    BY <1>2, <1>4, <2>2
  <2> QED BY <2>1, <2>2
<1>12. ASSUME NEW k \in {0} \cup E, k <= idx + Around PROVE k <= e
  <2>1. CASE hi = {}
    BY <1>1, <1>3, <2>1
  <2>2. CASE hi # {}
    <3>1. e > idx + Around
      BY <1>6, <2>2
    <3>2. k \in Nat
      BY <1>1
    <3> QED BY <1>4, <1>7, <1>12, <3>1, <3>2
  <2> QED BY <2>1, <2>2
<1> QED BY <1>7, <1>10, <1>11, <1>12 DEF E, M, b, e

(* The bytes up to the n-th word of a page end a character of the page. *)
LEMMA WordsEndCharacters ==
  ASSUME NEW page \in Seq(DOMAIN CharSizes), page # <<>>
  PROVE  /\ Description(page) \in Seq(1..4) /\ Description(page) # <<>>
         /\ \A n \in 0..Len(page) :
              LET before == Total(Description(SubSeq(page, 1, n)))
              IN before \in {0} \cup CharEnds(Description(page))
         /\ \A n \in 1..Len(page) :
              Total(Description(SubSeq(page, 1, n)))
                = Total(Description(SubSeq(page, 1, n - 1))) + Total(CharSizes[page[n]])
<1>0. Len(page) \in Nat \ {0} /\ \A k \in 1..Len(page) : CharSizes[page[k]] \in Seq(1..4) \ {<<>>}
  BY EmptySeq, LenProperties, ElementOfSeq, CharSizesAssumption
<1>1. PICK T : TextUpto(T, page) /\ \A n \in 0..Len(page) : Description(SubSeq(page, 1, n)) = T[n]
  BY TextsGrow
<1> DEFINE d == T[Len(page)]
<1>2. d \in Seq(1..4) /\ \A n \in 0..Len(page) : T[n] \in Seq(1..4)
  <2>1. Len(page) \in 0..Len(page)
    BY <1>0
  <2>2. \A n \in 0..Len(page) : T[n] \in Seq(1..4)
    BY <1>1 DEF TextUpto
  <2> QED BY <2>1, <2>2
<1>3. Description(page) = d
  <2>1. SubSeq(page, 1, Len(page)) = page
    BY WholeSeq
  <2>2. Len(page) \in 0..Len(page)
    BY <1>0
  <2>3. Description(SubSeq(page, 1, Len(page))) = d
    BY <1>1, <2>2
  <2> QED BY <2>1, <2>3
<1>4. \A n \in 0..Len(page) : Len(T[n]) \in 0..Len(d) /\ T[n] = SubSeq(d, 1, Len(T[n]))
  BY <1>1, TextIsPrefix
<1>5. d # <<>>
  <2> DEFINE n == Len(page)
  <2>1. n \in 1..n /\ n - 1 \in 0..n
    BY <1>0
  <2>2. d = T[n - 1] \o CharSizes[page[n]]
    BY <1>1, <2>1 DEF TextUpto
  <2>3. T[n - 1] \in Seq(1..4) /\ CharSizes[page[n]] \in Seq(1..4) \ {<<>>}
    BY <1>0, <1>2, <2>1
  <2> HIDE DEF n, d
  <2>4. /\ Len(d) = Len(T[n - 1]) + Len(CharSizes[page[n]])
        /\ Len(T[n - 1]) \in Nat /\ Len(CharSizes[page[n]]) \in Nat \ {0}
    BY <2>2, <2>3, ConcatProperties, LenProperties, EmptySeq
  <2> DEFINE j == Len(T[n - 1])
             k == Len(CharSizes[page[n]])
  <2>5. Len(d) = j + k /\ j \in Nat /\ k \in Nat \ {0}
    BY <2>4
  <2> HIDE DEF j, k
  <2>6. Len(d) # 0
    BY <2>5
  <2> QED BY <2>6
<1> HIDE DEF d
<1>6. ASSUME NEW n \in 0..Len(page)
      PROVE  Total(Description(SubSeq(page, 1, n))) \in {0} \cup CharEnds(d)
  <2>1. Total(SubSeq(d, 1, Len(T[n]))) \in {0} \cup CharEnds(d)
    BY <1>2, <1>4, <1>5, CharEndsFacts
  <2>2. Description(SubSeq(page, 1, n)) = SubSeq(d, 1, Len(T[n]))
    BY <1>1, <1>4
  <2> QED BY <2>1, <2>2
<1>7. ASSUME NEW n \in 1..Len(page)
      PROVE  Total(Description(SubSeq(page, 1, n)))
               = Total(Description(SubSeq(page, 1, n - 1))) + Total(CharSizes[page[n]])
  <2>1. n \in 0..Len(page) /\ n - 1 \in 0..Len(page)
    BY <1>0
  <2>2. T[n] = T[n - 1] \o CharSizes[page[n]]
    BY <1>1 DEF TextUpto
  <2>3. T[n - 1] \in Seq(Nat) /\ CharSizes[page[n]] \in Seq(Nat)
    <3>1. T[n - 1] \in Seq(1..4) /\ CharSizes[page[n]] \in Seq(1..4) /\ 1..4 \subseteq Nat
      BY <1>0, <1>2, <2>1
    <3> QED BY <3>1, WiderSeq
  <2>4. Total(T[n]) = Total(T[n - 1]) + Total(CharSizes[page[n]])
    BY <2>2, <2>3, TotalJoined
  <2>5. Description(SubSeq(page, 1, n)) = T[n] /\ Description(SubSeq(page, 1, n - 1)) = T[n - 1]
    BY <1>1, <2>1
  <2> QED BY <2>4, <2>5
<1> QED BY <1>2, <1>3, <1>5, <1>6, <1>7

(* Where the index has a word in a page that has it. *)
LEMMA IdxIsWord ==
  ASSUME TableFits, NEW id \in DOMAIN corpus, NEW n \in DOMAIN keys
  PROVE  LET page == corpus[id]
             place == Max(Places(page, keys[n]))
         IN /\ ~Has(id, keys[n]) => Idx(id, keys[n]) = 0
            /\ Has(id, keys[n]) =>
                 /\ place \in Places(page, keys[n]) /\ place \in 1..Len(page)
                 /\ page[place] = keys[n]
                 /\ Idx(id, keys[n]) = Total(Description(SubSeq(page, 1, place - 1)))
<1> DEFINE page == corpus[id]
           w == keys[n]
           place == Max(Places(page, w))
<1>1. page \in Seq(DOMAIN CharSizes)
  BY LibraryFacts
<1>2. id \in PagesOf(w) <=> Has(id, w)
  BY IndexFits
<1>3. ASSUME Has(id, w)
      PROVE  /\ place \in Places(page, w) /\ place \in 1..Len(page) /\ page[place] = w
             /\ Idx(id, w) = Total(Description(SubSeq(page, 1, place - 1)))
  <2>1. w \in Range(page)
    BY <1>3 DEF Has, DocWords
  <2>2. Idx(id, w) = CurPos(page, place)
    <3>1. Entries(w)[id] = [weight |-> Weight(TFIDF(corpus, id, w), SumW(corpus, id)),
                            pos    |-> CurPos(page, place)]
      BY <1>2, <1>3, IndexFits
    <3>2. Entries(w)[id].pos = CurPos(page, place)
      BY <3>1
    <3> QED BY <1>2, <1>3, <3>2 DEF Idx
  <2>3. CurPos(page, place) = Total(Description(SubSeq(page, 1, place - 1)))
    BY DEF CurPos, ByteSize
  <2> HIDE DEF page, w, place
  <2>4. Places(page, w) \subseteq 0..Len(page) /\ Places(page, w) # {} /\ Len(page) \in Nat
        /\ Places(page, w) \subseteq 1..Len(page)
    BY <1>1, <2>1 DEF Places, Range
  <2>5. place \in Places(page, w)
    BY <2>4, BoundedMaximum DEF place
  <2>6. page[place] = w
    BY <2>5 DEF Places
  <2> QED BY <2>2, <2>3, <2>4, <2>5, <2>6
<1>4. ~Has(id, w) => Idx(id, w) = 0
  BY <1>2 DEF Idx
<1> QED BY <1>3, <1>4

(* The place a word is shown around is where a character of the page ends, *)
(* or its beginning.                                                       *)
LEMMA IdxIsEnd ==
  ASSUME TableFits, NEW id \in DOMAIN corpus, NEW n \in DOMAIN keys
  PROVE  Idx(id, keys[n]) \in {0} \cup CharEnds(Description(corpus[id]))
<1> DEFINE page == corpus[id]
           place == Max(Places(page, keys[n]))
<1>1. page \in Seq(DOMAIN CharSizes) /\ Len(page) \in Nat
  BY LibraryFacts, LenProperties
<1>2. CASE Has(id, keys[n])
  <2>1. place \in 1..Len(page) /\ Idx(id, keys[n]) = Total(Description(SubSeq(page, 1, place - 1)))
    BY <1>2, IdxIsWord
  <2> HIDE DEF place
  <2>2. place - 1 \in 0..Len(page)
    BY <1>1, <2>1
  <2>3. page # <<>>
    BY <1>2 DEF Has, DocWords, Range
  <2> QED BY <1>1, <2>1, <2>2, <2>3, WordsEndCharacters
<1>3. CASE ~Has(id, keys[n])
  BY <1>3, IdxIsWord
<1> QED BY <1>2, <1>3

(* What is shown of a page around its last occurrence of a word. *)
LEMMA WordInExcerpt ==
  ASSUME TableFits, NEW id \in DOMAIN corpus, NEW n \in DOMAIN keys,
         Has(id, keys[n]), Total(CharSizes[keys[n]]) <= Around
  PROVE  \E k \in Places(corpus[id], keys[n]) :
           /\ Excerpt(id, keys[n]).begin <= Total(Description(SubSeq(corpus[id], 1, k - 1)))
           /\ Excerpt(id, keys[n]).end >= Total(Description(SubSeq(corpus[id], 1, k)))
<1> DEFINE key == keys[n]
           page == corpus[id]
           d == Description(page)
           idx == Idx(id, key)
           upto(k) == Total(Description(SubSeq(page, 1, k)))
           place == Max(Places(page, key))
           c == Total(CharSizes[key])
<1>1. page \in Seq(DOMAIN CharSizes) /\ page # <<>> /\ Len(page) \in Nat
  <2>1. keys[n] \in Range(page)
    BY DEF Has, DocWords
  <2> QED BY <2>1, LibraryFacts, LenProperties DEF Range
<1>2. /\ d \in Seq(1..4) /\ d # <<>>
      /\ \A k \in 0..Len(page) : upto(k) \in {0} \cup CharEnds(d)
      /\ \A k \in 1..Len(page) : upto(k) = upto(k - 1) + Total(CharSizes[page[k]])
  BY <1>1, WordsEndCharacters
<1>3. idx \in {0} \cup CharEnds(d)
  BY IdxIsEnd
<1>4. /\ place \in Places(page, key) /\ place \in 1..Len(page) /\ page[place] = key
      /\ idx = upto(place - 1)
  BY IdxIsWord
<1>5. Excerpt(id, key).begin = Begin(d, idx) /\ Excerpt(id, key).end = End(d, idx)
  BY DEF Excerpt
<1> HIDE DEF place, d, idx
<1>6. idx \in Nat /\ idx <= Total(d)
  BY <1>2, <1>3, CharEndsFacts
<1>7. /\ End(d, idx) \in CharEnds(d) /\ Begin(d, idx) <= idx
      /\ \A e \in {0} \cup CharEnds(d) : e <= idx + Around => e <= End(d, idx)
  BY <1>2, <1>3, <1>6, ExcerptFits
<1> DEFINE e == upto(place)
<1>8. e = idx + c /\ place \in 0..Len(page)
  BY <1>1, <1>2, <1>4
<1>9. e \in {0} \cup CharEnds(d)
  BY <1>2, <1>8
<1>10. c \in Nat
  <2>1. key \in DOMAIN CharSizes
    BY <1>1, <1>4, ElementOfSeq
  <2>2. CharSizes[key] \in Seq(1..4) /\ 1..4 \subseteq Nat
    BY <2>1, CharSizesAssumption
  <2>3. CharSizes[key] \in Seq(Nat)
    BY <2>2, WiderSeq
  <2> QED BY <2>3, TotalJoined
<1> HIDE DEF e, c
<1>11. e <= idx + Around
  BY <1>6, <1>8, <1>10, AroundAssumption DEF c
<1>12. e <= End(d, idx) /\ e \in Int /\ End(d, idx) \in Int
  BY <1>2, <1>7, <1>9, <1>11, CharEndsFacts
<1>13. Begin(d, idx) <= upto(place - 1) /\ End(d, idx) >= upto(place)
  BY <1>4, <1>7, <1>12 DEF e
<1> QED BY <1>4, <1>5, <1>13

(* Of a page a description shows, for the words one after the other, parts *)
(* of whole characters, none too long, and in each a place of the word, if *)
(* the page has it.                                                        *)
THEOREM ExcerptsShown == SearchSpec => []ExcerptsShowWords
<1>1. SearchInv => ExcerptsShowWords
  <2> SUFFICES ASSUME SearchInv, phase = "done", webPageSet # {}
               PROVE  ExcerptsShowWords
    BY DEF ExcerptsShowWords
  <2>0. IdsFit(calcId) /\ SetFits /\ TableFits /\ ShownFits
    BY DEF SearchInv
  <2>1. PICK p \in webPageSet, last \in DOMAIN keys :
          shown = [id |-> p.id, text |-> [m \in 1..last |-> Excerpt(p.id, keys[m])]]
    BY <2>0 DEF ShownFits
  <2> DEFINE page == corpus[p.id]
             d == Description(page)
  <2>2. p.id \in DOMAIN corpus /\ Has(p.id, keys[1])
    BY <2>0 DEF SetFits, IdsFit
  <2>3. page \in Seq(DOMAIN CharSizes) /\ page # <<>>
    <3>1. keys[1] \in Range(page)
      BY <2>2 DEF Has, DocWords
    <3> QED BY <2>0, <2>2, <3>1, LibraryFacts DEF Range
  <2>4. d \in Seq(1..4) /\ d # <<>>
    BY <2>3, WordsEndCharacters
  <2>5. shown.id = p.id /\ DOMAIN shown.text = 1..last
        /\ \A m \in 1..last : shown.text[m] = Excerpt(p.id, keys[m])
    BY <2>1
  <2>6. last \in 1..Len(keys) /\ DOMAIN keys = 1..Len(keys) /\ Len(keys) \in Nat
    BY <2>0, LibraryFacts
  <2>7. shown.text # <<>> /\ 1..last \subseteq DOMAIN keys
    <3>1. 1 \in DOMAIN shown.text
      BY <2>5, <2>6
    <3> QED BY <2>6, <3>1
  <2>8. ASSUME NEW m \in DOMAIN keys
        PROVE  LET part == Excerpt(p.id, keys[m])
               IN /\ part.begin \in {0} \cup CharEnds(d) /\ part.end \in CharEnds(d)
                  /\ part.end - part.begin <= 2 * Around + Max(Range(d))
    <3> DEFINE idx == Idx(p.id, keys[m])
    <3>1. idx \in {0} \cup CharEnds(d)
      BY <2>0, <2>2, IdxIsEnd
    <3>2. Excerpt(p.id, keys[m]).begin = Begin(d, idx) /\ Excerpt(p.id, keys[m]).end = End(d, idx)
      BY DEF Excerpt
    <3> HIDE DEF d, idx
    <3>3. idx \in Nat /\ idx <= Total(d)
      BY <2>4, <3>1, CharEndsFacts
    <3>4. /\ Begin(d, idx) \in {0} \cup CharEnds(d) /\ End(d, idx) \in CharEnds(d)
          /\ End(d, idx) - Begin(d, idx) <= 2 * Around + Max(Range(d))
      BY <2>4, <3>1, <3>3, ExcerptFits
    <3> QED BY <3>2, <3>4
  <2>9. ASSUME NEW m \in DOMAIN keys, Has(p.id, keys[m]), Total(CharSizes[keys[m]]) <= Around
        PROVE  \E k \in Places(page, keys[m]) :
                 /\ Excerpt(p.id, keys[m]).begin <= Total(Description(SubSeq(page, 1, k - 1)))
                 /\ Excerpt(p.id, keys[m]).end >= Total(Description(SubSeq(page, 1, k)))
    BY <2>0, <2>2, <2>9, WordInExcerpt
  <2> QED BY <2>5, <2>7, <2>8, <2>9 DEF ExcerptsShowWords
<1> QED BY <1>1, InitSearchInv, NextSearchInv, PTL DEF SearchSpec

-------------------------------------------------------------------------------
(* Dictionary: where the characters of a word are among its bytes. *)

Sizes(word) == [n \in 1..Len(word) |-> Len(Bytes[word[n]])]

(* The n-th character of a word ends at the byte e[n] of x. *)
Placed(e, word, x) ==
  /\ Adds(e, Sizes(word)) /\ e[Len(word)] = Len(x)
  /\ \A n \in 1..Len(word) : \A j \in 1..Len(Bytes[word[n]]) :
        x[e[n - 1] + j] = Bytes[word[n]][j]

LEMMA CharFacts ==
  ASSUME NEW c \in Chars
  PROVE  /\ Bytes[c] \in Seq(0..247) /\ Len(Bytes[c]) \in Nat \ {0}
         /\ Len(Bytes[c]) = NBytesCode(Bytes[c][1])
<1>1. Bytes[c] \in Seq(0..247) \ {<<>>} /\ Len(Bytes[c]) = NBytesCode(Bytes[c][1])
  BY BytesAssumption DEF Chars
<1> QED BY <1>1, LenProperties, EmptySeq

LEMMA SizesFacts ==
  ASSUME NEW word \in Seq(Chars)
  PROVE  /\ Len(word) \in Nat /\ Sizes(word) \in Seq(Nat) /\ Len(Sizes(word)) = Len(word)
         /\ \A n \in 1..Len(word) : /\ word[n] \in Chars
                                   /\ Sizes(word)[n] = Len(Bytes[word[n]])
                                   /\ Sizes(word)[n] \in Nat \ {0}
<1>1. Len(word) \in Nat /\ \A n \in 1..Len(word) : word[n] \in Chars
  BY LenProperties, ElementOfSeq
<1>2. \A n \in 1..Len(word) : Len(Bytes[word[n]]) \in Nat \ {0}
  BY <1>1, CharFacts
<1> QED BY <1>1, <1>2 DEF Sizes

LEMMA EncodedIsPlaced ==
  ASSUME NEW word \in Seq(Chars)
  PROVE  Encoded(word) \in Seq(0..247) /\ \E e : Placed(e, word, Encoded(word))
<1> DEFINE N == Len(word)
           ss == [n \in 1..N |-> Bytes[word[n]]]
           x == Encoded(word)
<1>1. N \in Nat /\ DOMAIN word = 1..N
      /\ \A n \in 1..N : /\ Bytes[word[n]] \in Seq(0..247)
                         /\ Len(Bytes[word[n]]) \in Nat \ {0}
                         /\ Sizes(word)[n] = Len(Bytes[word[n]])
  BY SizesFacts, CharFacts, LenProperties
<1>2. ss \in Seq(Seq(0..247)) /\ Len(ss) = N /\ \A n \in 1..N : ss[n] = Bytes[word[n]]
  BY <1>1
<1>3. x = FlattenSeq(ss)
  BY <1>1 DEF Encoded
<1> HIDE DEF ss, x
<1>4. PICK f \in [0..N -> Seq(0..247)] : Joined(f, ss) /\ x = f[N]
  BY <1>2, <1>3, FlattenJoins
<1> HIDE DEF N
<1>5. \A n \in 0..N : f[n] \in Seq(0..247) /\ Len(f[n]) \in Nat
  BY <1>4, LenProperties
<1> DEFINE e == [n \in 0..N |-> Len(f[n])]
<1>6. ASSUME NEW n \in 1..N
      PROVE  /\ n - 1 \in 0..N /\ n \in 0..N
             /\ e[n] = e[n - 1] + Len(Bytes[word[n]])
             /\ \A k \in 1..e[n - 1] : f[n][k] = f[n - 1][k]
             /\ \A j \in 1..Len(Bytes[word[n]]) : f[n][e[n - 1] + j] = Bytes[word[n]][j]
  <2> DEFINE s == f[n - 1]
             t == Bytes[word[n]]
  <2>1. n - 1 \in 0..N /\ n \in 0..N
    BY <1>1
  <2>2. f[n] = s \o t /\ s \in Seq(0..247) /\ t \in Seq(0..247)
    BY <1>1, <1>2, <1>4, <1>5, <2>1 DEF Joined
  <2>3. e[n] = Len(f[n]) /\ e[n - 1] = Len(s)
    BY <2>1
  <2> HIDE DEF s, t, e
  <2>4. /\ Len(f[n]) = Len(s) + Len(t) /\ Len(s) \in Nat /\ Len(t) \in Nat
        /\ \A k \in 1..(Len(s) + Len(t)) : f[n][k] = IF k <= Len(s) THEN s[k] ELSE t[k - Len(s)]
    BY <2>2, ConcatProperties, LenProperties
  <2>5. \A k \in 1..Len(s) : f[n][k] = s[k]
    BY <2>4
  <2>6. ASSUME NEW j \in 1..Len(t) PROVE f[n][Len(s) + j] = t[j]
    <3>1. Len(s) + j \in 1..(Len(s) + Len(t)) /\ ~(Len(s) + j <= Len(s)) /\ (Len(s) + j) - Len(s) = j
      BY <2>4
    <3> QED BY <2>4, <3>1
  <2> QED BY <2>1, <2>3, <2>4, <2>5, <2>6 DEF s, t
<1>7. e \in [0..N -> Nat] /\ e[0] = 0 /\ e[N] = Len(x)
  <2>1. Len(f[0]) = 0 /\ 0 \in 0..N /\ N \in 0..N
    BY <1>1, <1>4 DEF Joined
  <2> QED BY <1>4, <1>5, <2>1
<1>8. Adds(e, Sizes(word))
  <2>1. Len(Sizes(word)) = N
    BY SizesFacts DEF N
  <2>2. \A n \in 1..N : e[n] = e[n - 1] + Sizes(word)[n]
    BY <1>1, <1>6
  <2> HIDE DEF e
  <2> QED BY <1>7, <2>1, <2>2 DEF Adds
<1> HIDE DEF e
<1>9. ASSUME NEW n \in 1..N, NEW j \in 1..Len(Bytes[word[n]])
      PROVE  x[e[n - 1] + j] = Bytes[word[n]][j]
  <2> DEFINE k == e[n - 1] + j
             T == {m \in 0..N : n <= m => k \in 1..e[m] /\ f[m][k] = Bytes[word[n]][j]}
  <2>1. \A m \in 0..N : e[m] \in Nat
    BY <1>7
  <2>2. k \in 1..e[n] /\ f[n][k] = Bytes[word[n]][j]
    <3>1. e[n - 1] \in Nat /\ Len(Bytes[word[n]]) \in Nat
      BY <1>1, <1>6, <2>1
    <3>2. f[n][k] = Bytes[word[n]][j] /\ e[n] = e[n - 1] + Len(Bytes[word[n]])
      BY <1>6
    <3> QED BY <3>1, <3>2
  <2> HIDE DEF k
  <2>3. 0 \in T
    BY <1>1
  <2>4. ASSUME NEW m \in 0..(N - 1), m \in T PROVE m + 1 \in T
    <3>1. m + 1 \in 1..N /\ (m + 1) - 1 = m /\ m \in 0..N /\ m + 1 \in 0..N
      BY <1>1
    <3>2. CASE n <= m
      <4>1. k \in 1..e[m] /\ f[m][k] = Bytes[word[n]][j]
        BY <2>4, <3>2
      <4>2. f[m + 1][k] = f[m][k] /\ e[m + 1] = e[m] + Len(Bytes[word[m + 1]])
        BY <1>6, <3>1, <4>1
      <4>3. e[m] \in Nat /\ Len(Bytes[word[m + 1]]) \in Nat
        BY <1>1, <2>1, <3>1
      <4>4. k \in 1..e[m + 1]
        BY <4>1, <4>2, <4>3
      <4> QED BY <3>1, <4>1, <4>2, <4>4
    <3>3. CASE n = m + 1
      BY <2>2, <3>1, <3>3
    <3>4. CASE n > m + 1
      <4>1. ~(n <= m + 1)
        BY <3>4
      <4> QED BY <3>1, <4>1
    <3> QED BY <3>2, <3>3, <3>4
  <2>5. 0..N \subseteq T
    <3> HIDE DEF T
    <3> QED BY <1>1, <2>3, <2>4, IntervalInduction
  <2>6. N \in T /\ n <= N
    BY <1>1, <2>5
  <2> QED BY <1>4, <2>6 DEF k
<1>10. Placed(e, word, x)
  BY <1>7, <1>8, <1>9 DEF Placed, N
<1>11. x \in Seq(0..247)
  BY <1>1, <1>4, <1>5
<1> QED BY <1>10, <1>11 DEF x

(* Each character ends later than the one before it, and within the word. *)
LEMMA PlacedGrows ==
  ASSUME NEW word \in Seq(Chars), NEW x, NEW e, Placed(e, word, x)
  PROVE  /\ \A n \in 0..Len(word) : e[n] \in 0..Len(x) /\ e[n] \in Nat
         /\ \A n \in 1..Len(word) : e[n - 1] < e[n] /\ e[n] = e[n - 1] + Len(Bytes[word[n]])
                                   /\ n - 1 \in 0..Len(word)
         /\ Len(x) \in Nat
<1> DEFINE d == Sizes(word)
<1>1. /\ Len(word) \in Nat /\ d \in Seq(Nat) /\ Len(d) = Len(word)
      /\ \A n \in 1..Len(word) : d[n] = Len(Bytes[word[n]]) /\ d[n] \in Nat \ {0}
  BY SizesFacts
<1>2. Adds(e, d) /\ e[Len(word)] = Len(x)
  BY DEF Placed
<1> HIDE DEF d
<1>3. \A n \in 0..Len(word) : e[n] \in Nat
  BY <1>1, <1>2 DEF Adds
<1>4. Len(word) \in 0..Len(word)
  BY <1>1
<1>5. ASSUME NEW n \in 0..Len(word) PROVE e[n] \in 0..Len(x)
  <2>1. e[n] <= e[Len(word)]
    BY <1>1, <1>2, <1>4, AddsGrow
  <2> QED BY <1>2, <1>3, <1>4, <2>1
<1>6. ASSUME NEW n \in 1..Len(word)
      PROVE  e[n - 1] < e[n] /\ e[n] = e[n - 1] + Len(Bytes[word[n]]) /\ n - 1 \in 0..Len(word)
  <2>1. n - 1 \in 0..Len(word)
    BY <1>1
  <2>2. e[n] = e[n - 1] + d[n]
    BY <1>1, <1>2 DEF Adds
  <2>3. d[n] = Len(Bytes[word[n]]) /\ d[n] \in Nat \ {0} /\ e[n - 1] \in Nat
    BY <1>1, <1>3, <2>1
  <2> QED BY <2>1, <2>2, <2>3
<1> QED BY <1>2, <1>3, <1>4, <1>5, <1>6

LEMMA SameSeq ==
  ASSUME NEW S, NEW s \in Seq(S), NEW t \in Seq(S), Len(s) = Len(t),
         \A j \in 1..Len(s) : s[j] = t[j]
  PROVE  s = t
OBVIOUS

(* The first byte of a character tells how many it has. *)
LEMMA SameBytes ==
  ASSUME NEW c \in Chars, NEW d \in Chars, Bytes[c][1] = Bytes[d][1]
  PROVE  /\ Len(Bytes[c]) = Len(Bytes[d])
         /\ (\A j \in 1..Len(Bytes[c]) : Bytes[c][j] = Bytes[d][j]) => c = d
<1>1. Len(Bytes[c]) = Len(Bytes[d])
  BY CharFacts
<1>2. ASSUME \A j \in 1..Len(Bytes[c]) : Bytes[c][j] = Bytes[d][j] PROVE c = d
  <2>1. Bytes[c] \in Seq(0..247) /\ Bytes[d] \in Seq(0..247)
    BY CharFacts
  <2>2. Bytes[c] = Bytes[d]
    BY <1>1, <1>2, <2>1
  <2> QED BY <2>2, BytesAssumption DEF IsInjective, Chars
<1> QED BY <1>1, <1>2

(* A word begins with the bytes of a character only if it begins with it. *)
LEMMA BeginsWith ==
  ASSUME NEW word \in Seq(Chars), word # <<>>, NEW c \in Chars
  PROVE  IsPrefix(Bytes[c], Encoded(word)) <=> word[1] = c
<1> DEFINE x == Encoded(word)
           L == Len(Bytes[c])
<1>1. PICK e : Placed(e, word, x) /\ x \in Seq(0..247)
  BY EncodedIsPlaced
<1> HIDE DEF x
<1>2. Len(word) \in Nat \ {0} /\ word[1] \in Chars
  BY EmptySeq, LenProperties, ElementOfSeq
<1> DEFINE M == Len(Bytes[word[1]])
<1>3. L \in Nat \ {0} /\ M \in Nat \ {0} /\ Len(x) \in Nat
      /\ Bytes[c] \in Seq(0..247) /\ Bytes[word[1]] \in Seq(0..247)
  BY <1>1, <1>2, CharFacts, LenProperties
<1>4. M <= Len(x) /\ \A j \in 1..M : x[j] = Bytes[word[1]][j]
  <2> DEFINE n == 1
  <2>1. n \in 1..Len(word) /\ n - 1 = 0
    BY <1>2
  <2> HIDE DEF n
  <2>2. e[0] = 0 /\ e[n] = e[n - 1] + Len(Bytes[word[n]]) /\ e[n] \in 0..Len(x)
    <3>1. e[0] = 0
      BY <1>1 DEF Placed, Adds
    <3>2. n \in 0..Len(word)
      BY <1>2, <2>1
    <3> QED BY <1>1, <2>1, <3>1, <3>2, PlacedGrows
  <2>3. \A j \in 1..Len(Bytes[word[n]]) : x[0 + j] = Bytes[word[n]][j]
    BY <1>1, <2>1, <2>2 DEF Placed
  <2>4. n = 1
    BY DEF n
  <2>5. \A j \in 1..M : x[0 + j] = Bytes[word[1]][j]
    BY <2>3, <2>4
  <2>6. e[n] = 0 + M
    BY <2>1, <2>2, <2>4
  <2>7. M <= Len(x)
    BY <1>3, <2>2, <2>6
  <2>8. \A j \in 1..M : 0 + j = j
    BY <1>3
  <2> QED BY <2>5, <2>7, <2>8
<1>5. IsPrefix(Bytes[c], x) <=> L <= Len(x) /\ \A j \in 1..L : x[j] = Bytes[c][j]
  <2>1. SubSeq(Bytes[c], 1, L) = Bytes[c]
    BY <1>3, WholeSeq
  <2>2. ASSUME L <= Len(x)
        PROVE  SubSeq(x, 1, L) = Bytes[c] <=> \A j \in 1..L : x[j] = Bytes[c][j]
    <3>1. L \in 0..Len(x)
      BY <1>3, <2>2
    <3> HIDE DEF L
    <3>2. /\ SubSeq(x, 1, L) \in Seq(0..247) /\ Len(SubSeq(x, 1, L)) = L
          /\ \A j \in 1..L : SubSeq(x, 1, L)[j] = x[j]
      BY <1>1, <3>1, PrefixOfSeq
    <3> DEFINE u == SubSeq(x, 1, L)
    <3> HIDE DEF u
    <3>3. u = Bytes[c] <=> \A j \in 1..L : u[j] = Bytes[c][j]
      <4>1. u \in Seq(0..247) /\ Len(u) = L
        BY <3>2 DEF u
      <4>2. L = Len(Bytes[c])
        BY DEF L
      <4>3. (\A j \in 1..L : u[j] = Bytes[c][j]) => u = Bytes[c]
        BY <1>3, <4>1, <4>2, SameSeq
      <4> QED BY <4>3
    <3> QED BY <3>2, <3>3 DEF u
  <2> QED BY <2>1, <2>2 DEF IsPrefix
<1> HIDE DEF L, M
<1>6. ASSUME L <= Len(x), \A j \in 1..L : x[j] = Bytes[c][j] PROVE word[1] = c
  <2>1. 1 \in 1..L /\ 1 \in 1..M
    BY <1>3
  <2>2. Bytes[word[1]][1] = Bytes[c][1]
    BY <1>4, <1>6, <2>1
  <2>3. L = M
    BY <1>2, <2>2, SameBytes DEF L, M
  <2>4. \A j \in 1..Len(Bytes[c]) : Bytes[c][j] = Bytes[word[1]][j]
    BY <1>4, <1>6, <2>3 DEF L
  <2> QED BY <1>2, <2>2, <2>4, SameBytes
<1>7. word[1] = c => L <= Len(x) /\ \A j \in 1..L : x[j] = Bytes[c][j]
  BY <1>4 DEF L, M
<1> QED BY <1>5, <1>6, <1>7 DEF x

(* Words are told apart by their bytes. *)
LEMMA EncodedApart ==
  ASSUME NEW v \in Seq(Chars), NEW w \in Seq(Chars), Encoded(v) = Encoded(w)
  PROVE  v = w
<1> DEFINE x == Encoded(v)
<1>1. PICK a : Placed(a, v, x)
  BY EncodedIsPlaced
<1>2. PICK b : Placed(b, w, x)
  BY EncodedIsPlaced
<1> HIDE DEF x
<1>3. Len(v) \in Nat /\ Len(w) \in Nat
      /\ (\A n \in 1..Len(v) : v[n] \in Chars) /\ (\A n \in 1..Len(w) : w[n] \in Chars)
  BY SizesFacts
<1>4. a[0] = 0 /\ b[0] = 0 /\ a[Len(v)] = Len(x) /\ b[Len(w)] = Len(x)
  BY <1>1, <1>2 DEF Placed, Adds
<1>5. /\ \A n \in 0..Len(v) : a[n] \in 0..Len(x) /\ a[n] \in Nat
      /\ \A n \in 1..Len(v) : a[n - 1] < a[n] /\ a[n] = a[n - 1] + Len(Bytes[v[n]])
      /\ \A n \in 0..Len(w) : b[n] \in 0..Len(x) /\ b[n] \in Nat
      /\ \A n \in 1..Len(w) : b[n - 1] < b[n] /\ b[n] = b[n - 1] + Len(Bytes[w[n]])
  BY <1>1, <1>2, PlacedGrows
<1> DEFINE T == {k \in 0..Len(v) : k <= Len(w) /\ a[k] = b[k] /\ \A n \in 1..k : v[n] = w[n]}
<1>6. 0 \in T
  BY <1>3, <1>4
<1>7. ASSUME NEW k \in 0..(Len(v) - 1), k \in T PROVE k + 1 \in T
  <2>1. k + 1 \in 1..Len(v) /\ (k + 1) - 1 = k /\ k \in 0..Len(v) /\ k + 1 \in 0..Len(v)
    BY <1>3
  <2>2. k <= Len(w) /\ a[k] = b[k] /\ \A n \in 1..k : v[n] = w[n]
    BY <1>7
  <2>3. k # Len(w)
    <3>1. a[k] < a[k + 1] /\ a[k + 1] \in 0..Len(x) /\ a[k] \in Nat
      BY <1>5, <2>1
    <3>2. a[k] # Len(x)
      BY <3>1
    <3> QED BY <1>4, <2>2, <3>2
  <2>4. k + 1 \in 1..Len(w) /\ k + 1 <= Len(w)
    BY <1>3, <2>2, <2>3
  <2> DEFINE c == v[k + 1]
             d == w[k + 1]
             p == a[k]
  <2>5. c \in Chars /\ d \in Chars
    BY <1>3, <2>1, <2>4
  <2>6. /\ \A j \in 1..Len(Bytes[c]) : x[p + j] = Bytes[c][j]
        /\ \A j \in 1..Len(Bytes[d]) : x[p + j] = Bytes[d][j]
    BY <1>1, <1>2, <2>1, <2>2, <2>4 DEF Placed
  <2> HIDE DEF c, d, p
  <2>7. 1 \in 1..Len(Bytes[c]) /\ 1 \in 1..Len(Bytes[d])
    BY <2>5, CharFacts
  <2>8. Bytes[c][1] = Bytes[d][1]
    BY <2>6, <2>7
  <2>9. Len(Bytes[c]) = Len(Bytes[d])
    BY <2>5, <2>8, SameBytes
  <2>10. c = d
    BY <2>5, <2>6, <2>8, <2>9, SameBytes
  <2>11. a[k + 1] = b[k + 1]
    BY <1>5, <2>1, <2>2, <2>4, <2>9 DEF c, d
  <2>12. \A n \in 1..(k + 1) : v[n] = w[n]
    <3>1. \A n \in 1..(k + 1) : n \in 1..k \/ n = k + 1
      BY <2>1
    <3> QED BY <2>2, <2>10, <3>1 DEF c, d
  <2> QED BY <2>1, <2>4, <2>11, <2>12
<1>8. 0..Len(v) \subseteq T
  <2> HIDE DEF T
  <2> QED BY <1>3, <1>6, <1>7, IntervalInduction
<1>9. Len(v) <= Len(w) /\ a[Len(v)] = b[Len(v)] /\ \A n \in 1..Len(v) : v[n] = w[n]
  BY <1>3, <1>8
<1>10. Len(v) = Len(w)
  <2> SUFFICES ASSUME Len(v) # Len(w) PROVE FALSE
    OBVIOUS
  <2> DEFINE n == Len(v) + 1
  <2>1. n \in 1..Len(w) /\ n \in 0..Len(w) /\ n - 1 = Len(v) /\ Len(v) \in 0..Len(w)
    BY <1>3, <1>9
  <2> HIDE DEF n
  <2>2. b[n - 1] < b[n] /\ b[n] \in 0..Len(x)
    BY <1>5, <2>1
  <2>3. b[n - 1] = Len(x) /\ b[n - 1] \in Nat
    BY <1>4, <1>5, <1>9, <2>1
  <2> QED BY <2>2, <2>3
<1> QED BY <1>3, <1>9, <1>10

-------------------------------------------------------------------------------
(* Dictionary: from character to character to the last one. *)

WalkStep(f, str, n) ==
  IF n + NBytesCode(str[n]) > Len(str) THEN SubSeq(str, n, Len(str))
  ELSE f[n + NBytesCode(str[n])]
Walk(f, str) == [n \in 1..Len(str) |-> WalkStep(f, str, n)]

LEMMA NBytesPositive == \A byte : NBytesCode(byte) \in 1..4
BY DEF NBytesCode

LEMMA WalkExists ==
  ASSUME NEW str \in Seq(0..247)
  PROVE  \E f : f = Walk(f, str)
<1> DEFINE L == Len(str)
           T == {k \in 0..L : \E f : \A n \in (L - k + 1)..L : f[n] = WalkStep(f, str, n)}
<1>0. L \in Nat
  BY LenProperties
<1> HIDE DEF L
<1>1. 0 \in T
  BY <1>0
<1>2. ASSUME NEW k \in 0..(L - 1), k \in T PROVE k + 1 \in T
  <2>1. PICK f : \A n \in (L - k + 1)..L : f[n] = WalkStep(f, str, n)
    BY <1>2
  <2> DEFINE h == [n \in 1..L |-> IF n = L - k THEN WalkStep(f, str, n) ELSE f[n]]
  <2>2. \A n \in (L - k + 1)..L : n \in 1..L /\ n # L - k
    BY <1>0
  <2>3. \A n \in (L - k + 1)..L : h[n] = f[n]
    BY <2>2
  <2>4. L - k \in 1..L
    BY <1>0
  <2>5. h[L - k] = WalkStep(f, str, L - k)
    BY <2>4
  <2> HIDE DEF h
  <2>6. ASSUME NEW n \in (L - k)..L PROVE WalkStep(h, str, n) = WalkStep(f, str, n)
    <3> DEFINE m == n + NBytesCode(str[n])
    <3>1. NBytesCode(str[n]) \in 1..4
      BY NBytesPositive
    <3>2. CASE m > Len(str)
      BY <3>2 DEF WalkStep
    <3>3. CASE ~(m > Len(str))
      <4>1. m \in (L - k + 1)..L
        BY <1>0, <3>1, <3>3 DEF L
      <4> QED BY <2>3, <3>3, <4>1 DEF WalkStep
    <3> QED BY <3>2, <3>3
  <2>7. \A n \in (L - (k + 1) + 1)..L : n \in (L - k)..L /\ (n = L - k \/ n \in (L - k + 1)..L)
    BY <1>0
  <2>8. \A n \in (L - (k + 1) + 1)..L : h[n] = WalkStep(h, str, n)
    BY <2>1, <2>3, <2>5, <2>6, <2>7
  <2>9. k + 1 \in 0..L
    BY <1>0
  <2> QED BY <2>8, <2>9
<1>3. 0..L \subseteq T
  <2> HIDE DEF T
  <2> QED BY <1>0, <1>1, <1>2, IntervalInduction
<1>4. L \in T /\ L - L + 1 = 1
  <2>1. L \in 0..L /\ L - L + 1 = 1
    BY <1>0
  <2> HIDE DEF T
  <2> QED BY <1>3, <2>1
<1>5. PICK f : \A n \in (L - L + 1)..L : f[n] = WalkStep(f, str, n)
  BY <1>4
<1>6. \A n \in 1..L : f[n] = WalkStep(f, str, n)
  BY <1>4, <1>5
<1> DEFINE h == [n \in 1..L |-> f[n]]
<1>7. ASSUME NEW n \in 1..L PROVE WalkStep(h, str, n) = WalkStep(f, str, n)
  <2> DEFINE m == n + NBytesCode(str[n])
  <2>1. NBytesCode(str[n]) \in 1..4
    BY NBytesPositive
  <2>2. CASE m > Len(str)
    BY <2>2 DEF WalkStep
  <2>3. CASE ~(m > Len(str))
    <3>1. m \in 1..L
      BY <1>0, <2>1, <2>3 DEF L
    <3> QED BY <2>3, <3>1 DEF WalkStep
  <2> QED BY <2>2, <2>3
<1>8. h = Walk(h, str)
  <2>1. \A n \in 1..L : h[n] = WalkStep(h, str, n)
    BY <1>6, <1>7
  <2>2. h = [n \in 1..L |-> h[n]]
    OBVIOUS
  <2> HIDE DEF h
  <2> QED BY <2>1, <2>2 DEF Walk, L
<1> HIDE DEF h
<1> QED BY <1>8

LEMMA LastChWalks ==
  ASSUME NEW str, str # <<>>
  PROVE  LastCh(str) = (CHOOSE f : f = Walk(f, str))[1]
BY DEF LastCh, Walk, WalkStep

(* getSolitaireKeys finds the bytes of the last character. *)
LEMMA LastChIsLast ==
  ASSUME NEW word \in Seq(Chars), word # <<>>
  PROVE  LastCh(Encoded(word)) = Bytes[Last(word)]
<1> DEFINE x == Encoded(word)
           N == Len(word)
           last == word[N]
           f == CHOOSE g : g = Walk(g, x)
<1>0. N \in Nat \ {0} /\ \A n \in 1..N : word[n] \in Chars
  BY EmptySeq, SizesFacts
<1>1. PICK e : Placed(e, word, x) /\ x \in Seq(0..247)
  BY EncodedIsPlaced
<1>2. f = Walk(f, x)
  BY <1>1, WalkExists
<1> HIDE DEF f, x
<1>3. /\ \A n \in 0..N : e[n] \in 0..Len(x) /\ e[n] \in Nat
      /\ \A n \in 1..N : e[n - 1] < e[n] /\ e[n] = e[n - 1] + Len(Bytes[word[n]])
                         /\ n - 1 \in 0..N
      /\ Len(x) \in Nat /\ e[0] = 0 /\ e[N] = Len(x)
  BY <1>1, PlacedGrows DEF Placed, Adds
<1>4. ASSUME NEW n \in 1..N
      PROVE  /\ e[n - 1] + 1 \in 1..Len(x)
             /\ (e[n - 1] + 1) + NBytesCode(x[e[n - 1] + 1]) = e[n] + 1
  <2> DEFINE c == word[n]
             p == e[n - 1]
             M == Len(Bytes[c])
  <2>1. c \in Chars /\ M \in Nat \ {0} /\ M = NBytesCode(Bytes[c][1])
    BY <1>0, CharFacts
  <2>2. p \in Nat /\ e[n] = p + M /\ n \in 0..N
    BY <1>0, <1>3
  <2>3. e[n] \in 0..Len(x)
    BY <1>3, <2>2
  <2>4. \A j \in 1..M : x[p + j] = Bytes[c][j]
    BY <1>1 DEF Placed
  <2> HIDE DEF c, p, M
  <2>5. 1 \in 1..M
    BY <2>1
  <2>6. x[p + 1] = Bytes[c][1]
    BY <2>4, <2>5
  <2>7. NBytesCode(x[p + 1]) = M
    BY <2>1, <2>6
  <2>8. p + 1 \in 1..Len(x) /\ (p + 1) + M = e[n] + 1
    BY <1>3, <2>1, <2>2, <2>3
  <2> QED BY <2>7, <2>8 DEF p
<1>5. ASSUME NEW n \in 1..N
      PROVE  f[e[n - 1] + 1] =
               IF e[n] + 1 > Len(x) THEN SubSeq(x, e[n - 1] + 1, Len(x)) ELSE f[e[n] + 1]
  <2> DEFINE q == e[n - 1] + 1
  <2>1. q \in 1..Len(x) /\ q + NBytesCode(x[q]) = e[n] + 1
    BY <1>4
  <2> HIDE DEF q
  <2>2. f[q] = WalkStep(f, x, q)
    BY <1>2, <2>1 DEF Walk
  <2> QED BY <2>1, <2>2 DEF WalkStep, q
<1>6. f[e[N - 1] + 1] = Bytes[last]
  <2> DEFINE p == e[N - 1]
             M == Len(Bytes[last])
  <2>1. N \in 1..N /\ N \in 0..N
    BY <1>0
  <2>2. p \in Nat /\ Len(x) = p + M /\ M \in Nat \ {0} /\ Bytes[last] \in Seq(0..247)
    BY <1>0, <1>3, <2>1, CharFacts
  <2>3. \A j \in 1..M : x[p + j] = Bytes[last][j]
    BY <1>1, <2>1 DEF Placed
  <2>4. f[p + 1] = SubSeq(x, p + 1, Len(x))
    <3>1. Len(x) + 1 > Len(x)
      BY <1>3
    <3> QED BY <1>3, <1>5, <2>1, <3>1
  <2> HIDE DEF p, M, last
  <2> DEFINE u == SubSeq(x, p + 1, Len(x))
  <2>5. u \in Seq(0..247) /\ Len(u) = M /\ \A j \in 1..M : u[j] = x[p + j]
    <3>1. \A k \in (p + 1)..Len(x) : x[k] \in 0..247
      <4>1. \A k \in (p + 1)..Len(x) : k \in 1..Len(x)
        BY <2>2
      <4> QED BY <1>1, <4>1, ElementOfSeq
    <3>2. /\ u \in Seq(0..247)
          /\ Len(u) = IF p + 1 <= Len(x) THEN Len(x) - (p + 1) + 1 ELSE 0
          /\ \A j \in 1..(Len(x) - (p + 1) + 1) : u[j] = x[(p + 1) + j - 1]
      <4>1. p + 1 \in Int /\ Len(x) \in Int
        BY <1>3, <2>2
      <4> QED BY <3>1, <4>1, SubSeqProperties
    <3> HIDE DEF u
    <3>3. Len(x) - (p + 1) + 1 = M /\ p + 1 <= Len(x)
      BY <1>3, <2>2
    <3>4. \A j \in 1..M : (p + 1) + j - 1 = p + j
      BY <2>2
    <3> QED BY <3>2, <3>3, <3>4
  <2> HIDE DEF u
  <2>6. u = Bytes[last]
    <3>1. Len(u) = Len(Bytes[last])
      BY <2>5 DEF M
    <3>2. \A j \in 1..Len(u) : u[j] = Bytes[last][j]
      BY <2>3, <2>5
    <3> QED BY <2>2, <2>5, <3>1, <3>2, SameSeq
  <2> QED BY <2>4, <2>6 DEF u, p
<1> DEFINE T == {k \in 0..(N - 1) : f[e[N - 1 - k] + 1] = Bytes[last]}
<1>7. 0 \in T
  <2>1. N - 1 - 0 = N - 1
    BY <1>0
  <2> QED BY <1>0, <1>6, <2>1
<1>8. ASSUME NEW k \in 0..((N - 1) - 1), k \in T PROVE k + 1 \in T
  <2> DEFINE n == N - 1 - k
  <2>1. n \in 1..N /\ n # N /\ n + 1 \in 1..N /\ N - 1 - (k + 1) = n - 1 /\ (n + 1) - 1 = n
        /\ n \in 0..N /\ n + 1 \in 0..N
    BY <1>0
  <2>2. f[e[n] + 1] = Bytes[last]
    BY <1>8
  <2> HIDE DEF n
  <2>3. ~(e[n] + 1 > Len(x))
    <3>1. e[n] < e[n + 1] /\ e[n + 1] \in 0..Len(x) /\ e[n] \in Nat
      BY <1>3, <2>1
    <3> QED BY <1>3, <3>1
  <2>4. f[e[n - 1] + 1] = Bytes[last]
    BY <1>5, <2>1, <2>2, <2>3
  <2>5. k + 1 \in 0..(N - 1)
    BY <1>0
  <2> QED BY <2>1, <2>4, <2>5
<1>9. 0..(N - 1) \subseteq T
  <2>1. N - 1 \in Nat
    BY <1>0
  <2> HIDE DEF T
  <2> QED BY <1>7, <1>8, <2>1, IntervalInduction
<1>10. f[1] = Bytes[last]
  <2>1. N - 1 \in T /\ N - 1 - (N - 1) = 0
    <3>1. N - 1 \in 0..(N - 1) /\ N - 1 - (N - 1) = 0
      BY <1>0
    <3> HIDE DEF T
    <3> QED BY <1>9, <3>1
  <2>2. f[e[N - 1 - (N - 1)] + 1] = Bytes[last]
    BY <2>1
  <2>3. e[0] + 1 = 1
    BY <1>3
  <2> QED BY <2>1, <2>2, <2>3
<1>11. x # <<>>
  <2>1. N \in 1..N /\ N \in 0..N
    BY <1>0
  <2>2. e[N] > 0
    BY <1>0, <1>3, <2>1
  <2> QED BY <1>3, <2>2
<1> QED BY <1>10, <1>11, LastChWalks DEF x, f, Last

-------------------------------------------------------------------------------
(* Dictionary: the order of words, which is that of their bytes. *)

(* The bytes, and after them what is less than any byte. *)
Endless(x) == [k \in Nat \ {0} |-> IF k <= Len(x) THEN x[k] ELSE -1]
FirstLess(a, b) == \E n \in Nat \ {0} : a[n] < b[n] /\ \A k \in 1..(n - 1) : a[k] = b[k]

LEMMA EndlessFacts ==
  ASSUME NEW x \in Seq(0..247)
  PROVE  /\ Len(x) \in Nat
         /\ \A k \in 1..Len(x) : Endless(x)[k] = x[k] /\ x[k] \in 0..247
         /\ \A k \in Nat \ {0} : Endless(x)[k] \in Int /\ (k > Len(x) => Endless(x)[k] = -1)
<1>1. Len(x) \in Nat /\ \A k \in 1..Len(x) : x[k] \in 0..247
  BY LenProperties, ElementOfSeq
<1>2. ASSUME NEW k \in 1..Len(x) PROVE Endless(x)[k] = x[k]
  BY <1>1 DEF Endless
<1>3. ASSUME NEW k \in Nat \ {0}, k > Len(x) PROVE Endless(x)[k] = -1
  <2>1. ~(k <= Len(x))
    BY <1>1, <1>3
  <2> QED BY <2>1 DEF Endless
<1>4. ASSUME NEW k \in Nat \ {0} PROVE Endless(x)[k] \in Int
  <2>1. k \in 1..Len(x) \/ k > Len(x)
    BY <1>1
  <2>2. ASSUME k \in 1..Len(x) PROVE Endless(x)[k] \in Int
    <3>1. Endless(x)[k] = x[k] /\ x[k] \in 0..247
      BY <1>1, <1>2, <2>2
    <3>2. x[k] \in Int
      BY <3>1
    <3> QED BY <3>1, <3>2
  <2>3. ASSUME k > Len(x) PROVE Endless(x)[k] \in Int
    <3>1. Endless(x)[k] = -1
      BY <1>3, <2>3
    <3>2. -1 \in Int
      OBVIOUS
    <3> QED BY <3>1, <3>2
  <2> QED BY <2>1, <2>2, <2>3
<1> QED BY <1>1, <1>2, <1>3, <1>4

LEMMA SamePrefix ==
  ASSUME NEW x \in Seq(0..247), NEW y \in Seq(0..247), NEW n \in Nat, n <= Len(x), n <= Len(y)
  PROVE  SubSeq(x, 1, n) = SubSeq(y, 1, n) <=> \A k \in 1..n : x[k] = y[k]
<1>1. n \in 0..Len(x) /\ n \in 0..Len(y)
  BY LenProperties
<1> DEFINE s == SubSeq(x, 1, n)
           t == SubSeq(y, 1, n)
<1>2. /\ s \in Seq(0..247) /\ Len(s) = n /\ \A k \in 1..n : s[k] = x[k]
      /\ t \in Seq(0..247) /\ Len(t) = n /\ \A k \in 1..n : t[k] = y[k]
  BY <1>1, PrefixOfSeq
<1> HIDE DEF s, t
<1>3. ASSUME \A k \in 1..n : x[k] = y[k] PROVE s = t
  BY <1>2, <1>3, SameSeq
<1>4. ASSUME s = t PROVE \A k \in 1..n : x[k] = y[k]
  BY <1>2, <1>4
<1> QED BY <1>3, <1>4 DEF s, t

LEMMA BeforeIsFirstLess ==
  ASSUME NEW v \in Seq(Chars), NEW w \in Seq(Chars)
  PROVE  Before(v, w) <=> FirstLess(Endless(Encoded(v)), Endless(Encoded(w)))
<1> DEFINE x == Encoded(v)
           y == Encoded(w)
           a == Endless(x)
           b == Endless(y)
<1>1. x \in Seq(0..247) /\ y \in Seq(0..247)
  BY EncodedIsPlaced
<1>2. Before(v, w) <=> \/ IsStrictPrefix(x, y)
                       \/ \E n \in DOMAIN x \cap DOMAIN y :
                             x[n] < y[n] /\ SubSeq(x, 1, n - 1) = SubSeq(y, 1, n - 1)
  BY DEF Before
<1> HIDE DEF x, y
<1>3. DOMAIN x = 1..Len(x) /\ DOMAIN y = 1..Len(y) /\ Len(x) \in Nat /\ Len(y) \in Nat
  BY <1>1, LenProperties
<1>4. /\ \A k \in 1..Len(x) : a[k] = x[k] /\ x[k] \in 0..247
      /\ \A k \in Nat \ {0} : a[k] \in Int /\ (k > Len(x) => a[k] = -1)
      /\ \A k \in 1..Len(y) : b[k] = y[k] /\ y[k] \in 0..247
      /\ \A k \in Nat \ {0} : b[k] \in Int /\ (k > Len(y) => b[k] = -1)
  BY <1>1, EndlessFacts
<1> HIDE DEF a, b
<1>5. \A z \in 0..247 : z >= -1 /\ z \in Int
  OBVIOUS
<1>6. \A n \in 1..Len(x) : a[n] = x[n] /\ x[n] >= -1 /\ x[n] \in Int
  BY <1>4, <1>5
<1>7. \A n \in 1..Len(y) : b[n] = y[n] /\ y[n] >= -1 /\ y[n] \in Int
  BY <1>4, <1>5
<1>8. \A n \in DOMAIN x \cap DOMAIN y : x[n] < y[n] <=> a[n] < b[n]
  BY <1>3, <1>6, <1>7
<1>9. IsStrictPrefix(x, y) <=> Len(x) < Len(y) /\ \A k \in 1..Len(x) : x[k] = y[k]
  <2>1. IsPrefix(x, y) <=> (Len(x) <= Len(y) /\ \A k \in 1..Len(x) : x[k] = y[k])
    BY <1>1, <1>3, SamePrefix DEF IsPrefix
  <2>2. Len(x) = Len(y) /\ (\A k \in 1..Len(x) : x[k] = y[k]) => x = y
    BY <1>1, SameSeq
  <2>3. Len(x) < Len(y) => x # y
    BY <1>3
  <2>4. Len(x) <= Len(y) <=> (Len(x) < Len(y) \/ Len(x) = Len(y))
    <3>1. \A m, n \in Nat : m <= n <=> (m < n \/ m = n)
      OBVIOUS
    <3>2. Len(x) \in Nat /\ Len(y) \in Nat
      BY <1>3
    <3> QED BY <3>1, <3>2
  <2>5. x = y => ~(Len(x) < Len(y))
    BY <1>3
  <2> QED BY <2>1, <2>2, <2>4, <2>5 DEF IsStrictPrefix
<1>10. ASSUME NEW n \in 1..Len(x), n \in 1..Len(y)
      PROVE  SubSeq(x, 1, n - 1) = SubSeq(y, 1, n - 1) <=> \A k \in 1..(n - 1) : a[k] = b[k]
  <2>1. n - 1 \in Nat /\ n - 1 <= Len(x) /\ n - 1 <= Len(y)
    BY <1>3, <1>10
  <2>2. \A k \in 1..(n - 1) : a[k] = x[k] /\ b[k] = y[k]
    <3>1. \A k \in 1..(n - 1) : k \in 1..Len(x) /\ k \in 1..Len(y)
      BY <1>3, <1>10
    <3> QED BY <1>4, <3>1
  <2>3. SubSeq(x, 1, n - 1) = SubSeq(y, 1, n - 1) <=> \A k \in 1..(n - 1) : x[k] = y[k]
    BY <1>1, <2>1, SamePrefix
  <2> QED BY <2>2, <2>3
<1>11. ASSUME Len(x) < Len(y), \A k \in 1..Len(x) : x[k] = y[k] PROVE FirstLess(a, b)
  <2> DEFINE n == Len(x) + 1
  <2>1. n \in Nat \ {0} /\ n > Len(x) /\ n \in 1..Len(y) /\ n - 1 = Len(x)
    BY <1>3, <1>11
  <2> HIDE DEF n
  <2>2. a[n] = -1 /\ b[n] = y[n] /\ y[n] \in 0..247
    BY <1>4, <2>1
  <2>3. a[n] < b[n]
    <3>1. \A z \in 0..247 : -1 < z
      OBVIOUS
    <3>2. -1 < y[n]
      BY <2>2, <3>1
    <3> QED BY <2>2, <3>2
  <2>4. \A k \in 1..(n - 1) : a[k] = b[k]
    <3>1. \A k \in 1..Len(x) : k \in 1..Len(y)
      BY <1>3, <1>11
    <3> QED BY <1>4, <1>11, <2>1, <3>1
  <2> QED BY <2>1, <2>3, <2>4 DEF FirstLess
<1>12. ASSUME NEW n \in DOMAIN x \cap DOMAIN y, x[n] < y[n],
             SubSeq(x, 1, n - 1) = SubSeq(y, 1, n - 1)
      PROVE  FirstLess(a, b)
  <2>1. n \in 1..Len(x) /\ n \in 1..Len(y) /\ n \in Nat \ {0}
    BY <1>3
  <2>2. \A k \in 1..(n - 1) : a[k] = b[k]
    BY <1>10, <1>12, <2>1
  <2>3. a[n] < b[n]
    BY <1>8, <1>12
  <2> QED BY <2>1, <2>2, <2>3 DEF FirstLess
<1>13. ASSUME FirstLess(a, b)
      PROVE  \/ IsStrictPrefix(x, y)
             \/ \E n \in DOMAIN x \cap DOMAIN y :
                   x[n] < y[n] /\ SubSeq(x, 1, n - 1) = SubSeq(y, 1, n - 1)
  <2>1. PICK n \in Nat \ {0} : a[n] < b[n] /\ \A k \in 1..(n - 1) : a[k] = b[k]
    BY <1>13 DEF FirstLess
  <2>2. a[n] >= -1 /\ a[n] \in Int /\ b[n] \in Int
    <3>1. n \in 1..Len(x) \/ n > Len(x)
      BY <1>3
    <3>2. CASE n \in 1..Len(x)
      <4>1. a[n] = x[n] /\ x[n] >= -1 /\ x[n] \in Int
        BY <1>6, <3>2
      <4>2. b[n] \in Int
        BY <1>4
      <4> QED BY <4>1, <4>2
    <3>3. CASE n > Len(x)
      BY <1>4, <3>3
    <3> QED BY <3>1, <3>2, <3>3
  <2>3. n \in 1..Len(y)
    <3>1. b[n] # -1
      BY <2>1, <2>2
    <3>2. ~(n > Len(y))
      BY <1>4, <3>1
    <3> QED BY <1>3, <3>2
  <2>4. CASE n \in 1..Len(x)
    <3>1. x[n] < y[n]
      BY <1>3, <1>8, <2>1, <2>3, <2>4
    <3>2. SubSeq(x, 1, n - 1) = SubSeq(y, 1, n - 1)
      BY <1>10, <2>1, <2>3, <2>4
    <3>3. n \in DOMAIN x \cap DOMAIN y
      BY <1>3, <2>3, <2>4
    <3> QED BY <3>1, <3>2, <3>3
  <2>5. CASE n \notin 1..Len(x)
    <3>1. Len(x) < Len(y) /\ Len(x) <= n - 1
      BY <1>3, <2>3, <2>5
    <3>2. \A k \in 1..Len(x) : k \in 1..(n - 1) /\ k \in 1..Len(y)
      BY <1>3, <2>3, <3>1
    <3>3. \A k \in 1..Len(x) : x[k] = y[k]
      BY <1>4, <2>1, <3>2
    <3> QED BY <1>9, <3>1, <3>3
  <2> QED BY <2>4, <2>5
<1>14. Before(v, w) => FirstLess(a, b)
  BY <1>2, <1>9, <1>11, <1>12
<1>15. FirstLess(a, b) => Before(v, w)
  BY <1>2, <1>13
<1> QED BY <1>14, <1>15 DEF a, b, x, y

LEMMA FirstLessFacts ==
  ASSUME NEW a, NEW b, NEW c,
         \A k \in Nat \ {0} : a[k] \in Int /\ b[k] \in Int /\ c[k] \in Int
  PROVE  /\ ~FirstLess(a, a)
         /\ FirstLess(a, b) /\ FirstLess(b, c) => FirstLess(a, c)
         /\ FirstLess(a, b) \/ FirstLess(b, a) \/ \A k \in Nat \ {0} : a[k] = b[k]
<1>1. ~FirstLess(a, a)
  BY DEF FirstLess
<1>2. ASSUME FirstLess(a, b), FirstLess(b, c) PROVE FirstLess(a, c)
  <2>1. PICK m \in Nat \ {0} : a[m] < b[m] /\ \A k \in 1..(m - 1) : a[k] = b[k]
    BY <1>2 DEF FirstLess
  <2>2. PICK n \in Nat \ {0} : b[n] < c[n] /\ \A k \in 1..(n - 1) : b[k] = c[k]
    BY <1>2 DEF FirstLess
  <2>3. /\ a[m] \in Int /\ b[m] \in Int /\ c[m] \in Int
        /\ a[n] \in Int /\ b[n] \in Int /\ c[n] \in Int
    OBVIOUS
  <2>4. CASE m < n
    <3>1. m \in 1..(n - 1) /\ \A k \in 1..(m - 1) : k \in 1..(n - 1)
      BY <2>4
    <3>2. b[m] = c[m]
      BY <2>2, <3>1
    <3>3. a[m] < c[m] /\ \A k \in 1..(m - 1) : a[k] = c[k]
      BY <2>1, <2>2, <2>3, <3>1, <3>2
    <3> QED BY <3>3 DEF FirstLess
  <2>5. CASE n < m
    <3>1. n \in 1..(m - 1) /\ \A k \in 1..(n - 1) : k \in 1..(m - 1)
      BY <2>5
    <3>2. a[n] = b[n]
      BY <2>1, <3>1
    <3>3. a[n] < c[n] /\ \A k \in 1..(n - 1) : a[k] = c[k]
      BY <2>1, <2>2, <2>3, <3>1, <3>2
    <3> QED BY <3>3 DEF FirstLess
  <2>6. CASE m = n
    <3>1. a[m] < c[m]
      BY <2>1, <2>2, <2>3, <2>6
    <3>2. \A k \in 1..(m - 1) : a[k] = c[k]
      BY <2>1, <2>2, <2>6
    <3> QED BY <3>1, <3>2 DEF FirstLess
  <2> QED BY <2>4, <2>5, <2>6
<1>3. ASSUME NEW i0 \in Nat \ {0}, a[i0] # b[i0] PROVE FirstLess(a, b) \/ FirstLess(b, a)
  <2> DEFINE T == {k \in Nat \ {0} : a[k] # b[k]}
  <2>1. T \subseteq Nat /\ T # {}
    BY <1>3
  <2>2. PICK n \in T : \A k \in T : n <= k
    BY <2>1, NatMinimum
  <2>3. n \in Nat \ {0} /\ a[n] # b[n] /\ a[n] \in Int /\ b[n] \in Int
    OBVIOUS
  <2>4. \A k \in 1..(n - 1) : a[k] = b[k]
    <3> SUFFICES ASSUME NEW k \in 1..(n - 1), a[k] # b[k] PROVE FALSE
      OBVIOUS
    <3>1. k \in T /\ ~(n <= k)
      BY <2>3
    <3> HIDE DEF T
    <3> QED BY <2>2, <3>1
  <2>5. a[n] < b[n] \/ b[n] < a[n]
    BY <2>3
  <2> HIDE DEF T
  <2> QED BY <2>3, <2>4, <2>5 DEF FirstLess
<1> QED BY <1>1, <1>2, <1>3

LEMMA EndlessApart ==
  ASSUME NEW x \in Seq(0..247), NEW y \in Seq(0..247),
         \A k \in Nat \ {0} : Endless(x)[k] = Endless(y)[k]
  PROVE  x = y
<1> DEFINE a == Endless(x)
           b == Endless(y)
<1>1. /\ Len(x) \in Nat /\ Len(y) \in Nat
      /\ \A k \in 1..Len(x) : a[k] = x[k] /\ x[k] \in 0..247
      /\ \A k \in Nat \ {0} : k > Len(x) => a[k] = -1
      /\ \A k \in 1..Len(y) : b[k] = y[k] /\ y[k] \in 0..247
      /\ \A k \in Nat \ {0} : k > Len(y) => b[k] = -1
  BY EndlessFacts
<1>2. \A k \in Nat \ {0} : a[k] = b[k]
  OBVIOUS
<1> HIDE DEF a, b
<1>3. ~(Len(x) < Len(y))
  <2> SUFFICES ASSUME Len(x) < Len(y) PROVE FALSE
    OBVIOUS
  <2> DEFINE n == Len(y)
  <2>1. n \in Nat \ {0} /\ n > Len(x) /\ n \in 1..Len(y)
    BY <1>1
  <2> HIDE DEF n
  <2>2. a[n] = -1 /\ b[n] \in 0..247
    BY <1>1, <2>1
  <2>3. a[n] = b[n]
    BY <1>2, <2>1
  <2>4. -1 \notin 0..247
    OBVIOUS
  <2> QED BY <2>2, <2>3, <2>4
<1>4. ~(Len(y) < Len(x))
  <2> SUFFICES ASSUME Len(y) < Len(x) PROVE FALSE
    OBVIOUS
  <2> DEFINE n == Len(x)
  <2>1. n \in Nat \ {0} /\ n > Len(y) /\ n \in 1..Len(x)
    BY <1>1
  <2> HIDE DEF n
  <2>2. b[n] = -1 /\ a[n] \in 0..247
    BY <1>1, <2>1
  <2>3. a[n] = b[n]
    BY <1>2, <2>1
  <2>4. -1 \notin 0..247
    OBVIOUS
  <2> QED BY <2>2, <2>3, <2>4
<1>5. Len(x) = Len(y)
  BY <1>1, <1>3, <1>4
<1>6. \A k \in 1..Len(x) : x[k] = y[k]
  <2>1. \A k \in 1..Len(x) : k \in Nat \ {0} /\ k \in 1..Len(y)
    BY <1>1, <1>5
  <2> QED BY <1>1, <1>2, <2>1
<1> QED BY <1>5, <1>6, SameSeq

(* The words of any finite set, each once and in order. *)
LEMMA SortedFacts ==
  ASSUME NEW S, IsFiniteSet(S), S \subseteq Seq(Chars)
  PROVE  /\ Sorted(S) \in [1..Cardinality(S) -> S]
         /\ IsInjective(Sorted(S)) /\ Range(Sorted(S)) = S
         /\ \A m, n \in 1..Cardinality(S) : m < n => Before(Sorted(S)[m], Sorted(S)[n])
<1> DEFINE R == {p \in S \X S : Before(p[1], p[2])}
           E(w) == Endless(Encoded(w))
<1>1. \A v, w \in S : <<v, w>> \in R <=> Before(v, w)
  OBVIOUS
<1>2. \A v, w \in S : Before(v, w) <=> FirstLess(E(v), E(w))
  BY BeforeIsFirstLess
<1>3. \A w \in S : Encoded(w) \in Seq(0..247) /\ \A k \in Nat \ {0} : E(w)[k] \in Int
  BY EncodedIsPlaced, EndlessFacts
<1>4. ASSUME NEW v \in S, NEW w \in S, \A k \in Nat \ {0} : E(v)[k] = E(w)[k] PROVE v = w
  <2>1. Encoded(v) = Encoded(w)
    BY <1>3, <1>4, EndlessApart
  <2> QED BY <2>1, EncodedApart
<1> HIDE DEF R, E
<1>5. IsOrder(R, S)
  <2>1. \A v \in S : <<v, v>> \notin R
    BY <1>1, <1>2, <1>3, FirstLessFacts
  <2>2. ASSUME NEW v \in S, NEW w \in S, v # w PROVE <<v, w>> \in R \/ <<w, v>> \in R
    <3>1. FirstLess(E(v), E(w)) \/ FirstLess(E(w), E(v)) \/ \A k \in Nat \ {0} : E(v)[k] = E(w)[k]
      BY <1>3, FirstLessFacts
    <3> QED BY <1>1, <1>2, <1>4, <2>2, <3>1
  <2>3. ASSUME NEW u \in S, NEW v \in S, NEW w \in S, <<u, v>> \in R, <<v, w>> \in R
        PROVE  <<u, w>> \in R
    <3>1. FirstLess(E(u), E(v)) /\ FirstLess(E(v), E(w))
      BY <1>1, <1>2, <2>3
    <3>2. FirstLess(E(u), E(w))
      BY <1>3, <3>1, FirstLessFacts
    <3> QED BY <1>1, <1>2, <3>2
  <2> QED BY <2>1, <2>2, <2>3 DEF IsOrder
<1>6. \A s \in [1..Cardinality(S) -> S] :
         InOrderOf(s, R) <=> \A m, n \in DOMAIN s : m < n => Before(s[m], s[n])
  BY <1>1 DEF InOrderOf
<1>7. \E s \in [1..Cardinality(S) -> S] : \A m, n \in DOMAIN s : m < n => Before(s[m], s[n])
  BY <1>5, <1>6, SortExists
<1>8. /\ Sorted(S) \in [1..Cardinality(S) -> S]
      /\ \A m, n \in DOMAIN Sorted(S) : m < n => Before(Sorted(S)[m], Sorted(S)[n])
  BY <1>7 DEF Sorted
<1>9. InOrderOf(Sorted(S), R)
  BY <1>6, <1>8
<1> QED BY <1>5, <1>8, <1>9, SortedHasAll

(* The words whose bytes begin with those of the last character. *)
Fitting == {w \in dict : IsPrefix(LastCh(Encoded(sought)), Encoded(w))}

Given ==
  op = "solitaire" /\ at = "done" =>
     ret = SubSeq(Sorted(Fitting), 1, Min({MaxResults, Len(Sorted(Fitting))}))

LEMMA FittingGoesOn ==
  ASSUME QueTyped
  PROVE  Fitting = {w \in dict : sought = <<>> \/ Head(w) = Last(sought)}
<1>1. ASSUME NEW w \in dict
      PROVE  w \in Seq(Chars) /\ w # <<>> /\ w[1] = Head(w) /\ Encoded(w) \in Seq(0..247)
  <2>1. w \in Seq(Chars) /\ w # <<>>
    BY WordsAssumption DEF QueTyped, Chars
  <2> QED BY <2>1, EncodedIsPlaced
<1>2. sought \in Seq(Chars) /\ Len(sought) \in Nat
  BY LenProperties DEF QueTyped
<1>3. CASE sought = <<>>
  <2> DEFINE x == Encoded(sought)
  <2>1. x \in Seq(0..247) /\ \E e : Placed(e, sought, x)
    BY <1>2, EncodedIsPlaced
  <2> HIDE DEF x
  <2>2. Len(x) = 0
    <3>1. PICK e : Placed(e, sought, x)
      BY <2>1
    <3>2. e[0] = 0 /\ e[Len(sought)] = Len(x)
      BY <3>1 DEF Placed, Adds
    <3>3. Len(sought) = 0
      BY <1>3
    <3> QED BY <3>2, <3>3
  <2>3. x = <<>>
    BY <2>1, <2>2
  <2>4. LastCh(x) = <<>>
    BY <2>3 DEF LastCh
  <2>5. ASSUME NEW y \in Seq(0..247) PROVE IsPrefix(<<>>, y)
    <3>1. Len(<<>>) = 0 /\ <<>> \in Seq(0..247) /\ Len(y) \in Nat
      BY LenProperties
    <3>2. SubSeq(<<>>, 1, 0) = SubSeq(y, 1, 0)
      BY <3>1, SamePrefix
    <3> QED BY <3>1, <3>2 DEF IsPrefix
  <2> QED BY <1>1, <1>3, <2>4, <2>5 DEF Fitting, x
<1>4. CASE sought # <<>>
  <2>1. LastCh(Encoded(sought)) = Bytes[Last(sought)]
    BY <1>2, <1>4, LastChIsLast
  <2>2. Last(sought) \in Chars
    <3>1. Len(sought) \in 1..Len(sought)
      BY <1>2, <1>4
    <3> QED BY <1>2, <3>1, ElementOfSeq DEF Last
  <2>3. \A w \in dict : IsPrefix(Bytes[Last(sought)], Encoded(w)) <=> Head(w) = Last(sought)
    BY <1>1, <2>2, BeginsWith
  <2> QED BY <1>4, <2>1, <2>3 DEF Fitting
<1> QED BY <1>3, <1>4

LEMMA NextGiven == QueInv /\ Given /\ [Next]_vars => Given'
<1> SUFFICES ASSUME QueInv, Given, [Next]_vars PROVE Given'
  OBVIOUS
<1>1. QueTyped
  BY DEF QueInv
<1>2. UNCHANGED <<dict, op, sought>>
  BY DEF Next, vars, Collect, Test, Scan, TakeTop, EmptyTop, GetSolitaireKeys, GetRandKeys
<1>3. Fitting' = Fitting
  BY <1>2 DEF Fitting, LastCh, Encoded
<1>4. Sorted(Fitting)' = Sorted(Fitting)
  BY <1>3 DEF Sorted, Before, Encoded
<1>5. CASE GetSolitaireKeys
  BY <1>3, <1>4, <1>5 DEF GetSolitaireKeys, Given, Fitting
<1>6. CASE Collect \/ Test \/ Scan \/ TakeTop \/ EmptyTop \/ GetRandKeys
  <2>1. op # "solitaire"
    <3>1. at \in {"test", "scan"} => op = "query"
      BY <1>1 DEF QueTyped
    <3> QED BY <1>6, <3>1 DEF Collect, Test, Scan, TakeTop, EmptyTop, GetRandKeys
  <2> QED BY <1>2, <2>1 DEF Given
<1>7. CASE UNCHANGED vars
  BY <1>3, <1>4, <1>7 DEF Given, vars
<1> QED BY <1>5, <1>6, <1>7 DEF Next

(* The words given to go on with are the first, in the order of their      *)
(* bytes, of those whose bytes begin with the last character's; and a word *)
(* whose bytes begin with a character's begins with that character, since  *)
(* the first byte tells how many belong to it.                             *)
THEOREM SolitaireGoes == Spec => []SolitaireGoesOn
<1>1. Init => QueInv /\ Given
  BY InitQue DEF Init, Given
<1>2. QueInv /\ Given /\ [Next]_vars => QueInv' /\ Given'
  BY NextQue, NextGiven
<1>3. QueInv /\ Given => SolitaireGoesOn
  <2> SUFFICES ASSUME QueInv, Given, op = "solitaire", at = "done" PROVE SolitaireGoesOn
    BY DEF SolitaireGoesOn
  <2>1. QueTyped
    BY DEF QueInv
  <2> DEFINE F == Fitting
             s == Sorted(F)
             N == Cardinality(F)
             L == Min({MaxResults, Len(s)})
  <2>2. F = {w \in dict : sought = <<>> \/ Head(w) = Last(sought)}
    BY <2>1, FittingGoesOn
  <2>3. F \subseteq Words /\ IsFiniteSet(F) /\ F \subseteq Seq(Chars)
    <3>1. F \subseteq Words
      BY <2>1 DEF Fitting, QueTyped
    <3> HIDE DEF F
    <3> QED BY <3>1, WordsAssumption, FS_Subset DEF Chars
  <2>4. ret = SubSeq(s, 1, L)
    BY DEF Given
  <2> HIDE DEF F
  <2>5. /\ s \in [1..N -> F] /\ IsInjective(s) /\ Range(s) = F
        /\ \A m, n \in 1..N : m < n => Before(s[m], s[n])
    BY <2>3, SortedFacts
  <2>6. N \in Nat
    BY <2>3, FS_CardinalityType
  <2> HIDE DEF s, N
  <2>7. s \in Seq(F) /\ Len(s) = N
    BY <2>5, <2>6
  <2>8. L \in 0..N /\ L = Min({MaxResults, N})
    <3>1. {MaxResults, N} \subseteq Nat /\ {MaxResults, N} # {}
      BY <2>6, ResultsAssumption
    <3>2. Min({MaxResults, N}) \in Nat /\ Min({MaxResults, N}) <= N
      BY <3>1, LeastIsMin
    <3> QED BY <2>6, <2>7, <3>2
  <2> HIDE DEF L
  <2>9. Len(ret) = L /\ DOMAIN ret = 1..L /\ \A n \in 1..L : ret[n] = s[n]
    <3>1. ret \in Seq(F) /\ Len(ret) = L /\ \A n \in 1..L : ret[n] = s[n]
      BY <2>4, <2>7, <2>8, PrefixOfSeq
    <3> QED BY <3>1, LenProperties
  <2>10. \A n \in 1..L : n \in 1..N /\ s[n] \in F
    BY <2>5, <2>6, <2>8
  <2>11. Range(ret) \subseteq F
    BY <2>9, <2>10 DEF Range
  <2>12. IsInjective(ret)
    BY <2>5, <2>9, <2>10 DEF IsInjective
  <2>13. ASSUME NEW n \in DOMAIN ret, NEW w \in F \ Range(ret) PROVE Before(ret[n], w)
    <3>1. PICK m \in 1..N : s[m] = w
      BY <2>5 DEF Range
    <3>2. m \notin 1..L
      <4> SUFFICES ASSUME m \in 1..L PROVE FALSE
        OBVIOUS
      <4>1. ret[m] = w /\ m \in DOMAIN ret
        BY <2>9, <3>1
      <4> QED BY <2>13, <4>1 DEF Range
    <3>3. n \in 1..N /\ n < m /\ ret[n] = s[n]
      <4>1. n \in 1..L /\ n \in 1..N /\ ret[n] = s[n]
        BY <2>9, <2>10, <2>13
      <4>2. m > L
        BY <2>6, <2>8, <3>2
      <4>3. n < m
        BY <2>6, <2>8, <4>1, <4>2
      <4> QED BY <4>1, <4>3
    <3> QED BY <2>5, <3>1, <3>3
  <2> QED BY <2>2, <2>8, <2>9, <2>11, <2>12, <2>13 DEF SolitaireGoesOn, N
<1> QED BY <1>1, <1>2, <1>3, PTL DEF Spec
===============================================================================
