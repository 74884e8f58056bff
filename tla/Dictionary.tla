------------------------------ MODULE Dictionary ------------------------------
(***************************************************************************)
(* The three operations of src/src/recommander/Dictionary.cc, on a         *)
(* dictionary that DictProducer has written.                               *)
(*                                                                         *)
(* doQuery, with the edit distance of minDistance.h: the words that share  *)
(* a character with what is sought go into a priority queue, once for each *)
(* such character, and the best of them are taken out, skipping            *)
(* repetitions.  Which of several equally good ones is on top is up to the *)
(* queue.  getSolitaireKeys: the words that begin as what is sought ends,  *)
(* compared byte by byte.  getRandKeys: any words.                         *)
(*                                                                         *)
(* A word is a sequence of characters, and a character is its UTF-8 bytes  *)
(* where the code looks at them.                                           *)
(***************************************************************************)
EXTENDS Integers, FiniteSetsExt, Functions, SequencesExt

CONSTANTS Words,      \* the words there are
          Soughts,    \* what may be sought
          Freq,       \* how often each word occurs
          Bytes,      \* character -> its bytes
          Digits,     \* the characters that initIndex takes for numbers
          DictSize,   \* bound: the words in one dictionary
          MaxResults, \* 5, in each of the operations
          NoTop

ASSUME WordsAssumption ==
  IsFiniteSet(Words) /\ Words \subseteq Seq(DOMAIN Bytes) \ {<<>>} /\ NoTop \notin Words
ASSUME SoughtsAssumption == Soughts \subseteq Seq(DOMAIN Bytes)
ASSUME FreqAssumption == Freq \in [Words -> Nat]
ASSUME ResultsAssumption == MaxResults \in Nat \ {0} /\ DictSize \in Nat

VARIABLES
  dict,    \* the words of _dict
  op,      \* the operation called
  sought,  \* the query
  at,      \* where it is; "undefined" after top() or pop() of an empty queue, or rand() % 0
  i,       \* of the loop it is in
  que,     \* how many copies of each word the queue holds
  top,     \* the word on top, once it has been looked at
  cnt,     \* results still wanted
  ret      \* the results so far

vars == <<dict, op, sought, at, i, que, top, cnt, ret>>

Init ==
  /\ dict \in {D \in SUBSET Words : Cardinality(D) <= DictSize}
  /\ \/ op \in {"query", "solitaire"} /\ sought \in Soughts
     \/ op = "random" /\ sought = <<>>
  /\ at = "collect" /\ i = 1
  /\ que = [w \in Words |-> 0] /\ top = NoTop
  /\ cnt = MaxResults /\ ret = <<>>

-------------------------------------------------------------------------------
(* MinEditDist::editDistance: a step in either direction, or in both, costs *)
(* one, and nothing where the characters agree.                             *)
Least(a, b, c) == Min({a, b, c})

(* Mutant of EditDistance: no replacing of a character by another. *)
EditDistanceNoSwap(lhs, rhs) ==
  LET dist[p \in (0..Len(lhs)) \X (0..Len(rhs))] ==
        LET m == p[1]
            n == p[2]
        IN IF m = 0 THEN n
           ELSE IF n = 0 THEN m
           ELSE IF lhs[m] = rhs[n] THEN dist[<<m - 1, n - 1>>]
           ELSE 1 + Min({dist[<<m, n - 1>>], dist[<<m - 1, n>>]})
  IN dist[<<Len(lhs), Len(rhs)>>]

(* dist is the table of distances between the beginnings of both. *)
EditDistance(lhs, rhs) ==
  LET dist[p \in (0..Len(lhs)) \X (0..Len(rhs))] ==
        LET m == p[1]
            n == p[2]
        IN IF m = 0 THEN n
           ELSE IF n = 0 THEN m
           ELSE IF lhs[m] = rhs[n] THEN dist[<<m - 1, n - 1>>]
           ELSE 1 + Least(dist[<<m, n - 1>>], dist[<<m - 1, n>>], dist[<<m - 1, n - 1>>])
  IN dist[<<Len(lhs), Len(rhs)>>]

(* CandidateResult: nearer is better, and among the equally near the more  *)
(* frequent one is.                                                        *)
Dis(w) == EditDistance(sought, w)

(* Mutant of Better: the less frequent one is. *)
BetterRare(v, w) == Dis(v) < Dis(w) \/ (Dis(v) = Dis(w) /\ Freq[v] < Freq[w])

Better(v, w) == Dis(v) < Dis(w) \/ (Dis(v) = Dis(w) /\ Freq[v] > Freq[w])

-------------------------------------------------------------------------------
(* DictProducer::createIndex: the words that contain a character. *)
CreateIndex(ch) == {w \in dict : Contains(w, ch)}

(* _index of a character, read from the file: a line that begins with a    *)
(* digit is taken for one of positions alone.                              *)
Index(ch) == IF ch \in Digits THEN {} ELSE CreateIndex(ch)

(* The words of one more character of sought are pushed. *)
Collect ==
  /\ op = "query" /\ at = "collect"
  /\ IF i <= Len(sought)
     THEN /\ que' = [w \in Words |-> que[w] + IF w \in Index(sought[i]) THEN 1 ELSE 0]
          /\ i' = i + 1 /\ UNCHANGED at
     ELSE at' = "test" /\ UNCHANGED <<que, i>>
  /\ UNCHANGED <<dict, op, sought, top, cnt, ret>>

Queued == {w \in Words : que[w] > 0}
Best == {w \in Queued : ~\E v \in Queued : Better(v, w)}
Tops == IF top = NoTop THEN Best ELSE {top}
Pop(w) == que' = [que EXCEPT ![w] = @ - 1] /\ top' = NoTop

(* while(cnt), and the break for an empty queue. *)
Test ==
  /\ at = "test"
  /\ IF cnt = 0 \/ Queued = {} THEN at' = "done" /\ UNCHANGED i
     ELSE at' = "scan" /\ i' = 1
  /\ UNCHANGED <<dict, op, sought, que, top, cnt, ret>>

(* Mutant of Scan: the copy stays. *)
ScanKeeps ==
  /\ at = "scan" /\ i <= Len(ret) /\ Queued # {}
  /\ \E w \in Tops : top' = w
  /\ i' = i + 1
  /\ UNCHANGED <<dict, op, sought, at, que, cnt, ret>>

(* A copy of an earlier result is popped when it is on top at its turn. *)
Scan ==
  /\ at = "scan" /\ i <= Len(ret) /\ Queued # {}
  /\ \E w \in Tops :
        IF ret[i] = w THEN Pop(w) ELSE top' = w /\ UNCHANGED que
  /\ i' = i + 1
  /\ UNCHANGED <<dict, op, sought, at, cnt, ret>>

(* Mutant of TakeTop: no counting. *)
TakeTopUncounted ==
  /\ at = "scan" /\ i > Len(ret) /\ Queued # {}
  /\ \E w \in Tops : ret' = Append(ret, w) /\ Pop(w)
  /\ at' = "test"
  /\ UNCHANGED <<dict, op, sought, i, cnt>>

(* What is on top then is a result. *)
TakeTop ==
  /\ at = "scan" /\ i > Len(ret) /\ Queued # {}
  /\ \E w \in Tops : ret' = Append(ret, w) /\ Pop(w)
  /\ cnt' = cnt - 1 /\ at' = "test"
  /\ UNCHANGED <<dict, op, sought, i>>

(* Mutant of EmptyTop: the queue is also taken for empty with one entry. *)
EmptyTopEarly ==
  /\ at = "scan" /\ Cardinality(Queued) <= 1
  /\ at' = "undefined"
  /\ UNCHANGED <<dict, op, sought, i, que, top, cnt, ret>>

(* The copies were all there was: top() of an empty queue. *)
EmptyTop ==
  /\ at = "scan" /\ Queued = {}
  /\ at' = "undefined"
  /\ UNCHANGED <<dict, op, sought, i, que, top, cnt, ret>>

-------------------------------------------------------------------------------
(* getSolitaireKeys *)

(* The bytes of a character, from its first; a later one is taken for one. *)
NBytesCode(byte) ==
  CASE byte < 192 -> 1
    [] byte \in 192..223 -> 2
    [] byte \in 224..239 -> 3
    [] OTHER -> 4

ASSUME BytesAssumption ==
  /\ \A ch \in DOMAIN Bytes : /\ Bytes[ch] \in Seq(0..247) \ {<<>>}
                              /\ Len(Bytes[ch]) = NBytesCode(Bytes[ch][1])
  /\ IsInjective(Bytes)

Encoded(word) == FlattenSeq([n \in DOMAIN word |-> Bytes[word[n]]])

(* Mutant of LastCh: the first byte of the last character alone. *)
LastChByte(str) ==
  LET from[n \in 1..Len(str)] ==
        IF n + NBytesCode(str[n]) > Len(str) THEN <<str[n]>>
        ELSE from[n + NBytesCode(str[n])]
  IN IF str = <<>> THEN <<>> ELSE from[1]

(* From character to character to the last one: its bytes, and none for an *)
(* empty string.                                                           *)
LastCh(str) ==
  LET from[n \in 1..Len(str)] ==
        IF n + NBytesCode(str[n]) > Len(str) THEN SubSeq(str, n, Len(str))
        ELSE from[n + NBytesCode(str[n])]
  IN IF str = <<>> THEN <<>> ELSE from[1]

(* The words come from a map of DictProducer, in the order of their bytes. *)
Before(v, w) ==
  LET x == Encoded(v)
      y == Encoded(w)
  IN \/ IsStrictPrefix(x, y)
     \/ \E n \in DOMAIN x \cap DOMAIN y :
           x[n] < y[n] /\ SubSeq(x, 1, n - 1) = SubSeq(y, 1, n - 1)
Sorted(S) ==
  CHOOSE s \in [1..Cardinality(S) -> S] : \A m, n \in DOMAIN s : m < n => Before(s[m], s[n])

GetSolitaireKeys ==
  /\ op = "solitaire" /\ at = "collect"
  /\ LET last == LastCh(Encoded(sought))
         fitting == Sorted({w \in dict : IsPrefix(last, Encoded(w))})
     IN ret' = SubSeq(fitting, 1, Min({MaxResults, Len(fitting)}))
  /\ at' = "done"
  /\ UNCHANGED <<dict, op, sought, i, que, top, cnt>>

(* getRandKeys: one more word, perhaps one it has given already. *)
GetRandKeys ==
  /\ op = "random" /\ at = "collect"
  /\ IF dict = {} THEN at' = "undefined" /\ UNCHANGED <<cnt, ret>>
     ELSE /\ \E w \in dict : ret' = Append(ret, w)
          /\ cnt' = cnt - 1
          /\ at' = IF cnt = 1 THEN "done" ELSE "collect"
  /\ UNCHANGED <<dict, op, sought, i, que, top>>

-------------------------------------------------------------------------------
Next == Collect \/ Test \/ Scan \/ TakeTop \/ EmptyTop \/ GetSolitaireKeys \/ GetRandKeys

Spec == Init /\ [][Next]_vars

-------------------------------------------------------------------------------
(* The distance of the code is the least number of characters to insert,   *)
(* delete or replace.  A way to do it keeps some positions of one word for *)
(* positions of the other, in order.                                       *)
Matchings(lhs, rhs) ==
  {M \in SUBSET ((DOMAIN lhs) \X (DOMAIN rhs)) :
     \A p, q \in M : p # q => (p[1] < q[1] /\ p[2] < q[2]) \/ (p[1] > q[1] /\ p[2] > q[2])}

Cost(lhs, rhs, M) ==
  Len(lhs) + Len(rhs) - 2 * Cardinality(M) + Cardinality({p \in M : lhs[p[1]] # rhs[p[2]]})

EditDistanceIsLeast ==
  at = "collect" /\ i = 1 =>
     \A w \in dict : Dis(w) = Min({Cost(sought, w, M) : M \in Matchings(sought, w)})

(* The candidates, by what is asked for: the words with a character of     *)
(* sought that is not a digit, and how many characters of sought they have. *)
Copies(w) == Cardinality({n \in DOMAIN sought : sought[n] \notin Digits /\ sought[n] \in Range(w)})
Candidates == {w \in dict : Copies(w) > 0}

(* What a better answer is, written apart from the comparison of the queue. *)
Beats(v, w) ==
  \/ Dis(v) < Dis(w)
  \/ Dis(v) = Dis(w) /\ Freq[v] > Freq[w]

(* The results are the best there are, in order: none is worse than a      *)
(* later one, or than a candidate that is not among the results.           *)
ResultsAreBest ==
  op = "query" =>
     /\ Range(ret) \subseteq Candidates
     /\ \A m, n \in DOMAIN ret : m < n => ~Beats(ret[n], ret[m])
     /\ \A m \in DOMAIN ret : \A w \in Candidates \ Range(ret) : ~Beats(w, ret[m])

(* top() is called on an empty queue only when there are fewer candidates  *)
(* than results wanted, and never when the copies are one of each; and a   *)
(* random word is asked of an empty dictionary alone.                      *)
UndefinedNeedsFew ==
  at = "undefined" => \/ op = "random" /\ dict = {}
                      \/ /\ op = "query" /\ Cardinality(Candidates) < MaxResults
                         /\ \E w \in Candidates : Copies(w) > 1

(* A result is repeated only when it shares three characters with what is  *)
(* sought, or two, as an equally good other word does.                     *)
RepetitionNeedsCopies ==
  op = "query" /\ ~IsInjective(ret) =>
     \E w \in Candidates :
        \/ Copies(w) >= 3
        \/ /\ Copies(w) = 2
           /\ \E v \in Candidates \ {w} : Copies(v) >= 2 /\ ~Beats(v, w) /\ ~Beats(w, v)

(* The words to go on with are those that begin with the very character    *)
(* that what is sought ends with, though characters share bytes and are    *)
(* compared by them: the first ones, each once, as many as are wanted.     *)
SolitaireGoesOn ==
  op = "solitaire" /\ at = "done" =>
     LET fitting == {w \in dict : sought = <<>> \/ Head(w) = Last(sought)}
     IN /\ Range(ret) \subseteq fitting /\ IsInjective(ret)
        /\ Len(ret) = Min({MaxResults, Cardinality(fitting)})
        /\ \A n \in DOMAIN ret : \A w \in fitting \ Range(ret) : Before(ret[n], w)
===============================================================================
