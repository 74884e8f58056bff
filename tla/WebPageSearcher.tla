---------------------------- MODULE WebPageSearcher ----------------------------
(***************************************************************************)
(* WebPageSearcher::doQuery of src/src/WebPageSearcher.cc, over the index  *)
(* that PagePreProcessor has made of the same pages: the pages that        *)
(* contain the words asked for, with a score, in a set ordered by score,   *)
(* and for each word the part of the page around it.                       *)
(*                                                                         *)
(* Weights are as they were stored, and what is computed from them exact.  *)
(* A score is a fraction that grows as the double does; a denominator of 0 *)
(* stands for NaN.                                                         *)
(***************************************************************************)
EXTENDS PageIndex

CONSTANTS Corpora,   \* the page libraries there may be
          Queries,   \* sequences of words that may be asked
          Around,    \* bytes shown before and after a word, 30
          Stray      \* scores that memory past the end of obwArr may give

ASSUME AroundAssumption == Around \in Nat \ {0}
ASSUME QueriesAssumption == \A q \in Queries : q \in Seq(Range(q)) \ {<<>>}
ASSUME StrayAssumption == Stray \subseteq [num : Int, den : Nat]

(* A library is a map from docids to texts; there are logarithms for the   *)
(* numbers of its pages, and texts for its weights.                        *)
ASSUME CorporaAssumption ==
  \A library \in Corpora :
     /\ IsFiniteSet(DOMAIN library) /\ DOMAIN library \subseteq Int
     /\ \A id \in DOMAIN library : library[id] \in Seq(DOMAIN CharSizes)
     /\ LET n == Cardinality(DOMAIN library)
        IN 1..n \subseteq DOMAIN Log2 /\ \A m \in 1..n : 1..(n + 1) \subseteq DOMAIN Log2[m]
     /\ \A id \in DOMAIN library : \A word \in DocWords(library[id]) :
           <<TFIDF(library, id, word), SumW(library, id)>> \in DOMAIN Stored

VARIABLES
  corpus,      \* the page library
  table,       \* _invertIndexTable
  keys,        \* the words of the query
  phase,       \* where doQuery is
  calcId,      \* the pages to score, in the order they are scored
  nth,         \* i of simCalc's loop
  webPageSet,  \* pages with their scores
  shown        \* of a page in the answer: a description, as the parts it is made of

searchVars == <<corpus, table, keys, phase, calcId, nth, webPageSet, shown>>

(* initInvertIndex has read what store() has written. *)
SearchInit ==
  /\ corpus \in Corpora /\ keys \in Queries
  /\ table = InvertProcess(corpus)
  /\ phase = "ids" /\ calcId = <<>> /\ nth = 1 /\ webPageSet = {}
  /\ shown = [id |-> 0, text |-> <<>>]

-------------------------------------------------------------------------------
(* Which pages *)

Entries(key) == IF key \in DOMAIN table THEN table[key] ELSE <<>>
PagesOf(key) == DOMAIN Entries(key)
Ascending(S) ==
  CHOOSE s \in [1..Cardinality(S) -> S] : \A m, n \in DOMAIN s : m < n => s[m] < s[n]

SingleIds == Ascending(PagesOf(keys[1]))

(* Mutant of MultiIds: the last word is forgotten. *)
MultiIdsButLast ==
  FlattenSeq([n \in 1..(Len(keys) - 2) |->
                Ascending(PagesOf(keys[1]) \cap PagesOf(keys[n + 1]))])

(* Mutant of MultiIds: the first word is not asked for. *)
MultiIdsAny ==
  FlattenSeq([n \in 1..(Len(keys) - 1) |-> Ascending(PagesOf(keys[n + 1]))])

(* For each word but the first, the pages that contain it and the first:   *)
(* a page comes once for each of them, and need not contain all of them.   *)
MultiIds ==
  FlattenSeq([n \in 1..(Len(keys) - 1) |->
                Ascending(PagesOf(keys[1]) \cap PagesOf(keys[n + 1]))])

(* operator[] leaves an empty entry for each word that was not there. *)
QueryIds ==
  /\ phase = "ids"
  /\ calcId' = IF Len(keys) = 1 THEN SingleIds ELSE MultiIds
  /\ table' = [key \in DOMAIN table \cup Range(keys) |-> Entries(key)]
  /\ phase' = "score"
  /\ UNCHANGED <<corpus, keys, nth, webPageSet, shown>>

-------------------------------------------------------------------------------
(* Which score *)

(* The entries of the words that the page contains, at the places of the   *)
(* words: obwArr is as long as keys only if the page contains them all.    *)
ObwArr(page) ==
  [n \in {m \in DOMAIN keys : page \in PagesOf(keys[m])} |-> Entries(keys[n])[page]]

SignedSquare(x) == IF x < 0 THEN -(x * x) ELSE x * x

(* The weight for one word; for more, the square of the cosine with a      *)
(* vector of equal weights.                                                *)
Cos(page) ==
  LET obw == ObwArr(page)
      ofAll == [num |-> SignedSquare(Total([n \in DOMAIN obw |-> obw[n].weight.num])),
                den |-> Total([n \in DOMAIN obw |-> Square(obw[n].weight.num)])]
  IN IF Len(keys) = 1 THEN obw[1].weight ELSE ofAll

IsNaN(c) == c.den = 0

(* Neither is greater; a NaN is neither greater nor less than anything. *)
Same(c, d) == c.num * d.den = d.num * c.den \/ IsNaN(c) \/ IsNaN(d)

(* The set holds one page of a score. *)
Insert(page, cos) ==
  webPageSet' = IF \E p \in webPageSet : Same(p.cos, cos) THEN webPageSet
                ELSE webPageSet \cup {[id |-> page, cos |-> cos]}

GetWebPageSet ==
  /\ phase = "score" /\ nth <= Len(calcId)
  /\ DOMAIN ObwArr(calcId[nth]) = DOMAIN keys
  /\ Insert(calcId[nth], Cos(calcId[nth]))
  /\ nth' = nth + 1
  /\ UNCHANGED <<corpus, table, keys, phase, calcId, shown>>

(* The loop goes to the number of words, past the end of obwArr if the     *)
(* page does not contain them all.                                         *)
PastObwArr ==
  /\ phase = "score" /\ nth <= Len(calcId)
  /\ DOMAIN ObwArr(calcId[nth]) # DOMAIN keys
  /\ \E cos \in Stray : Insert(calcId[nth], cos)
  /\ nth' = nth + 1
  /\ UNCHANGED <<corpus, table, keys, phase, calcId, shown>>

-------------------------------------------------------------------------------
(* Which part of the page *)

CharEnds(d) == {Total(SubSeq(d, 1, n)) : n \in DOMAIN d}

(* idx - 30 is unsigned: below 30 it wraps, and nothing is greater.        *)
Begin(d, idx) ==
  LET after == {k \in CharEnds(d) : idx >= Around /\ k > idx - Around}
  IN IF after = {} THEN 0 ELSE Min(after)

End(d, idx) ==
  LET after == {k \in CharEnds(d) : k > idx + Around}
  IN IF after = {} THEN Total(d) ELSE Min(after)

(* Where the index has the word in the page, or the beginning. *)
Idx(id, key) == IF id \in PagesOf(key) THEN Entries(key)[id].pos ELSE 0

Excerpt(id, key) ==
  LET d == Description(corpus[id])
  IN [begin |-> Begin(d, Idx(id, key)), end |-> End(d, Idx(id, key))]

(* outRes, for one of the pages and one of its descriptions.  The stream   *)
(* is not emptied between two words: the n-th description is the excerpts  *)
(* for all the words up to the n-th, one after the other.                  *)
OutRes ==
  /\ phase = "score" /\ nth > Len(calcId)
  /\ IF webPageSet = {} THEN UNCHANGED shown
     ELSE \E p \in webPageSet, n \in DOMAIN keys :
            shown' = [id |-> p.id, text |-> [m \in 1..n |-> Excerpt(p.id, keys[m])]]
  /\ phase' = "done"
  /\ UNCHANGED <<corpus, table, keys, calcId, nth, webPageSet>>

SearchNext == QueryIds \/ GetWebPageSet \/ PastObwArr \/ OutRes

SearchSpec == SearchInit /\ [][SearchNext]_searchVars

-------------------------------------------------------------------------------
Ids == {p.id : p \in webPageSet}
Has(page, word) == word \in DocWords(corpus[page])
HasAll(page) == \A n \in DOMAIN keys : Has(page, keys[n])

(* A page that contains all the words is in the answer, or another page of *)
(* its score is, by the weights as they were stored, or one of the two has *)
(* no score: the set compares nothing but scores.                          *)
MatchesAreFound ==
  phase = "done" => \A page \in DOMAIN corpus :
     HasAll(page) => \E p \in webPageSet : Same(p.cos, Cos(page))

(* A page that lacks one of the words is in the answer only if there are   *)
(* three or more and it contains the first and another; a page is there    *)
(* twice only if there are four or more.                                   *)
PartialNeedsThirdKey ==
  /\ \A page \in Ids : ~HasAll(page) =>
        /\ Len(keys) > 2
        /\ Has(page, keys[1]) /\ \E n \in 2..Len(keys) : Has(page, keys[n])
  /\ Cardinality(Ids) < Cardinality(webPageSet) => Len(keys) > 3

(* A page without a score, of the weights 0 by 0 of PagePreProcessor, is   *)
(* in the answer only when every word asked for is in all pages but one,   *)
(* and then it keeps all the others out.                                   *)
NaNIsAlone ==
  \A p \in webPageSet : IsNaN(p.cos) =>
     /\ Cardinality(webPageSet) = 1
     /\ HasAll(p.id) => \A n \in DOMAIN keys :
           Cardinality({id \in DOMAIN corpus : Has(id, keys[n])}) + 1
             = Cardinality({id \in DOMAIN corpus : corpus[id] # <<>>})

(* What is shown of a page are parts of whole characters, or json would    *)
(* throw, none longer than twice Around and one character; and part by     *)
(* part the words up to the n-th are seen in the n-th description, if the  *)
(* page has the word and it is no longer than Around: idx - 30, which      *)
(* wraps, and the place in the index, which is counted in the other        *)
(* program, both come into it.                                             *)
ExcerptsShowWords ==
  phase = "done" /\ webPageSet # {} =>
     LET page == corpus[shown.id]
         d == Description(page)
         Shows(part, n) == /\ part.begin <= Total(Description(SubSeq(page, 1, n - 1)))
                           /\ part.end >= Total(Description(SubSeq(page, 1, n)))
     IN /\ shown.text # <<>>
        /\ \A m \in DOMAIN shown.text :
              LET part == shown.text[m]
              IN /\ part.begin \in {0} \cup CharEnds(d) /\ part.end \in CharEnds(d)
                 /\ part.end - part.begin <= 2 * Around + Max(Range(d))
                 /\ Has(shown.id, keys[m]) /\ Total(CharSizes[keys[m]]) <= Around =>
                       \E n \in Places(page, keys[m]) : Shows(part, n)
===============================================================================
