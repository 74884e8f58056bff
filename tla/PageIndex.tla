------------------------------ MODULE PageIndex ------------------------------
(***************************************************************************)
(* The inverted index that PagePreProcessor of src/pageDump makes of the   *)
(* page library: for each word the pages that contain it, with the weight  *)
(* of the word in the page and the place of its last occurrence.           *)
(*                                                                         *)
(* A corpus gives each page as the sequence of words jieba cuts its        *)
(* description into; a page without description is the empty sequence.     *)
(* What is kept of a word is how many bytes each of its characters has.    *)
(* Logarithms are integers of the right order, and weights what is left of *)
(* them in the text that store writes, of so many digits and no more.      *)
(***************************************************************************)
EXTENDS Integers, FiniteSetsExt, Functions, SequencesExt

CONSTANTS CharSizes,  \* word -> the bytes of each of its characters
          Skipped,    \* stop words, and words that begin with a letter, digit or space
          Log2,       \* numerator -> denominator -> logarithm, in some unit
          Stored      \* <<x, y>> -> x by the square root of y in the digits stored

ASSUME CharSizesAssumption ==
  \A word \in DOMAIN CharSizes : CharSizes[word] \in Seq(1..4) \ {<<>>}
ASSUME Log2Assumption ==
  \A n \in DOMAIN Log2 : \A d \in DOMAIN Log2[n] :
     /\ Log2[n][d] \in Int
     /\ Log2[n][d] > 0 <=> n > d
     /\ Log2[n][d] < 0 <=> n < d
ASSUME StoredAssumption ==
  \A q \in DOMAIN Stored :
     /\ Stored[q] \in Int
     /\ Stored[q] > 0 <=> q[1] > 0
     /\ Stored[q] < 0 <=> q[1] < 0

-------------------------------------------------------------------------------
Total(f) == MapThenSumSet(LAMBDA n : f[n], DOMAIN f)
Square(x) == x * x

Description(page) == FlattenSeq([n \in DOMAIN page |-> CharSizes[page[n]]])
ByteSize(page) == Total(Description(page))

(* Mutant of CurPos: the words that are skipped are not counted. *)
CurPosOfKept(page, n) ==
  ByteSize(SelectSeq(SubSeq(page, 1, n - 1), LAMBDA word : word \notin Skipped))

(* curPos at the n-th word: the bytes of all before it, the skipped ones too. *)
CurPos(page, n) == ByteSize(SubSeq(page, 1, n - 1))

Places(page, word) == {n \in DOMAIN page : page[n] = word}
DocWords(page) == Range(page) \ Skipped

(* The pages that have a description are counted; the others are passed over. *)
Docs(corpus) == {id \in DOMAIN corpus : corpus[id] # <<>>}
WithWord(corpus, word) == {id \in Docs(corpus) : word \in DocWords(corpus[id])}

(* Mutant of IDF: the 1 is not added. *)
IDFOfPages(corpus, word) ==
  Log2[Cardinality(Docs(corpus))][Cardinality(WithWord(corpus, word))]

(* log2(N / (DF + 1)): nothing for a word in all pages but one, and less   *)
(* than nothing for one in all of them.                                    *)
IDF(corpus, word) ==
  Log2[Cardinality(Docs(corpus))][Cardinality(WithWord(corpus, word)) + 1]

TFIDF(corpus, id, word) == Cardinality(Places(corpus[id], word)) * IDF(corpus, word)

SumW(corpus, id) ==
  Total([word \in DocWords(corpus[id]) |-> Square(TFIDF(corpus, id, word))])

(* The weight as it is read back from the text: tfidf by the square root   *)
(* of sumW.  Two that differ may have come to be equal; 0 by 0, a NaN, is  *)
(* written and read as one, and is given a denominator of 0.               *)
Weight(tfidf, sumW) ==
  [num |-> Stored[<<tfidf, sumW>>], den |-> IF sumW = 0 THEN 0 ELSE 1]

(* _invertIndexTable; pos is overwritten by each later occurrence. *)
InvertProcess(corpus) ==
  [word \in UNION {DocWords(corpus[id]) : id \in Docs(corpus)} |->
     [id \in WithWord(corpus, word) |->
        [weight |-> Weight(TFIDF(corpus, id, word), SumW(corpus, id)),
         pos    |-> CurPos(corpus[id], Max(Places(corpus[id], word)))]]]
===============================================================================
