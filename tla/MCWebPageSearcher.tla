-------------------------- MODULE MCWebPageSearcher --------------------------
(***************************************************************************)
(* Instances of WebPageSearcher for TLC: two pages of up to MaxWords words *)
(* and one of at most one, made of two words and a stop word; one to four  *)
(* words asked, one of which is in no page.  Words of one and two          *)
(* characters, of one byte and of three; logarithms in tenths, weights in  *)
(* thirds, rounded up, so that some that differ are stored as the same.    *)
(***************************************************************************)
EXTENDS WebPageSearcher

CONSTANT MaxWords

MCCharSizes == [a |-> <<3, 3>>, b |-> <<1>>, s |-> <<3>>]
MCSkipped == {"s"}
MCLog2 == <<<<0, -10, -16, -20>>, <<10, 0, -6, -10>>, <<16, 6, 0, -4>>>>

MCTFIDFs == {n * MCLog2[i][j] : n \in 1..3, i \in 1..3, j \in 1..4}
MCQuotients == {<<x, Square(x) + Square(y)>> : x \in MCTFIDFs, y \in MCTFIDFs \cup {0}}
MCStored ==
  LET Thirds(x, y) == Min({k \in 1..3 : 9 * Square(x) <= Square(k) * y})
  IN [q \in MCQuotients |-> IF q[1] > 0 THEN Thirds(q[1], q[2])
                             ELSE IF q[1] < 0 THEN -Thirds(q[1], q[2]) ELSE 0]

Texts(max) == UNION {[1..n -> DOMAIN MCCharSizes] : n \in 0..max}

MCCorpora == {<<p, q, r>> : p \in Texts(MaxWords), q \in Texts(MaxWords), r \in Texts(1)}
MCQueries ==
  {<<"a">>, <<"b">>, <<"x">>, <<"a", "b">>, <<"a", "a">>, <<"a", "x">>, <<"a", "b", "x">>,
   <<"a", "b", "a", "x">>}
MCStray == {[num |-> n, den |-> 1] : n \in {0, 2}} \cup {[num |-> 0, den |-> 0]}
=============================================================================
