---------------------------- MODULE MCDictionary ----------------------------
(***************************************************************************)
(* Instances of Dictionary for TLC: two letters and a digit.  The short    *)
(* words, and with them words that tie and words that have a character     *)
(* twice, can all be in the dictionary; what is sought may have a character *)
(* up to MaxSought times.  The letters are ones of three bytes that differ *)
(* in the last byte only.                                                  *)
(***************************************************************************)
EXTENDS Dictionary

CONSTANTS MaxWord, MaxSought

Strings(chars, max) == UNION {[1..n -> chars] : n \in 1..max}

MCWords == Strings({"a", "b"}, MaxWord) \cup {<<"1">>, <<"a", "1">>}
MCSoughts == {<<>>} \cup Strings({"a", "b", "1"}, MaxSought)
MCDigits == {"1"}
MCBytes == [a |-> <<228, 184, 128>>, b |-> <<228, 184, 129>>] @@ ("1" :> <<49>>)
MCFreq == [w \in MCWords |-> IF w[1] = "a" THEN 2 ELSE Len(w)]
=============================================================================
