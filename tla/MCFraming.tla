------------------------------ MODULE MCFraming ------------------------------
(* Instances of Framing for TLC.  Ten is the length with a newline in it. *)
EXTENDS Framing

MCLengths == {0, 2, 10}
MCShortLengths == {0, 1, 9, 10, 11}
=============================================================================
