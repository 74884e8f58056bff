------------------------------ MODULE MCServer ------------------------------
(* Instances of Server for TLC. *)
EXTENDS Server, TLC

CONSTANTS c1, c2, c3, w1, w2

MCClients2 == {c1, c2}
MCClients3 == {c1, c2, c3}
MCWorkers == {w1, w2}
MCOneImpatient == {c1}

ImpatientSymmetric == Permutations(MCWorkers) \cup Permutations({c2, c3})
=============================================================================
