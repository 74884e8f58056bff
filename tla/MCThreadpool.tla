---------------------------- MODULE MCThreadpool ----------------------------
(* Instances of Threadpool for TLC. *)
EXTENDS Threadpool

CONSTANTS t1, t2, t3, t4, w1, w2, w3, io0

MCTasks4 == {t1, t2, t3, t4}
MCWorkers3 == {w1, w2, w3}
MCSpuriousAll == MCWorkers3 \cup {io0}
=============================================================================
