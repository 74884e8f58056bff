----------------------------- MODULE MCEventLoop -----------------------------
(* Instances of EventLoop for TLC. *)
EXTENDS EventLoop, TLC

CONSTANTS f1, f2, f3, s1, s2, s3, w1, w2, efd

MCFunctors3 == {f1, f2, f3}
MCSockets3 == {s1, s2, s3}
MCWorkers == {w1, w2}
==============================================================================
