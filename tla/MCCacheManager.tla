---------------------------- MODULE MCCacheManager ----------------------------
(* Instances of CacheManager for TLC.  The keys are as the queries "a",    *)
(* "a:" and "a:b": the file gives back the first for each of them.         *)
EXTENDS CacheManager

CONSTANTS ka, kb, kc

MCKeys == {ka, kb, kc}
MCReadBack == [k \in MCKeys |-> ka]
MCOnlyColons == {kb}
MCTwoKeys == {ka, kb}
MCWholeKeys == [k \in MCTwoKeys |-> k]
===============================================================================
