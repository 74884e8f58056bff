---------------------------- MODULE MCCacheRounds ----------------------------
(* Instances of CacheRounds for TLC. *)
EXTENDS CacheRounds

CONSTANTS k1, k2, k3, k4

MCKeys == {k1, k2, k3, k4}
MCLibraries == {<<>>, <<k1, k2, k3>>}
==============================================================================
