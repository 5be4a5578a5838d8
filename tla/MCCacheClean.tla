---------------------------- MODULE MCCacheClean ----------------------------
(* CacheClean for TLC: objects are interchangeable. *)
EXTENDS CacheClean, TLC

ObjectSymmetry == Permutations(Objects)

=============================================================================
