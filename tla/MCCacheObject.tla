---------------------------- MODULE MCCacheObject ----------------------------
(* CacheObject for TLC: readers are interchangeable. *)
EXTENDS CacheObject, TLC

ReaderSymmetry == Permutations(Readers)

=============================================================================
