---------------------------- MODULE MCCacheStore ----------------------------
(* CacheStore for TLC. *)
EXTENDS CacheStore, TLC

RequestSymmetry == Permutations(Requests)

\* States that differ only in objects and inodes nobody can reach any more
\* (what the garbage collector and the file system reclaimed) are one state.
Reachable ==
    <<[o \in Ids |-> IF InUse(o) THEN <<objs[o], okey[o], prod[o]>> ELSE <<>>],
      [i \in Ids |-> IF InodeInUse(i) THEN ilen[i] ELSE 0],
      cmap, disk, req, op, phase, dir, mishaps, stuck, suspect>>

=============================================================================
