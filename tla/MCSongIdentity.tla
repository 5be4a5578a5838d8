--------------------------- MODULE MCSongIdentity ---------------------------
(* SongIdentity for TLC: two paths in one directory, one in another, and     *)
(* tags that differ in the release and the artist.                           *)
EXTENDS SongIdentity, TLC

CONSTANTS p1, p2, p3, d1, d2

MCPaths == {p1, p2, p3}
MCDirOf == [p \in MCPaths |-> IF p = p3 THEN d2 ELSE d1]
MCMetas == {[mbid |-> "m", release |-> "r", group |-> "g", artist |-> "a"],
            [mbid |-> "m", release |-> None, group |-> "g", artist |-> "b"]}

PathSymmetry == Permutations({p1, p2})
=============================================================================
