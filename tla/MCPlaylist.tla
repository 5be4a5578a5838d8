----------------------------- MODULE MCPlaylist -----------------------------
(* Playlist for TLC. *)
EXTENDS Playlist, TLC

CONSTANTS s1, s2, s3

ThreeSongs == {<<s1, s2, s3>>, <<s1, s2, s1>>}
NothingOrOne == {<<>>, <<s1>>}
FewIndices == {{}, {1}, {0, 2}}

FewPurges == {{}, {s2}}

ClientSymmetry == Permutations(Clients)

=============================================================================
