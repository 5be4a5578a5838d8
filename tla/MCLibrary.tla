------------------------------ MODULE MCLibrary ------------------------------
(* The library for TLC: a file in each of two music dirs.  The tags share an   *)
(* album name, MusicBrainz ids of albums and of artists, or none of them; one  *)
(* has no album artist.  The configurations differ in the users of a dir, in   *)
(* the number of dirs and only in "no users list" against an empty one.        *)
EXTENDS Browse

CONSTANTS f1, f2, d1, d2, u1, u2

MCFiles == {f1, f2}
MCDirOf == [f \in MCFiles |-> IF f = f2 THEN d2 ELSE d1]
dir(d, us) == [dir |-> d, users |-> us]
MCFirstConfigs == {<<dir(d1, None), dir(d2, {u1})>>, <<dir(d2, None)>>}
MCConfigs == MCFirstConfigs \cup {<<dir(d1, {}), dir(d2, {u1})>>}

x == [name |-> "x", mbid |-> None]
y == [name |-> "y", mbid |-> "n"]
z == [name |-> "z", mbid |-> "n"]
w == [name |-> "w", mbid |-> "n"]
tag(al, m, as, aas, g) ==
    [album |-> al, rel |-> None, mbid |-> m, version |-> None, released |-> None,
     original |-> None, artists |-> as, albumArtists |-> aas, genres |-> g]
MCTags == {tag("A", None, <<x>>, <<x>>, {"g"}), tag("A", "m", <<x>>, <<y>>, {}),
           tag("B", "m", <<z>>, <<z>>, {"g"}), tag("C", "m", <<w>>, <<>>, {})}

MCRequested == {<<>>, <<2>>, <<1, 1>>}
=============================================================================
