---------------------------- MODULE MCScrobbles ----------------------------
(* Scrobbles for TLC: one user with listens on all sides of the tests of the *)
(* duration, more than a slice of them, and another user with one.           *)
EXTENDS Scrobbles

MCListen == {"a", "b", "c", "d", "e"}
MCUserOf == [l \in MCListen |-> IF l = "e" THEN "v" ELSE "u"]
MCPlayed == [l \in MCListen |-> CASE l = "b" -> "half" [] l = "d" -> "unknown"
                                  [] OTHER -> "long"]
MCSubmissions == {{"a", "b", "c", "d"}, {"a", "b"}, {"e"}}
=============================================================================
