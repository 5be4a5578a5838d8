---------------------------- MODULE PlaylistList ----------------------------
(***************************************************************************)
(* What a playlist is to its users: a list of songs that one edit at a     *)
(* time changes, and from which a library scan takes the songs that are    *)
(* gone.  A scan that overlaps an edit leaves the list unsettled: nothing  *)
(* is promised about it until a scan that overlaps none settles it again.  *)
(***************************************************************************)
EXTENDS Integers, Sequences, FiniteSets

CONSTANTS Songs,
          Adds         \* the lists of songs an edit may append

VARIABLES status,      \* "list", "unsettled" or "dropped"
          list         \* the songs, while status is "list"

vars == <<status, list>>

\* The elements of s at the indices P, which count from 0, in their order.
Kept(s, P) ==
    [n \in 1 .. Cardinality(P) |->
        s[1 + CHOOSE i \in P : Cardinality({j \in P : j < i}) = n - 1]]

Indices(s) == 0 .. Len(s) - 1
Without(s, P) == Kept(s, Indices(s) \ P)

Init == status = "list" /\ list \in Seq(Songs)

\* updatePlaylist: remove by index, then append.
Edit(P, add) == list' = Without(list, P) \o add

\* createPlaylist with the id of the playlist: a new list.
Replace(add) == list' = add

\* A scan: the songs S are gone, the others keep their order.
Purge(S) == list' = Kept(list, {i \in Indices(list) : list[i + 1] \notin S})

Change ==
    /\ status = "list"
    /\ status' = "list"
    /\ \/ \E P \in SUBSET Indices(list), add \in Adds : Edit(P, add)
       \/ \E add \in Adds : Replace(add)
       \/ \E S \in SUBSET Songs : Purge(S)

Unsettle ==
    /\ status = "list"
    /\ status' = "unsettled"
    /\ list' = <<>>

Settle ==
    /\ status = "unsettled"
    /\ status' = "list"
    /\ list' \in Seq(Songs)

Drop ==
    /\ status # "dropped"
    /\ status' = "dropped"
    /\ list' = <<>>

Next == Change \/ Unsettle \/ Settle \/ Drop

Spec == Init /\ [][Next]_vars

=============================================================================
