------------------------------ MODULE Playlist ------------------------------
(***************************************************************************)
(* One playlist in PostgreSQL (repos/postgres/playlist.go), edited by the  *)
(* transactions of the playlist handlers (handlers/subsonic_playlists.go)  *)
(* while the transaction of a library scan removes songs and renumbers the *)
(* tracks (scanner/scan.go).                                               *)
(*                                                                         *)
(* Transactions run at the default level, read committed.  A statement     *)
(* takes a snapshot of the rows it matches, waits until none of them is    *)
(* locked by another transaction, and then applies to those that still     *)
(* exist and still match.  Handlers serialise on the row of the playlist,  *)
(* which they update first; the scan never touches it.  A transaction may  *)
(* be rolled back at any time: cancelled request, deadlock, lost           *)
(* connection.                                                             *)
(***************************************************************************)
EXTENDS Integers, FiniteSets, Sequences, FiniteSetsExt, SequencesExt

CONSTANTS Clients,
          Scan,         \* the transaction of the scanner
          Songs,
          MaxRows,      \* bound: rows of playlist_song
          MaxTrack,     \* bound: track numbers
          Lists,        \* the initial contents of the playlist
          Removals,     \* the sets of indices clients ask to remove
          Adds,         \* the lists of songs clients send
          Purges,       \* the sets of songs that vanish, or are hidden
          MaxEdits,     \* bound: transactions of clients
          MaxScans,     \* bound: transactions of the scanner
          NoRow, NoTx

ASSUME PlaylistAssumption ==
    /\ Scan \notin Clients
    /\ NoTx \notin Clients \cup {Scan}
    /\ MaxRows \in Nat
    /\ MaxTrack \in Nat
    /\ MaxRows <= MaxTrack + 1
    /\ NoRow \notin [song : Songs, track : 0 .. MaxTrack]
    /\ Lists \subseteq Seq(Songs)
    /\ \A s \in Lists : Len(s) <= MaxRows
    /\ Adds \subseteq Seq(Songs)
    /\ Purges \subseteq SUBSET Songs
    /\ MaxEdits \in Nat
    /\ MaxScans \in Nat
    /\ Removals \subseteq SUBSET (0 .. MaxTrack)

Txs == Clients \cup {Scan}
Ids == 1 .. MaxRows

VARIABLES
    com,       \* com[i]: the committed version of row i, or NoRow
    cur,       \* cur[i]: its latest version
    lock,      \* lock[i]: the transaction that wrote cur[i], or NoTx
    owner,     \* the transaction that locks the row of playlists, or NoTx
    exists,    \* the row of playlists exists
    songs,     \* songs[s]: "live", "dying" (deleted, uncommitted) or "dead"
    tx,        \* tx[t]: the transaction
    begun,     \* begun.edits, begun.scans: transactions begun
    settled    \* history: no scan overlapped an edit, or one that overlapped
               \* none has committed since

table == <<com, cur, lock>>
vars == <<com, cur, lock, owner, exists, songs, tx, begun,
          settled>>

(***************************************************************************)
(* A transaction runs prog, a sequence of statements.  taken says that the *)
(* current statement has its snapshot, snap; busy that some statement had  *)
(* one; deferred that playlist_song_pkey is checked at the end only; alone *)
(* (for the scan) that no edit has been busy while the scan was.           *)
(***************************************************************************)
Idle == [pc |-> "idle", rm |-> {}, add |-> <<>>, count |-> 0, prog |-> <<>>,
         taken |-> FALSE, snap |-> <<>>, busy |-> FALSE, deferred |-> FALSE,
         alone |-> TRUE]

Statement(kind, arg) == [kind |-> kind, arg |-> arg]

\* The rows of a list of songs, numbered from 0.
Numbered(s) ==
    [i \in Ids |-> IF i <= Len(s) THEN [song |-> s[i], track |-> i - 1] ELSE NoRow]

Init ==
    /\ \E s \in Lists : com = Numbered(s)
    /\ cur = com
    /\ lock = [i \in Ids |-> NoTx]
    /\ owner = NoTx
    /\ exists = TRUE
    /\ songs = [s \in Songs |-> "live"]
    /\ tx = [t \in Txs |-> Idle]
    /\ begun = [edits |-> 0, scans |-> 0]
    /\ settled = TRUE

\* The version of row i that t sees.
Sees(t, i) == IF lock[i] = t THEN cur[i] ELSE com[i]
Visible(t) == {i \in Ids : Sees(t, i) # NoRow}
Tracks(t) == {Sees(t, i).track : i \in Visible(t)}

-----------------------------------------------------------------------------
(* The handlers and the scan, as the statements they send *)

BeginEdit ==
    /\ begun.edits < MaxEdits
    /\ begun' = [begun EXCEPT !.edits = @ + 1]

Adding(add) == IF add = <<>> THEN <<>> ELSE <<Statement("add", add)>>

Removing(rm) ==
    IF rm = {} THEN <<>> ELSE <<Statement("remove", rm), Statement("shift", rm)>>

\* handleUpdatePlaylist: FindByID counts the tracks, without any lock.
FindForUpdate(c, rm, add) ==
    /\ tx[c].pc = "idle"
    /\ BeginEdit
    /\ exists
    /\ tx' = [tx EXCEPT ![c] = [Idle EXCEPT !.pc = "found", !.rm = rm, !.add = add,
                                            !.count = Cardinality(Visible(c))]]
    /\ UNCHANGED <<table, owner, exists, songs, settled>>

\* Update locks the row of the playlist, then the indices are validated; both
\* may fail, with a rollback.
Touch(c) ==
    /\ tx[c].pc = "found"
    /\ owner = NoTx
    /\ exists
    /\ \A i \in tx[c].rm : i < tx[c].count
    /\ owner' = c
    /\ tx' = [tx EXCEPT ![c].pc = "edit", ![c].count = 0,
                        ![c].prog = Removing(tx[c].rm) \o Adding(tx[c].add)]
    /\ UNCHANGED <<table, exists, songs, begun, settled>>

\* handleCreatePlaylist with a playlistId: Update, ClearTracks, AddTracks.
ReplaceTracks(c, add) ==
    /\ tx[c].pc = "idle"
    /\ BeginEdit
    /\ owner = NoTx
    /\ exists
    /\ owner' = c
    /\ tx' = [tx EXCEPT ![c] =
                [Idle EXCEPT !.pc = "replace", !.add = add,
                             !.prog = <<Statement("clear", {})>> \o Adding(add)]]
    /\ UNCHANGED <<table, exists, songs, settled>>

\* handleDeletePlaylist: the rows of playlist_song go with the playlist.
Delete(c) ==
    /\ tx[c].pc = "idle"
    /\ BeginEdit
    /\ owner = NoTx
    /\ exists
    /\ owner' = c
    /\ tx' = [tx EXCEPT ![c] = [Idle EXCEPT !.pc = "drop",
                                            !.prog = <<Statement("clear", {})>>]]
    /\ UNCHANGED <<table, exists, songs, settled>>

\* The scan: songs that are gone, then those the owner of the playlist may not
\* see any more, then FixTrackNumbers.
StartScan(gone, hidden) ==
    /\ tx[Scan].pc = "idle"
    /\ begun.scans < MaxScans
    /\ begun' = [begun EXCEPT !.scans = @ + 1]
    /\ tx' = [tx EXCEPT ![Scan] =
                [Idle EXCEPT !.pc = "scan",
                             !.prog = <<Statement("songs", gone),
                                        Statement("hidden", hidden),
                                        Statement("fix", {})>>]]
    /\ UNCHANGED <<table, owner, exists, songs, settled>>

-----------------------------------------------------------------------------
(* Statements *)

\* Mutant: every row moves up by the number of all removed tracks.
ShiftedAll(track, rm) == track - Cardinality(rm)

\* The CASE of RemoveTracks: track minus the number of removed tracks below.
Shifted(track, rm) == track - Cardinality({r \in rm : r < track})

\* Mutant: row_number() counts from 1.
NewTrackFromOne(t, i) ==
    Cardinality({j \in Visible(t) : Sees(t, j).track <= Sees(t, i).track})

\* Mutant: row_number() counts in the wrong order.
NewTrackDescending(t, i) ==
    Cardinality({j \in Visible(t) : Sees(t, j).track > Sees(t, i).track})

\* The row_number() - 1 of FixTrackNumbers.
NewTrack(t, i) == Cardinality({j \in Visible(t) : Sees(t, j).track < Sees(t, i).track})

\* FixTrackNumbers joins on the song, not on the track: of the rows with the
\* same song, any whose new number differs from the track may be taken.
FixCandidates(t, i) ==
    {NewTrack(t, j) : j \in {j \in Visible(t) : Sees(t, j).song = Sees(t, i).song}}
        \ {Sees(t, i).track}

\* Does statement st match version v of row i?
Matches(st, snap, i, v) ==
    CASE st.kind = "remove" -> v.track \in st.arg
      [] st.kind = "shift" -> v.track > Min(st.arg)
      [] st.kind = "clear" -> TRUE
      [] st.kind \in {"songs", "hidden"} -> v.song \in st.arg
      [] st.kind = "fix" -> v.track # snap[i]

NewVersion(st, snap, i, v) ==
    CASE st.kind = "shift" -> [v EXCEPT !.track = Shifted(@, st.arg)]
      [] st.kind = "fix" -> [v EXCEPT !.track = snap[i]]
      [] OTHER -> NoRow

\* A snapshot is a function on the rows matched; FixTrackNumbers has their new
\* numbers in it.  AddTracks reads the greatest track number.
Snapshots(t, st) ==
    CASE st.kind = "add" -> {<<Max(Tracks(t) \cup {-1})>>}
      [] st.kind = "fix" ->
            LET T == {i \in Visible(t) : FixCandidates(t, i) # {}}
            IN  {f \in [T -> Ids \cup {0}] : \A i \in T : f[i] \in FixCandidates(t, i)}
      [] OTHER -> {[i \in {i \in Visible(t) : Matches(st, <<>>, i, Sees(t, i))} |-> 0]}

\* DELETE FROM songs waits for the transactions that have inserted the songs.
InsertedElsewhere(t, S) ==
    \E i \in Ids : lock[i] \notin {t, NoTx} /\ cur[i] # NoRow /\ cur[i].song \in S

TakeSnapshot(t) ==
    /\ tx[t].prog # <<>>
    /\ ~tx[t].taken
    /\ LET st == Head(tx[t].prog)
       IN  /\ st.kind = "songs" => ~InsertedElsewhere(t, st.arg)
           /\ songs' = [s \in Songs |->
                          IF st.kind = "songs" /\ s \in st.arg /\ songs[s] = "live"
                          THEN "dying" ELSE songs[s]]
           /\ \E f \in Snapshots(t, st) :
                 tx' = [u \in Txs |->
                          IF u = t
                          THEN [tx[t] EXCEPT !.taken = TRUE, !.snap = f, !.busy = TRUE,
                                   !.alone = @ /\ \A c \in Clients : t = Scan => ~tx[c].busy]
                          ELSE [tx[u] EXCEPT !.alone = @ /\ ~(u = Scan /\ tx[u].busy)]]
    /\ UNCHANGED <<table, owner, exists, begun, settled>>

Advance(t) ==
    tx' = [tx EXCEPT ![t].prog = Tail(@), ![t].taken = FALSE, ![t].snap = <<>>,
                     ![t].deferred = @ \/ Head(tx[t].prog).kind = "shift"]

\* The rows that hold the key of row i of t, or may come to hold it.
Rivals(t, c, l, i) ==
    {j \in Ids \ {i} :
        \/ c[j] # NoRow /\ c[j].track = c[i].track
        \/ l[j] # t /\ com[j] # NoRow /\ com[j].track = c[i].track}

\* playlist_song_pkey for what t wrote: a rival that another transaction has
\* locked makes t wait, any other one makes it fail.
KeysUnique(t, c, l) ==
    \A i \in Ids : l[i] = t /\ c[i] # NoRow => Rivals(t, c, l, i) = {}

\* Mutant: RemoveTracks does not compare the number of deleted rows.
CompleteUnchecked(st, affected) == TRUE

\* RemoveTracks: count != len(trackNumbers) is ErrNotFound.
Complete(st, affected) ==
    st.kind = "remove" => Cardinality(affected) = Cardinality(st.arg)

\* UPDATE and DELETE, once the rows of the snapshot are not locked elsewhere.
Execute(t) ==
    LET st == Head(tx[t].prog)
        f == tx[t].snap
        affected == {i \in DOMAIN f : Sees(t, i) # NoRow /\ Matches(st, f, i, Sees(t, i))}
        c == [i \in Ids |-> IF i \in affected THEN NewVersion(st, f, i, Sees(t, i))
                                              ELSE cur[i]]
        l == [i \in Ids |-> IF i \in affected THEN t ELSE lock[i]]
    IN  /\ tx[t].taken
        /\ st.kind # "add"
        /\ \A i \in DOMAIN f : lock[i] \in {t, NoTx}
        /\ Complete(st, affected)
        /\ tx[t].deferred \/ st.kind = "shift" \/ KeysUnique(t, c, l)
        /\ cur' = c
        /\ lock' = l
        /\ Advance(t)
        /\ UNCHANGED <<com, owner, exists, songs, begun, settled>>

FreeIds == {i \in Ids : com[i] = NoRow /\ lock[i] = NoTx}

\* New rows take the free ids in their order.
Place(i) == Cardinality({j \in FreeIds : j <= i})

\* INSERT; the foreign key waits for a song that is being deleted and fails for
\* a deleted one.
Insert(t) ==
    LET st == Head(tx[t].prog)
        n == Len(st.arg)
        new == {i \in FreeIds : Place(i) <= n}
        c == [i \in Ids |->
                IF i \in new
                THEN [song |-> st.arg[Place(i)], track |-> tx[t].snap[1] + Place(i)]
                ELSE cur[i]]
        l == [i \in Ids |-> IF i \in new THEN t ELSE lock[i]]
    IN  /\ tx[t].taken
        /\ st.kind = "add"
        /\ Cardinality(FreeIds) >= n
        /\ tx[t].snap[1] + n <= MaxTrack
        /\ \A s \in ToSet(st.arg) : songs[s] = "live"
        /\ tx[t].deferred \/ KeysUnique(t, c, l)
        /\ cur' = c
        /\ lock' = l
        /\ Advance(t)
        /\ UNCHANGED <<com, owner, exists, songs, begun, settled>>

-----------------------------------------------------------------------------
(* The end of a transaction *)

End(t) ==
    /\ lock' = [i \in Ids |-> IF lock[i] = t THEN NoTx ELSE lock[i]]
    /\ owner' = IF owner = t THEN NoTx ELSE owner
    /\ tx' = [tx EXCEPT ![t] = Idle]

Commit(t) ==
    /\ tx[t].pc \notin {"idle", "found"}
    /\ tx[t].prog = <<>>
    /\ KeysUnique(t, cur, lock)
    /\ com' = [i \in Ids |-> IF lock[i] = t THEN cur[i] ELSE com[i]]
    /\ exists' = (exists /\ tx[t].pc # "drop")
    /\ songs' = [s \in Songs |-> IF t = Scan /\ songs[s] = "dying" THEN "dead" ELSE songs[s]]
    /\ settled' = IF t = Scan THEN tx[t].alone ELSE settled
    /\ End(t)
    /\ UNCHANGED <<cur, begun>>

Rollback(t) ==
    /\ tx[t].pc # "idle"
    /\ cur' = [i \in Ids |-> IF lock[i] = t THEN com[i] ELSE cur[i]]
    /\ songs' = [s \in Songs |-> IF t = Scan /\ songs[s] = "dying" THEN "live" ELSE songs[s]]
    /\ End(t)
    /\ UNCHANGED <<com, exists, begun, settled>>

-----------------------------------------------------------------------------

Next ==
    \/ \E c \in Clients :
          \/ \E rm \in Removals, add \in Adds : FindForUpdate(c, rm, add)
          \/ Touch(c)
          \/ \E add \in Adds : ReplaceTracks(c, add)
          \/ Delete(c)
    \/ \E gone, hidden \in Purges : StartScan(gone, hidden)
    \/ \E t \in Txs : TakeSnapshot(t) \/ Execute(t) \/ Insert(t) \/ Commit(t) \/ Rollback(t)

Spec == Init /\ [][Next]_vars

-----------------------------------------------------------------------------
(* Properties *)

Rows == [song : Songs, track : 0 .. MaxTrack]

\* Rows have songs and track numbers from 0 on, whatever is subtracted from them.
TypeOK ==
    /\ com \in [Ids -> Rows \cup {NoRow}]
    /\ cur \in [Ids -> Rows \cup {NoRow}]
    /\ lock \in [Ids -> Txs \cup {NoTx}]
    /\ owner \in Clients \cup {NoTx}
    /\ exists \in BOOLEAN
    /\ songs \in [Songs -> {"live", "dying", "dead"}]
    /\ \A t \in Txs : tx[t].pc \in {"idle", "found", "edit", "replace", "drop", "scan"}
    /\ settled \in BOOLEAN

Committed == {i \in Ids : com[i] # NoRow}

(***************************************************************************)
(* The track numbers of a settled playlist are 0 .. n-1 without gaps, the  *)
(* numbering by which handleUpdatePlaylist takes a client's index for a    *)
(* track number; and every scan that no edit overlaps restores it.         *)
(***************************************************************************)
Contiguous ==
    settled => {com[i].track : i \in Committed} = 0 .. Cardinality(Committed) - 1

\* GetTracks: the songs in the order of their tracks.
AsList ==
    [n \in 1 .. Cardinality(Committed) |->
        com[CHOOSE i \in Committed :
              Cardinality({j \in Committed : com[j].track < com[i].track}) = n - 1].song]

\* How PlaylistList sees the table.
Status == IF ~exists THEN "dropped" ELSE IF settled THEN "list" ELSE "unsettled"

List == INSTANCE PlaylistList
          WITH status <- Status,
               list <- IF Status = "list" THEN AsList ELSE <<>>

(***************************************************************************)
(* While scans and edits do not overlap, the table implements a list that  *)
(* one edit at a time changes (PlaylistList), although transactions of     *)
(* several clients interleave.                                             *)
(***************************************************************************)
ImplementsList == List!Spec

CommitsEdit(c) == tx[c].pc = "edit" /\ tx[c].prog = <<>> /\ com' # com /\ tx'[c] = Idle

(***************************************************************************)
(* An edit that commits has removed exactly as many songs as the client    *)
(* named, whatever a scan did meanwhile to the tracks it counted before it *)
(* had the lock; and in a settled playlist it has removed the very songs   *)
(* the client's indices stand for and appended the ones it sent.           *)
(***************************************************************************)
EditsExactly ==
    [][\A c \in Clients : CommitsEdit(c) =>
          /\ Cardinality({i \in Committed : com'[i] = NoRow}) = Cardinality(tx[c].rm)
          /\ settled => AsList' = List!Without(AsList, tx[c].rm) \o tx[c].add]_vars

(***************************************************************************)
(* FixTrackNumbers of an undisturbed scan gives no two tracks the same     *)
(* number: "PRIMARY KEY (playlist_id,track)" (repos/migrations,            *)
(* make_playlist_song_pkey_deferrable) holds when the statement ends.      *)
(***************************************************************************)
FixKeepsKeys ==
    LET t == tx[Scan]
        Fixed(i) == IF i \in DOMAIN t.snap THEN t.snap[i] ELSE Sees(Scan, i).track
    IN  t.alone /\ t.taken /\ Head(t.prog).kind = "fix" =>
            \A i, j \in Visible(Scan) : i # j => Fixed(i) # Fixed(j)

=============================================================================
