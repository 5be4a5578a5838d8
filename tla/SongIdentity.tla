---------------------------- MODULE SongIdentity ----------------------------
(***************************************************************************)
(* Which song of the database a file is, from one scan to the next: what   *)
(* the walk reads (src/scanner/scan.go), how createOrUpdateSongs finds the *)
(* song of a file by the id stored in its tags, by its path or by its      *)
(* MusicBrainz ids (src/scanner/song_queue.go), and which songs the scan   *)
(* deletes (src/scanner/clean.go), while the owner of the files adds,      *)
(* removes, moves, copies and retags them at any time.                     *)
(*                                                                         *)
(* The changes of a scan are made in one transaction: scan.tx is the table *)
(* as it sees it.  The tags it writes stay when it is rolled back.  Times  *)
(* are kept relative to the last scan: `mod` says that a file's            *)
(* modification time is later, `chg` that its modification or change time  *)
(* is, `dirty` is the set of directories for which one of them is.  The    *)
(* row of a song's album holds the release and the release group of the    *)
(* song's own tags (src/scanner/album_map.go; see Catalog).                *)
(***************************************************************************)
EXTENDS Integers, FiniteSets, Functions

CONSTANTS
    Paths,      \* paths of media files
    DirOf,      \* the directory of each path
    Ids,        \* song ids, ordered
    Metas,      \* tags a file may have: [mbid, release, group, artist]
    NoFile,     \* what a free path holds
    None,       \* a tag that is not there
    Batch,      \* songQueueBatchSize
    PageSize,   \* deleteOrphanedSongsByPathBatchSize
    MaxEdits,   \* bound: changes of the files
    MaxScans    \* bound: scans

ASSUME IdentityAssumption ==
    /\ DirOf \in [Paths -> Range(DirOf)]
    /\ Ids \subseteq Nat
    /\ None \notin Ids
    /\ Batch \in Nat \ {0}
    /\ PageSize \in Nat \ {0}

VARIABLES
    disk,       \* the file at each path
    dirty,      \* directories changed since the last scan
    songs,      \* the songs table as committed: id -> row
    scanned,    \* system.last-scan is set
    scan,       \* the running scan
    past,       \* history of what the properties except: stale paths, whose file was
                \* changed during a scan that had read it; twins, ids that two files
                \* got and those of files whose song another file became; aged songs,
                \* last read with an old modification time
    edits,      \* changes of the files so far
    scans       \* scans so far

vars == <<disk, dirty, songs, scanned, scan, past, edits, scans>>

Dirs == Range(DirOf)
Files == [tag : Ids \cup {None}, meta : Metas, mod : BOOLEAN, chg : BOOLEAN]
Rows == [path : Paths, meta : Metas, artists : SUBSET {m.artist : m \in Metas}]
Empty == <<>>

ASSUME NoFileAssumption == NoFile \notin Files

New == [tag : {None}, meta : Metas, mod : {TRUE}, chg : {TRUE}]

Idle == [pc |-> "idle", full |-> FALSE, first |-> FALSE, left |-> {}, todo |-> {},
         queue |-> {}, tx |-> Empty, seen |-> {}, found |-> 0, read |-> {},
         changed |-> {}, aged |-> {}]

Init ==
    /\ disk \in [Paths -> {NoFile} \cup New]
    /\ dirty = Dirs
    /\ songs = Empty
    /\ scanned = FALSE
    /\ scan = Idle
    /\ past = [stale |-> {}, twins |-> {}, aged |-> {}]
    /\ edits = 0
    /\ scans = 0

Held(p) == disk[p] # NoFile
Rank(s, i) == Cardinality({j \in s : j < i})

-----------------------------------------------------------------------------
(* What the owner of the files does.  *)

\* The files at ps change to what d holds; the directories of ds with them.
Edit(d, ps, ds) ==
    /\ edits < MaxEdits
    /\ edits' = edits + 1
    /\ disk' = d
    /\ dirty' = dirty \cup ds
    /\ scan' = IF scan.pc = "idle" THEN scan ELSE [scan EXCEPT !.changed = @ \cup ps]
    /\ UNCHANGED <<songs, scanned, past, scans>>

\* A file from elsewhere; its modification time may be an old one.
Add(p, meta, mod) ==
    /\ ~Held(p)
    /\ Edit([disk EXCEPT ![p] = [tag |-> None, meta |-> meta, mod |-> mod, chg |-> TRUE]],
            {p}, {DirOf[p]})

Remove(p) ==
    /\ Held(p)
    /\ Edit([disk EXCEPT ![p] = NoFile], {p}, {DirOf[p]})

\* A rename changes the file's change time, not its modification time.
Move(p, q) ==
    /\ Held(p)
    /\ ~Held(q)
    /\ Edit([disk EXCEPT ![p] = NoFile, ![q] = [disk[p] EXCEPT !.chg = TRUE]],
            {p, q}, {DirOf[p], DirOf[q]})

Copy(p, q) ==
    /\ Held(p)
    /\ ~Held(q)
    /\ Edit([disk EXCEPT ![q] = [disk[p] EXCEPT !.mod = TRUE, !.chg = TRUE]],
            {q}, {DirOf[q]})

Retag(p, meta) ==
    /\ Held(p)
    /\ disk[p].meta # meta
    /\ Edit([disk EXCEPT ![p].meta = meta, ![p].mod = TRUE, ![p].chg = TRUE], {p}, {})

-----------------------------------------------------------------------------
(* The walk.  *)

\* Scan up to the walk: the first scan of all is a full one, a scan of an
\* empty table takes every file for a new one.
Start(full) ==
    /\ scan.pc = "idle"
    /\ scans < MaxScans
    /\ scans' = scans + 1
    /\ scan' = [Idle EXCEPT !.pc = "walk", !.full = full \/ ~scanned,
                            !.first = ~scanned \/ DOMAIN songs = {},
                            !.left = Dirs, !.tx = songs, !.aged = past.aged]
    /\ UNCHANGED <<disk, dirty, songs, scanned, past, edits>>

\* lastScan is the zero time.
Everything == scan.full \/ scan.first

\* scanMediaFilesInDir reads a directory.
ListDir(d) ==
    /\ scan.pc = "walk"
    /\ d \in scan.left
    /\ scan' = [scan EXCEPT
         !.left = @ \ {d},
         !.changed = @ \ {p \in Paths : DirOf[p] = d /\ ~Held(p)},
         !.todo = @ \cup {[path |-> p, changed |-> Everything \/ d \in dirty] :
                             p \in {q \in Paths : Held(q) /\ DirOf[q] = d}}]
    /\ UNCHANGED <<disk, dirty, songs, scanned, past, edits, scans>>

Rollback ==
    /\ scan' = Idle
    /\ UNCHANGED <<dirty, songs, scanned, past, edits, scans>>

\* processFile: an unchanged file in an unchanged directory is skipped, a
\* file that is gone fails the scan.
ProcessFile(e) ==
    /\ scan.pc = "walk"
    /\ e \in scan.todo
    /\ Cardinality(scan.queue) < Batch
    /\ \/ /\ ~Held(e.path)
          /\ Rollback
       \/ /\ Held(e.path)
          /\ LET f == disk[e.path]
                 read == Everything \/ e.changed \/ f.chg
             IN  scan' = [scan EXCEPT
                   !.todo = @ \ {e},
                   !.read = IF read THEN @ \cup {e.path} ELSE @,
                   !.changed = IF read THEN @ \ {e.path} ELSE @,
                   !.queue = IF ~read THEN @
                             ELSE @ \cup {[path |-> e.path, tag |-> f.tag, meta |-> f.meta,
                                           fresh |-> Everything \/ f.mod]}]
          /\ UNCHANGED <<dirty, songs, scanned, past, edits, scans>>
    /\ UNCHANGED disk

-----------------------------------------------------------------------------
(* createOrUpdateSongs.  *)

\* An UPDATE that joins ids with files takes one of the files of each id.
Picks(rows) ==
    {g \in [{r[1] : r \in rows} -> {r[2] : r \in rows}] :
        \A i \in DOMAIN g : <<i, g[i]>> \in rows}

\* The other songs that hold the path an UPDATE gives to song i.
Holders(tx, i, p) == {j \in DOMAIN tx \ {i} : tx[j].path = p}

\* songs.path is unique, and checked row by row in an order the server picks.
MayCollide(tx, pick) == \E i \in DOMAIN pick : Holders(tx, i, pick[i].path) # {}
MaySucceed(tx, pick) ==
    \E rank \in [DOMAIN pick -> 1..Cardinality(DOMAIN pick)] :
        \A i \in DOMAIN pick : \A j \in Holders(tx, i, pick[i].path) :
            j \in DOMAIN pick /\ rank[j] < rank[i]

\* TryUpdateAll.
TryUpdateAll(tx, pick) ==
    [i \in DOMAIN tx |->
        IF i \in DOMAIN pick
        THEN [tx[i] EXCEPT !.path = pick[i].path, !.meta = pick[i].meta]
        ELSE tx[i]]

\* The songs a file without a usable id may be, by path before MusicBrainz
\* ids, by release before release group.
ByMBID(tx, f) ==
    LET same == {i \in DOMAIN tx : tx[i].meta.mbid = f.meta.mbid}
        release == {i \in same : /\ f.meta.release # None
                                 /\ tx[i].meta.release = f.meta.release}
        group == {i \in same : /\ tx[i].meta.release = None
                               /\ tx[i].meta.group = f.meta.group}
    IN  CASE f.meta.mbid = None -> {}
          [] f.meta.mbid # None /\ release # {} -> release
          [] OTHER -> group

\* Mutant: the MusicBrainz ids before the path.
MatchesByMBIDFirst(tx, f) ==
    IF ByMBID(tx, f) # {} THEN ByMBID(tx, f) ELSE {i \in DOMAIN tx : tx[i].path = f.path}

Matches(tx, f) ==
    LET path == {i \in DOMAIN tx : tx[i].path = f.path}
    IN  IF path # {} THEN path ELSE ByMBID(tx, f)

\* createSongsInDB inserts the files in DOMAIN new under new ids.
CreateSongsInDB(tx, new) ==
    [i \in DOMAIN tx \cup Range(new) |->
        IF i \in DOMAIN tx THEN tx[i]
        ELSE LET f == CHOOSE f \in DOMAIN new : new[f] = i
             IN  [path |-> f.path, meta |-> f.meta, artists |-> {}]]

\* Mutant: the old artists stay.
ConnectAdds(tx, id) ==
    LET fresh == {f \in DOMAIN id : f.fresh}
    IN  [i \in DOMAIN tx |->
            [tx[i] EXCEPT !.artists = @ \cup {f.meta.artist : f \in {g \in fresh : id[g] = i}}]]

\* The artists of the songs read with a modification time after the last
\* scan are replaced, those of the others are left alone.
Connect(tx, id) ==
    LET fresh == {f \in DOMAIN id : f.fresh}
    IN  [i \in DOMAIN tx |->
            IF \E f \in fresh : id[f] = i
            THEN [tx[i] EXCEPT !.artists = {f.meta.artist : f \in {g \in fresh : id[g] = i}}]
            ELSE tx[i]]

\* The files get their ids written into their tags.
SetCrossonicID(files, id) ==
    [p \in Paths |->
        IF \E f \in files : f.path = p
        THEN [disk[p] EXCEPT !.tag = id[CHOOSE f \in files : f.path = p],
                             !.mod = TRUE, !.chg = TRUE]
        ELSE disk[p]]

Free == Ids \ (DOMAIN songs \cup DOMAIN scan.tx \cup {disk[p].tag : p \in {q \in Paths : Held(q)}}
               \cup {f.tag : f \in scan.queue})

\* GenIDSong: ids are random; which of the unused ones come up is immaterial.
Fresh(n) == {i \in Free : Rank(Free, i) < n}

\* Mutant: the stored id is not looked up.
TaggedNone == {f \in scan.queue : FALSE}

\* The files updateSongs finds a song for, by their ids.
Tagged == {f \in scan.queue : f.tag # None /\ f.tag \in DOMAIN scan.tx}

\* Another file than f has the id of f: it carries it, or gets it with f.
Shared(f, id, d) ==
    \/ \E p \in Paths \ {f.path} : d[p] # NoFile /\ d[p].tag = id[f]
    \/ \E g \in DOMAIN id \ {f} : id[g] = id[f]

\* The files that were the song f is now, by a tag that no song has: one written
\* by a scan that was rolled back, say.
Robbed(f, id, d) ==
    {p \in Paths \ {f.path} : /\ id[f] \in DOMAIN scan.tx /\ scan.tx[id[f]].path = p
                              /\ d[p] # NoFile /\ d[p].tag \notin DOMAIN scan.tx}

\* The ids these files go by: their songs' and those in their tags.
Twins(id, d) ==
    (UNION {{id[f], f.tag} : f \in {g \in DOMAIN id : Shared(g, id, d)}})
    \cup (UNION {{d[p].tag : p \in Robbed(f, id, d)} : f \in DOMAIN id})

CreateOrUpdateSongs ==
    /\ scan.pc = "walk"
    /\ scan.queue # {}
    /\ Cardinality(scan.queue) = Batch \/ (scan.todo = {} /\ scan.left = {})
    /\ \E pick \in Picks({<<f.tag, f>> : f \in Tagged}) :
        LET tx1 == TryUpdateAll(scan.tx, pick)
            may == [f \in scan.queue \ Tagged |-> IF scan.first THEN {} ELSE Matches(tx1, f)]
            known == {f \in DOMAIN may : may[f] # {}}
            created == DOMAIN may \ known
        IN  \E match \in {g \in [known -> Ids] : \A f \in known : g[f] \in may[f]},
               new \in Injection(created, Fresh(Cardinality(created))) :
            \E pick2 \in Picks({<<match[f], f>> : f \in known}) :
              LET id == [f \in scan.queue |-> CASE f \in Tagged -> f.tag
                                                [] f \in known -> match[f]
                                                [] f \in created -> new[f]]
                  untagged == {f \in scan.queue : f.tag = None \/ f \in created}
              IN  \/ /\ \/ MayCollide(scan.tx, pick)
                        \/ MayCollide(tx1, pick2)
                        \/ \E f \in untagged : ~Held(f.path)
                     /\ Rollback
                     /\ UNCHANGED disk
                  \/ /\ MaySucceed(scan.tx, pick)
                     /\ MaySucceed(tx1, pick2)
                     /\ \A f \in untagged : Held(f.path)
                     /\ disk' = SetCrossonicID(untagged, id)
                     /\ scan' = [scan EXCEPT
                          !.queue = {},
                          !.tx = Connect(CreateSongsInDB(TryUpdateAll(tx1, pick2), new), id),
                          !.seen = @ \cup Range(id),
                          !.aged = {i \in @ : \A f \in scan.queue : id[f] = i => ~f.fresh}
                                   \cup {id[f] : f \in {g \in scan.queue : ~g.fresh}}]
                     /\ past' = [past EXCEPT !.twins = @ \cup (Twins(id, disk') \ {None})]
                     /\ UNCHANGED <<dirty, songs, scanned, edits, scans>>

-----------------------------------------------------------------------------
(* The end of a scan.  *)

Restricted(tx, ids) == [i \in DOMAIN tx \cap ids |-> tx[i]]

\* deleteOrphaned of a full scan.
DeleteLastUpdatedBefore ==
    /\ scan.pc = "walk"
    /\ scan.full
    /\ scan.left = {} /\ scan.todo = {} /\ scan.queue = {}
    /\ scan' = [scan EXCEPT !.pc = "commit", !.tx = Restricted(@, scan.seen)]
    /\ UNCHANGED <<disk, dirty, songs, scanned, past, edits, scans>>

\* FindPaths: the next page of the songs this scan has not updated.
Page(tx, seen, offset) ==
    LET rest == DOMAIN tx \ seen
    IN  {i \in rest : offset <= Rank(rest, i) /\ Rank(rest, i) < offset + PageSize}

\* Mutants: the offset moves past the deleted songs too; what was not updated
\* goes, as after a full scan.
DeleteSkippingPages ==
    /\ scan.pc = "walk"
    /\ ~scan.full
    /\ scan.left = {} /\ scan.todo = {} /\ scan.queue = {}
    /\ LET page == Page(scan.tx, scan.seen, scan.found)
           gone == {i \in page : ~Held(scan.tx[i].path)}
       IN  scan' = [scan EXCEPT
             !.pc = IF page = {} THEN "commit" ELSE @,
             !.tx = Restricted(@, DOMAIN @ \ gone),
             !.found = @ + Cardinality(page)]
    /\ UNCHANGED <<disk, dirty, songs, scanned, past, edits, scans>>
DeleteNotUpdated ==
    /\ scan.pc = "walk"
    /\ ~scan.full
    /\ scan.left = {} /\ scan.todo = {} /\ scan.queue = {}
    /\ scan' = [scan EXCEPT !.pc = "commit", !.tx = Restricted(@, scan.seen)]
    /\ UNCHANGED <<disk, dirty, songs, scanned, past, edits, scans>>

\* One round of deleteOrphanedSongsByPath; it ends with an empty page.
DeleteOrphanedSongsByPath ==
    /\ scan.pc = "walk"
    /\ ~scan.full
    /\ scan.left = {} /\ scan.todo = {} /\ scan.queue = {}
    /\ LET page == Page(scan.tx, scan.seen, scan.found)
           gone == {i \in page : ~Held(scan.tx[i].path)}
       IN  scan' = [scan EXCEPT
             !.pc = IF page = {} THEN "commit" ELSE @,
             !.tx = Restricted(@, DOMAIN @ \ gone),
             !.found = @ + Cardinality(page \ gone)]
    /\ UNCHANGED <<disk, dirty, songs, scanned, past, edits, scans>>

\* SetLastScan and the commit: every change up to now lies before the last
\* scan, but for the files `late` changed within the second it is cut to.
Commit ==
    /\ scan.pc = "commit"
    /\ songs' = scan.tx
    /\ scanned' = TRUE
    /\ \E late \in SUBSET scan.changed :
        /\ disk' = [p \in Paths |->
             IF Held(p) /\ p \notin late THEN [disk[p] EXCEPT !.mod = FALSE, !.chg = FALSE]
             ELSE disk[p]]
        /\ dirty' = {DirOf[p] : p \in late}
    /\ past' = [past EXCEPT !.stale = (@ \ scan.read) \cup scan.changed,
                           !.aged = scan.aged]
    /\ scan' = Idle
    /\ UNCHANGED <<edits, scans>>

\* Any other failure of the scan.
Fail ==
    /\ scan.pc # "idle"
    /\ Rollback
    /\ UNCHANGED disk

Next ==
    \/ \E p \in Paths, m \in Metas, b \in BOOLEAN : Add(p, m, b)
    \/ \E p \in Paths : Remove(p)
    \/ \E p, q \in Paths : Move(p, q) \/ Copy(p, q)
    \/ \E p \in Paths, m \in Metas : Retag(p, m)
    \/ \E b \in BOOLEAN : Start(b)
    \/ \E d \in Dirs : ListDir(d)
    \/ \E e \in scan.todo : ProcessFile(e)
    \/ CreateOrUpdateSongs
    \/ DeleteLastUpdatedBefore
    \/ DeleteOrphanedSongsByPath
    \/ Commit
    \/ Fail

Spec == Init /\ [][Next]_vars

-----------------------------------------------------------------------------
\* The types of the variables; no two songs have the same path.
TypeOK ==
    /\ disk \in [Paths -> Files \cup {NoFile}]
    /\ dirty \subseteq Dirs
    /\ DOMAIN songs \subseteq Ids
    /\ \A i \in DOMAIN songs : songs[i] \in Rows
    /\ \A i, j \in DOMAIN songs : songs[i].path = songs[j].path => i = j
    /\ past.stale \subseteq Paths

\* A scan that commits lists no file that was gone before it looked: deleting
\* by pages (clean.go) and deleting what was not updated leave none behind.
ListsOnlyFiles ==
    [][Commit => \A i \in DOMAIN songs' :
                    songs'[i].path \notin scan.changed => Held(songs'[i].path)]_vars

\* A scan that commits lists every file, unless the file changed under a scan
\* that had read it already (SetLastScan takes the time of the end, so the file
\* counts as known), its id was given to two files or its song to another file.
ListsEveryFile ==
    [][Commit => \A p \in Paths \ past.stale' :
          Held(p) => \/ \E i \in DOMAIN songs' : songs'[i].path = p
                     \/ disk[p].tag \in past.twins']_vars

\* A file that carries the id of a song, and alone does, is that song after
\* the scan, wherever it was moved and whatever became of its other tags: its
\* favourites and scrobbles stay with it.
KeepsSong ==
    [][Commit => \A p \in Paths \ past.stale' :
          Held(p) /\ disk[p].tag \in DOMAIN songs \ past.twins' =>
            disk[p].tag \in DOMAIN songs' /\ songs'[disk[p].tag].path = p]_vars

\* After a scan a song has the tags of its file; it has the artists of its file
\* too, unless the scan that last read the file found an old modification time.
UpToDate ==
    [][Commit => \A i \in DOMAIN songs' :
          LET p == songs'[i].path
          IN  Held(p) /\ p \notin past.stale' /\ disk[p].tag \notin past.twins' =>
                /\ songs'[i].meta = disk[p].meta
                /\ i \in past.aged' \/ songs'[i].artists = {disk[p].meta.artist}]_vars

\* The unique paths fail a scan of files nobody changes meanwhile only if a
\* file was moved to a path under which the last scan listed another one.
FailsOnTakenPath ==
    [][CreateOrUpdateSongs /\ scan'.pc = "idle" /\ scan.changed = {} =>
          \E f \in scan.queue : \E i \in DOMAIN songs \ {f.tag} :
             f.tag # None /\ songs[i].path = f.path]_vars
=============================================================================
