------------------------- MODULE SongIdentityProofs -------------------------
(***************************************************************************)
(* What SongIdentity promises, for any files, directories, tags, batch and *)
(* page sizes, any number of scans and any changes of the files before,    *)
(* between and during them.                                                *)
(*                                                                         *)
(* Known(p, T, S, aged) is the heart of the invariant: the file at p has a *)
(* song of the table T among S, with its path and its tags, or its id is   *)
(* one that two files got.  Committed says it of the committed table, for  *)
(* the files whose change time is not after the last scan; Scanned of the  *)
(* transaction of the running scan, for the files it has done with, either *)
(* read or still unchanged since the last scan; Commit turns the second    *)
(* into the first.  The rest says how far the scan is: what it has read    *)
(* and what is queued (Walk, ReadsAll), which songs it has updated (Seen), *)
(* which of the others the paging of deleteOrphanedSongsByPath has looked  *)
(* at (Paging).                                                            *)
(***************************************************************************)
EXTENDS SongIdentity, FiniteSetTheorems, WellFoundedInduction, TLAPS

\* The files of scan.todo and of scan.queue, the tables of songs.
Entries == [path : Paths, changed : BOOLEAN]
Queued == [path : Paths, tag : Ids \cup {None}, meta : Metas, fresh : BOOLEAN]
Tables == UNION {[S -> Rows] : S \in SUBSET Ids}

Scans == [pc : {"idle", "walk", "commit"}, full : BOOLEAN, first : BOOLEAN,
          left : SUBSET Dirs, todo : SUBSET Entries, queue : SUBSET Queued,
          tx : Tables, seen : SUBSET Ids, found : Nat, read : SUBSET Paths,
          changed : SUBSET Paths, aged : SUBSET Ids]
Pasts == [stale : SUBSET Paths, twins : SUBSET Ids, aged : SUBSET Ids]

\* No two songs of the table have the same path.
OneEach(T) == \A i, j \in DOMAIN T : T[i].path = T[j].path => i = j
Sound(T) == T \in Tables /\ IsFiniteSet(DOMAIN T) /\ OneEach(T)

\* The types of the variables; a first scan begins with an empty table.
Types ==
    /\ disk \in [Paths -> Files \cup {NoFile}]
    /\ dirty \subseteq Dirs
    /\ scanned \in BOOLEAN
    /\ past \in Pasts
    /\ scan \in Scans
    /\ Sound(songs)
    /\ Sound(scan.tx)
    /\ ~scanned => DOMAIN songs = {}
    /\ scan.pc = "idle" => scan = Idle
    /\ scan.pc # "idle" /\ scan.first => DOMAIN songs = {}

\* The scan has yet to look at the file at p; the file at p is queued.
Unread(p) == DirOf[p] \in scan.left \/ \E e \in scan.todo : e.path = p
Waits(p) == \E f \in scan.queue : f.path = p

\* A path is found once and read once; a queued file is as it was read, unless
\* its owner has changed it since.
Walk ==
    /\ \A e \in scan.todo : DirOf[e.path] \notin scan.left
    /\ \A e, g \in scan.todo : e.path = g.path => e = g
    /\ IsFiniteSet(scan.queue)
    /\ \A f, g \in scan.queue : f.path = g.path => f = g
    /\ \A f \in scan.queue : f.path \in scan.read
    /\ \A p \in scan.read : ~Unread(p) /\ (Held(p) \/ p \in scan.changed)
    /\ \A f \in scan.queue : f.path \notin scan.changed =>
          disk[f.path].tag = f.tag /\ disk[f.path].meta = f.meta
    /\ scan.pc = "commit" => scan.left = {} /\ scan.todo = {} /\ scan.queue = {}

\* A full scan reads every file.
ReadsAll ==
    scan.pc # "idle" /\ scan.full =>
        \A p \in Paths : Held(p) => Unread(p) \/ p \in scan.read \cup scan.changed

\* Seen songs are at paths read; the others are as committed; none is deleted
\* before everything has been read.
Seen ==
    /\ scan.seen \subseteq DOMAIN scan.tx
    /\ \A i \in scan.seen : scan.tx[i].path \in scan.read /\ ~Waits(scan.tx[i].path)
    /\ \A i \in DOMAIN scan.tx \ scan.seen : i \in DOMAIN songs /\ scan.tx[i] = songs[i]
    /\ scan.left # {} \/ scan.todo # {} \/ scan.queue # {} =>
          DOMAIN songs \subseteq DOMAIN scan.tx

\* The songs not updated, and those C of them that the paging has looked at:
\* they are the first ones, as many as the offset, and their files are there.
Rest == DOMAIN scan.tx \ scan.seen
There(i) == Held(scan.tx[i].path) \/ scan.tx[i].path \in scan.changed
Looked(C) ==
    /\ C \subseteq Rest
    /\ Cardinality(C) = scan.found
    /\ \A i \in C, j \in Rest : j < i => j \in C
    /\ \A i \in C : There(i)
Paging ==
    /\ scan.found = 0 \/ (scan.left = {} /\ scan.todo = {} /\ scan.queue = {})
    /\ scan.pc = "walk" => \E C \in SUBSET Rest : Looked(C)
    /\ scan.pc = "commit" => \A i \in DOMAIN scan.tx : There(i)

\* The file at p is a song of T among S, if another file did not get its id; the
\* id in its tags is that song's or one that no song has.
Known(p, T, S, aged) ==
    \/ disk[p].tag \in past.twins
    \/ \E i \in S :
          /\ T[i].path = p
          /\ T[i].meta = disk[p].meta
          /\ i \in aged \/ T[i].artists = {disk[p].meta.artist}
          /\ disk[p].tag # None
          /\ disk[p].tag = i \/ disk[p].tag \notin DOMAIN T \cup DOMAIN songs

Committed ==
    \A p \in Paths \ past.stale :
        Held(p) /\ ~disk[p].chg => Known(p, songs, DOMAIN songs, past.aged)

\* Where the song of the file at p is: a file that was read has been seen.
Mine(p) == IF p \in scan.read THEN scan.seen ELSE DOMAIN scan.tx

\* The scan is done with the file at p, or will find it unchanged.
Done(p) == \/ ~Unread(p) /\ (p \in scan.read \/ p \notin past.stale)
           \/ p \notin past.stale /\ ~disk[p].chg
Scanned ==
    scan.pc # "idle" =>
        \A p \in Paths \ scan.changed :
            Held(p) /\ ~Waits(p) /\ Done(p) => Known(p, scan.tx, Mine(p), scan.aged)

IdentityInv == Types /\ Walk /\ ReadsAll /\ Seen /\ Paging /\ Committed /\ Scanned

-----------------------------------------------------------------------------
\* The state of no scan has its type.
LEMMA IdleType == Idle \in Scans /\ Sound(Empty)
  <1>1. Empty \in [{} -> Rows] /\ DOMAIN Empty = {}
    BY DEF Empty
  <1>2. Empty \in Tables
    BY <1>1 DEF Tables
  <1>3. IsFiniteSet({})
    BY FS_EmptySet
  <1>. QED
    BY <1>1, <1>2, <1>3 DEF Idle, Scans, Sound, OneEach

\* The rows of a table.
LEMMA TableRows ==
    ASSUME NEW T \in Tables
    PROVE  /\ DOMAIN T \subseteq Ids
           /\ T \in [DOMAIN T -> Rows]
           /\ \A i \in DOMAIN T : T[i] \in Rows /\ T[i].path \in Paths /\ T[i].meta \in Metas
  <1>1. PICK S \in SUBSET Ids : T \in [S -> Rows]
    BY DEF Tables
  <1>. QED
    BY <1>1 DEF Rows

\* Nothing is known when there was no scan.
LEMMA InitInv == Init => IdentityInv
  <1>. SUFFICES ASSUME Init PROVE IdentityInv
    OBVIOUS
  <1>1. scan = Idle /\ songs = Empty /\ DOMAIN songs = {}
    BY DEF Init, Empty
  <1>2. Types
    <2>1. disk \in [Paths -> Files \cup {NoFile}]
      BY DEF Init, New, Files
    <2>2. past \in Pasts
      BY DEF Init, Pasts
    <2>3. scan.pc = "idle" /\ scan.tx = Empty
      BY <1>1 DEF Idle
    <2>. QED
      BY <1>1, <2>1, <2>2, <2>3, IdleType DEF Init, Types
  <1>3. Walk
    BY <1>1, FS_EmptySet DEF Walk, Idle, Unread
  <1>4. Seen
    BY <1>1 DEF Seen, Idle, Empty
  <1>5. Paging
    BY <1>1 DEF Paging, Idle
  <1>6. Committed
    BY DEF Init, Committed, Held, New
  <1>7. Scanned /\ ReadsAll
    BY <1>1 DEF Scanned, ReadsAll, Idle
  <1>. QED
    BY <1>2, <1>3, <1>4, <1>5, <1>6, <1>7 DEF IdentityInv

\* A change of files leaves their paths changed or their change times new, so that
\* neither Committed nor Scanned says anything of them.
LEMMA EditKeeps ==
    ASSUME IdentityInv, NEW d \in [Paths -> Files \cup {NoFile}], NEW ps \in SUBSET Paths,
           NEW ds \in SUBSET Dirs, Edit(d, ps, ds),
           \A p \in Paths \ ps : d[p] = disk[p],
           \A p \in ps : d[p] = NoFile \/ d[p].chg
    PROVE  IdentityInv'
  <1>1. /\ disk' = d /\ dirty' = dirty \cup ds /\ songs' = songs /\ past' = past
        /\ scanned' = scanned
    BY DEF Edit
  <1>2. /\ scan' \in Scans
        /\ scan'.pc = scan.pc /\ scan'.full = scan.full /\ scan'.first = scan.first
        /\ scan'.left = scan.left /\ scan'.todo = scan.todo /\ scan'.queue = scan.queue
        /\ scan'.tx = scan.tx /\ scan'.seen = scan.seen /\ scan'.found = scan.found
        /\ scan'.read = scan.read /\ scan'.aged = scan.aged
        /\ scan.changed \subseteq scan'.changed
        /\ scan.pc # "idle" => scan'.changed = scan.changed \cup ps
        /\ scan.pc = "idle" => scan' = scan
    <2>1. scan \in Scans
      BY DEF IdentityInv, Types
    <2>2. scan' = IF scan.pc = "idle" THEN scan
                  ELSE [scan EXCEPT !.changed = scan.changed \cup ps]
      BY DEF Edit
    <2>. QED
      BY <2>1, <2>2 DEF Scans
  <1>3. Types'
    BY <1>1, <1>2 DEF IdentityInv, Types
  <1>4. \A p \in Paths : p \in ps \/ disk'[p] = disk[p]
    BY <1>1
  <1>5. scan.pc = "idle" => scan.read = {} /\ scan.queue = {} /\ scan.seen = {}
    BY DEF IdentityInv, Types, Idle
  <1>6. scan.queue \subseteq Queued /\ scan.read \subseteq Paths
    BY DEF IdentityInv, Types, Scans
  <1>7. Walk'
    BY <1>1, <1>2, <1>4, <1>5, <1>6 DEF IdentityInv, Walk, Unread, Held, Queued
  <1>8. Seen'
    BY <1>1, <1>2 DEF IdentityInv, Seen, Waits
  <1>9. Paging'
    <2>1. \A i \in DOMAIN scan.tx : There(i) => There(i)'
      <3>1. \A i \in DOMAIN scan.tx : scan.tx[i].path \in Paths
        BY TableRows DEF IdentityInv, Types, Sound
      <3>2. scan.pc = "idle" => DOMAIN scan.tx = {}
        BY DEF IdentityInv, Types, Idle, Empty
      <3>. QED
        BY <1>1, <1>2, <1>4, <3>1, <3>2 DEF There, Held
    <2>2. Rest' = Rest
      BY <1>2 DEF Rest
    <2>3. \A C \in SUBSET Rest : Looked(C) => Looked(C)'
      BY <1>2, <2>1, <2>2 DEF Looked, Rest
    <2>. QED
      BY <1>1, <1>2, <2>1, <2>2, <2>3 DEF IdentityInv, Paging
  <1>10. \A p \in Paths \ ps : \A T, S, a : Known(p, T, S, a) => Known(p, T, S, a)'
    BY <1>1, <1>4 DEF Known
  <1>11. Committed'
    BY <1>1, <1>4, <1>10 DEF IdentityInv, Committed, Held, Known
  <1>12. Scanned'
    <2>. SUFFICES ASSUME scan'.pc # "idle", NEW p \in Paths \ scan'.changed,
                         Held(p)', ~Waits(p)', Done(p)'
                  PROVE  Known(p, scan.tx, Mine(p), scan.aged)'
      BY DEF Scanned
    <2>1. p \notin ps /\ p \notin scan.changed /\ Held(p) /\ ~Waits(p) /\ Done(p)
      BY <1>1, <1>2, <1>4 DEF Held, Waits, Done, Unread
    <2>2. Known(p, scan.tx, Mine(p), scan.aged)
      BY <1>2, <2>1 DEF IdentityInv, Scanned
    <2>3. scan'.tx = scan.tx /\ Mine(p)' = Mine(p)
      BY <1>2 DEF Mine
    <2>. QED
      BY <1>1, <1>2, <1>4, <2>1, <2>2, <2>3 DEF Known
  <1>13. ReadsAll'
    BY <1>1, <1>2, <1>4 DEF IdentityInv, ReadsAll, Held, Unread
  <1>. QED
    BY <1>13, <1>3, <1>7, <1>8, <1>9, <1>11, <1>12 DEF IdentityInv

\* A file that is changed has a later change time.
LEMMA OwnerKeeps ==
    ASSUME IdentityInv,
           \/ \E p \in Paths, m \in Metas, b \in BOOLEAN : Add(p, m, b)
           \/ \E p \in Paths : Remove(p)
           \/ \E p, q \in Paths : Move(p, q) \/ Copy(p, q)
           \/ \E p \in Paths, m \in Metas : Retag(p, m)
    PROVE  IdentityInv'
  <1>1. disk \in [Paths -> Files \cup {NoFile}]
    BY DEF IdentityInv, Types
  <1>2. \A p \in Paths : DirOf[p] \in Dirs
    BY IdentityAssumption DEF Dirs
  <1>3. \A p \in Paths : Held(p) => disk[p] \in Files
    BY <1>1 DEF Held
  <1>4. CASE \E p \in Paths, m \in Metas, b \in BOOLEAN : Add(p, m, b)
    <2>1. PICK p \in Paths, m \in Metas, b \in BOOLEAN : Add(p, m, b)
      BY <1>4
    <2>. DEFINE f == [tag |-> None, meta |-> m, mod |-> b, chg |-> TRUE]
                d == [disk EXCEPT ![p] = f]
    <2>2. f \in Files /\ f.chg
      BY DEF Files
    <2>3. Edit(d, {p}, {DirOf[p]})
      BY <2>1 DEF Add
    <2>. HIDE DEF f
    <2>4. /\ d \in [Paths -> Files \cup {NoFile}] /\ \A q \in Paths \ {p} : d[q] = disk[q]
          /\ d[p] = f
      BY <1>1, <2>2
    <2>. HIDE DEF d
    <2>. QED
      BY <1>2, <2>2, <2>3, <2>4, EditKeeps
  <1>5. CASE \E p \in Paths : Remove(p)
    <2>1. PICK p \in Paths : Remove(p)
      BY <1>5
    <2>. DEFINE d == [disk EXCEPT ![p] = NoFile]
    <2>2. Edit(d, {p}, {DirOf[p]})
      BY <2>1 DEF Remove
    <2>3. /\ d \in [Paths -> Files \cup {NoFile}] /\ \A q \in Paths \ {p} : d[q] = disk[q]
          /\ d[p] = NoFile
      BY <1>1
    <2>. HIDE DEF d
    <2>. QED
      BY <1>2, <2>2, <2>3, EditKeeps
  <1>6. ASSUME NEW p \in Paths, NEW q \in Paths, Move(p, q)
        PROVE  IdentityInv'
    <2>. DEFINE f == [disk[p] EXCEPT !.chg = TRUE]
                d == [disk EXCEPT ![p] = NoFile, ![q] = f]
    <2>1. disk[p] \in Files
      BY <1>3, <1>6 DEF Move
    <2>2. f \in Files /\ f.chg
      BY <2>1 DEF Files
    <2>3. Edit(d, {p, q}, {DirOf[p], DirOf[q]})
      BY <1>6 DEF Move
    <2>. HIDE DEF f
    <2>4. /\ d \in [Paths -> Files \cup {NoFile}] /\ \A r \in Paths \ {p, q} : d[r] = disk[r]
          /\ \A r \in {p, q} : d[r] = NoFile \/ d[r] = f
      BY <1>1, <2>2
    <2>. HIDE DEF d
    <2>5. \A r \in {p, q} : d[r] = NoFile \/ d[r].chg
      BY <2>2, <2>4
    <2>. QED
      BY <1>2, <2>3, <2>4, <2>5, EditKeeps
  <1>7. ASSUME NEW p \in Paths, NEW q \in Paths, Copy(p, q)
        PROVE  IdentityInv'
    <2>. DEFINE f == [disk[p] EXCEPT !.mod = TRUE, !.chg = TRUE]
                d == [disk EXCEPT ![q] = f]
    <2>1. disk[p] \in Files
      BY <1>3, <1>7 DEF Copy
    <2>2. f \in Files /\ f.chg
      BY <2>1 DEF Files
    <2>3. Edit(d, {q}, {DirOf[q]})
      BY <1>7 DEF Copy
    <2>. HIDE DEF f
    <2>4. /\ d \in [Paths -> Files \cup {NoFile}] /\ \A r \in Paths \ {q} : d[r] = disk[r]
          /\ d[q] = f
      BY <1>1, <2>2
    <2>. HIDE DEF d
    <2>. QED
      BY <1>2, <2>2, <2>3, <2>4, EditKeeps
  <1>8. ASSUME NEW p \in Paths, NEW m \in Metas, Retag(p, m)
        PROVE  IdentityInv'
    <2>. DEFINE f == [disk[p] EXCEPT !.meta = m, !.mod = TRUE, !.chg = TRUE]
                d == [disk EXCEPT ![p] = f]
    <2>1. disk[p] \in Files
      BY <1>3, <1>8 DEF Retag
    <2>2. f \in Files /\ f.chg
      BY <2>1 DEF Files
    <2>3. Edit(d, {p}, {})
      <3>1. d = [disk EXCEPT ![p].meta = m, ![p].mod = TRUE, ![p].chg = TRUE]
        BY <1>1, <2>1 DEF Files
      <3>. QED
        BY <1>8, <3>1 DEF Retag
    <2>. HIDE DEF f
    <2>4. /\ d \in [Paths -> Files \cup {NoFile}] /\ \A r \in Paths \ {p} : d[r] = disk[r]
          /\ d[p] = f
      BY <1>1, <2>2
    <2>. HIDE DEF d
    <2>. QED
      BY <2>2, <2>3, <2>4, EditKeeps
  <1>. QED
    BY <1>4, <1>5, <1>6, <1>7, <1>8

\* A scan that fails leaves the tags it wrote and nothing else.
LEMMA RollbackKeeps ==
    ASSUME IdentityInv, Rollback, disk' = disk
    PROVE  IdentityInv'
  <1>1. /\ scan' = Idle /\ disk' = disk /\ dirty' = dirty /\ songs' = songs
        /\ scanned' = scanned /\ past' = past
    BY DEF Rollback
  <1>2. scan'.pc = "idle" /\ scan'.tx = Empty
    BY <1>1 DEF Idle
  <1>3. Types'
    BY <1>1, <1>2, IdleType DEF IdentityInv, Types
  <1>4. Walk'
    BY <1>1, FS_EmptySet DEF Walk, Idle, Unread
  <1>5. Seen'
    BY <1>1 DEF Seen, Idle, Empty
  <1>6. Paging'
    BY <1>1 DEF Paging, Idle
  <1>7. Committed'
    BY <1>1 DEF IdentityInv, Committed, Held, Known
  <1>8. Scanned' /\ ReadsAll'
    BY <1>2 DEF Scanned, ReadsAll
  <1>. QED
    BY <1>3, <1>4, <1>5, <1>6, <1>7, <1>8 DEF IdentityInv

\* A scan starts with the committed table, in which the unchanged files are known.
LEMMA StartKeeps ==
    ASSUME IdentityInv, NEW full \in BOOLEAN, Start(full)
    PROVE  IdentityInv'
  <1>1. /\ disk' = disk /\ dirty' = dirty /\ songs' = songs
        /\ scanned' = scanned /\ past' = past
    BY DEF Start
  <1>2. past.aged \subseteq Ids
    BY DEF IdentityInv, Types, Pasts
  <1>3. /\ scan' \in Scans
        /\ scan'.pc = "walk" /\ scan'.first = (~scanned \/ DOMAIN songs = {})
        /\ scan'.left = Dirs /\ scan'.todo = {} /\ scan'.queue = {} /\ scan'.tx = songs
        /\ scan'.seen = {} /\ scan'.found = 0 /\ scan'.read = {} /\ scan'.changed = {}
        /\ scan'.aged = past.aged
    <2>1. scanned \in BOOLEAN /\ songs \in Tables
      BY DEF IdentityInv, Types, Sound
    <2>. QED
      BY <1>2, <2>1 DEF Start, Idle, Scans
  <1>4. Types'
    BY <1>1, <1>3 DEF IdentityInv, Types
  <1>5. Walk'
    BY <1>1, <1>3, FS_EmptySet DEF Walk, Unread
  <1>6. Seen'
    BY <1>1, <1>3 DEF Seen
  <1>7. Paging'
    <2>1. {} \in SUBSET Rest' /\ Looked({})'
      BY <1>3, FS_EmptySet DEF Looked, Rest
    <2>. QED
      BY <1>3, <2>1 DEF Paging
  <1>8. Committed'
    BY <1>1 DEF IdentityInv, Committed, Held, Known
  <1>9. Scanned'
    <2>1. \A p \in Paths : Unread(p)'
      BY <1>3, IdentityAssumption DEF Unread, Dirs
    <2>. SUFFICES ASSUME NEW p \in Paths, Held(p)', Done(p)'
                  PROVE  Known(p, scan.tx, Mine(p), scan.aged)'
      BY DEF Scanned
    <2>2. Known(p, songs, DOMAIN songs, past.aged)
      BY <1>1, <2>1 DEF IdentityInv, Committed, Done, Held
    <2>3. Mine(p)' = DOMAIN songs
      BY <1>3 DEF Mine
    <2>. QED
      BY <1>1, <1>3, <2>2, <2>3 DEF Known
  <1>10. ReadsAll'
    BY <1>3, IdentityAssumption DEF ReadsAll, Unread, Dirs
  <1>. QED
    BY <1>4, <1>5, <1>6, <1>7, <1>8, <1>9, <1>10 DEF IdentityInv

\* A directory is listed once; a full scan lists every file.
LEMMA ListDirKeeps ==
    ASSUME IdentityInv, NEW d \in Dirs, ListDir(d)
    PROVE  IdentityInv'
  <1>. DEFINE c == Everything \/ d \in dirty
              new == {[path |-> p, changed |-> c] : p \in {q \in Paths : Held(q) /\ DirOf[q] = d}}
              gone == {p \in Paths : DirOf[p] = d /\ ~Held(p)}
  <1>1. /\ disk' = disk /\ dirty' = dirty /\ songs' = songs
        /\ scanned' = scanned /\ past' = past
    BY DEF ListDir
  <1>2. new \subseteq Entries
    <2>1. c \in BOOLEAN
      BY Zenon DEF Everything
    <2>. HIDE DEF c
    <2>. QED
      BY <2>1 DEF Entries
  <1>3. /\ scan.pc = "walk" /\ d \in scan.left
        /\ scan' \in Scans
        /\ scan'.pc = scan.pc /\ scan'.first = scan.first /\ scan'.full = scan.full
        /\ scan'.left = scan.left \ {d} /\ scan'.todo = scan.todo \cup new
        /\ scan'.queue = scan.queue /\ scan'.tx = scan.tx
        /\ scan'.seen = scan.seen /\ scan'.found = scan.found /\ scan'.read = scan.read
        /\ scan'.changed = scan.changed \ gone
        /\ scan'.aged = scan.aged
    BY <1>2 DEF ListDir, IdentityInv, Types, Scans
  <1>4. /\ \A e \in new : e.path \in Paths /\ DirOf[e.path] = d /\ Held(e.path)
        /\ \A e, g \in new : e.path = g.path => e = g
        /\ \A p \in Paths : DirOf[p] = d /\ Held(p) => \E e \in new : e.path = p
    <2>. HIDE DEF c
    <2>1. \A e \in new : \E p \in Paths : Held(p) /\ DirOf[p] = d /\ e = [path |-> p, changed |-> c]
      OBVIOUS
    <2>2. \A p \in Paths : DirOf[p] = d /\ Held(p) => [path |-> p, changed |-> c] \in new
      OBVIOUS
    <2>. HIDE DEF new
    <2>3. \A q \in Paths : [path |-> q, changed |-> c].path = q
      OBVIOUS
    <2>4. \A e \in new : /\ e.path \in Paths /\ DirOf[e.path] = d /\ Held(e.path)
                         /\ e = [path |-> e.path, changed |-> c]
      BY <2>1, <2>3
    <2>5. \A e, g \in new : e.path = g.path => e = g
      BY <2>4
    <2>. QED
      BY <2>2, <2>3, <2>4, <2>5
  <1>5. \A p \in gone : DirOf[p] = d
    OBVIOUS
  <1>6. \A p \in Paths \ gone : DirOf[p] = d => Held(p)
    OBVIOUS
  <1>. HIDE DEF new, gone
  <1>7. Types'
    BY <1>1, <1>3 DEF IdentityInv, Types
  <1>8. scan.queue \subseteq Queued /\ scan.read \subseteq Paths
    BY DEF IdentityInv, Types, Scans
  <1>9. \A p \in scan.read : ~Unread(p) /\ p \notin gone /\ DirOf[p] # d
    BY <1>3, <1>5 DEF IdentityInv, Walk, Unread
  <1>10. Walk'
    <2>1. \A p \in scan.read : ~Unread(p)' /\ (Held(p)' \/ p \in scan'.changed)
      BY <1>1, <1>3, <1>4, <1>9 DEF IdentityInv, Walk, Unread, Held
    <2>2. /\ \A e \in scan'.todo : DirOf[e.path] \notin scan'.left
          /\ \A e, g \in scan'.todo : e.path = g.path => e = g
      BY <1>3, <1>4 DEF IdentityInv, Walk
    <2>3. \A f \in scan.queue : f.path \in scan.read
      BY DEF IdentityInv, Walk
    <2>4. \A f \in scan'.queue : f.path \notin scan'.changed =>
            disk'[f.path].tag = f.tag /\ disk'[f.path].meta = f.meta
      BY <1>1, <1>3, <1>9, <2>3 DEF IdentityInv, Walk
    <2>. QED
      BY <1>1, <1>3, <2>1, <2>2, <2>4 DEF IdentityInv, Walk
  <1>11. Seen'
    BY <1>1, <1>3 DEF IdentityInv, Seen, Waits
  <1>12. Paging'
    <2>1. scan'.found = 0
      BY <1>3 DEF IdentityInv, Paging
    <2>2. {} \in SUBSET Rest' /\ Looked({})'
      BY <2>1, FS_EmptySet DEF Looked, Rest
    <2>. QED
      BY <1>3, <2>1, <2>2 DEF Paging
  <1>13. Committed'
    BY <1>1 DEF IdentityInv, Committed, Held, Known
  <1>14. Scanned'
    <2>1. \A p \in Paths \ gone : Unread(p) => Unread(p)'
      BY <1>3, <1>4, <1>6 DEF Unread
    <2>2. \A p \in Paths : Held(p) => p \notin gone
      BY DEF gone
    <2>. QED
      BY <1>1, <1>3, <2>1, <2>2 DEF IdentityInv, Scanned, Done, Held, Waits, Known, Mine
  <1>15. ReadsAll'
    <2>1. \A p \in Paths : Held(p) /\ Unread(p) => Unread(p)'
      BY <1>3, <1>4 DEF Unread
    <2>2. \A p \in Paths : Held(p) => p \notin gone
      BY DEF gone
    <2>. QED
      BY <1>1, <1>3, <2>1, <2>2 DEF IdentityInv, ReadsAll, Held
  <1>. QED
    BY <1>7, <1>10, <1>11, <1>12, <1>13, <1>14, <1>15 DEF IdentityInv

\* A file that is skipped has not changed since the last scan, one that is read is queued.
LEMMA ProcessFileKeeps ==
    ASSUME IdentityInv, NEW e \in scan.todo, ProcessFile(e), Held(e.path)
    PROVE  IdentityInv'
  <1>. DEFINE p == e.path
              f == disk[p]
              read == Everything \/ e.changed \/ f.chg
              fresh == Everything \/ f.mod
              entry == [path |-> p, tag |-> f.tag, meta |-> f.meta, fresh |-> fresh]
  <1>1. /\ disk' = disk /\ dirty' = dirty /\ songs' = songs
        /\ scanned' = scanned /\ past' = past
        /\ scan.pc = "walk"
    BY DEF ProcessFile
  <1>2. /\ e \in Entries /\ p \in Paths /\ f \in Files
        /\ scan \in Scans
    BY DEF IdentityInv, Types, Scans, Entries, Held
  <1>3. entry \in Queued
    <2>1. fresh \in BOOLEAN
      BY Zenon DEF Everything
    <2>. HIDE DEF fresh
    <2>. QED
      BY <1>2, <2>1 DEF Files, Queued
  <1>4. /\ scan' \in Scans
        /\ scan'.pc = scan.pc /\ scan'.first = scan.first /\ scan'.full = scan.full
        /\ scan'.left = scan.left /\ scan'.todo = scan.todo \ {e}
        /\ scan'.tx = scan.tx
        /\ scan'.seen = scan.seen /\ scan'.found = scan.found
        /\ scan'.aged = scan.aged
        /\ scan'.read = IF read THEN scan.read \cup {p} ELSE scan.read
        /\ scan'.changed = IF read THEN scan.changed \ {p} ELSE scan.changed
        /\ scan'.queue = IF read THEN scan.queue \cup {entry} ELSE scan.queue
    <2>1. scan' = [scan EXCEPT
                   !.todo = @ \ {e},
                   !.read = IF read THEN @ \cup {p} ELSE @,
                   !.changed = IF read THEN @ \ {p} ELSE @,
                   !.queue = IF ~read THEN @ ELSE @ \cup {entry}]
      BY DEF ProcessFile
    <2>. HIDE DEF read, entry, p
    <2>. QED
      BY <1>2, <1>3, <2>1 DEF Scans
  <1>5. entry.path = p /\ entry.tag = f.tag /\ entry.meta = f.meta
    OBVIOUS
  <1>6. (~read => ~f.chg) /\ (scan.full => read)
    BY DEF Everything
  <1>. HIDE DEF read, entry
  <1>7. Types'
    BY <1>1, <1>4 DEF IdentityInv, Types
  <1>8. scan.queue \subseteq Queued /\ scan.read \subseteq Paths
    BY DEF IdentityInv, Types, Scans
  <1>9. Unread(p) /\ p \notin scan.read /\ ~Waits(p)
    <2>1. Unread(p)
      BY DEF Unread
    <2>. QED
      BY <2>1 DEF IdentityInv, Walk, Waits
  <1>10. \A q : Unread(q)' <=> Unread(q) /\ q # p
    BY <1>4 DEF Unread, IdentityInv, Walk
  <1>11. Walk'
    <2>1. \A q \in scan'.read : ~Unread(q)' /\ (Held(q)' \/ q \in scan'.changed)
      BY <1>1, <1>4, <1>10 DEF IdentityInv, Walk, Held
    <2>2. /\ \A g \in scan'.todo : DirOf[g.path] \notin scan'.left
          /\ \A g, h \in scan'.todo : h.path = g.path => h = g
      BY <1>4 DEF IdentityInv, Walk
    <2>3. /\ \A g, h \in scan'.queue : h.path = g.path => h = g
          /\ \A g \in scan'.queue : g.path \in scan'.read
      BY <1>4, <1>5, <1>9 DEF IdentityInv, Walk, Waits
    <2>4. \A g \in scan'.queue : g.path \notin scan'.changed =>
            disk'[g.path].tag = g.tag /\ disk'[g.path].meta = g.meta
      <3>. SUFFICES ASSUME NEW g \in scan'.queue, g.path \notin scan'.changed
                    PROVE  disk'[g.path].tag = g.tag /\ disk'[g.path].meta = g.meta
        OBVIOUS
      <3>1. CASE g = entry
        BY <1>1, <1>5, <3>1
      <3>2. CASE g # entry
        <4>1. g \in scan.queue /\ g.path # p
          BY <1>4, <1>9, <3>2 DEF Waits
        <4>. QED
          BY <1>1, <1>4, <4>1 DEF IdentityInv, Walk
      <3>. QED
        BY <3>1, <3>2
    <2>5. IsFiniteSet(scan'.queue)
      BY <1>4, FS_AddElement DEF IdentityInv, Walk
    <2>. QED
      BY <1>1, <1>4, <2>1, <2>2, <2>3, <2>4, <2>5 DEF Walk
  <1>12. Seen'
    BY <1>1, <1>4, <1>5, <1>9 DEF IdentityInv, Seen, Waits
  <1>13. Paging'
    <2>1. scan'.found = 0
      BY <1>4 DEF IdentityInv, Paging
    <2>2. {} \in SUBSET Rest' /\ Looked({})'
      BY <2>1, FS_EmptySet DEF Looked, Rest
    <2>. QED
      BY <1>1, <1>4, <2>1, <2>2 DEF Paging
  <1>14. Committed'
    BY <1>1 DEF IdentityInv, Committed, Held, Known
  <1>15. Scanned'
    <2>. SUFFICES ASSUME NEW q \in Paths \ scan'.changed, Held(q)', ~Waits(q)', Done(q)'
                  PROVE  Known(q, scan.tx, Mine(q), scan.aged)'
      BY DEF Scanned
    <2>1. q \notin scan.changed /\ ~Waits(q) /\ Held(q)
      BY <1>1, <1>4, <1>5 DEF Waits, Held
    <2>2. Done(q)
      BY <1>1, <1>4, <1>5, <1>6, <1>9, <1>10 DEF Done, Waits
    <2>3. Known(q, scan.tx, Mine(q), scan.aged)
      BY <1>1, <2>1, <2>2 DEF IdentityInv, Scanned
    <2>4. Mine(q)' = Mine(q)
      <3>1. q \in scan'.read <=> q \in scan.read
        BY <1>4, <1>5 DEF Waits
      <3>. QED
        BY <1>4, <3>1 DEF Mine
    <2>. QED
      BY <1>1, <1>4, <2>3, <2>4 DEF Known
  <1>16. ReadsAll'
    BY <1>1, <1>4, <1>6, <1>10 DEF IdentityInv, ReadsAll, Held
  <1>. QED
    BY <1>7, <1>11, <1>12, <1>13, <1>14, <1>15, <1>16 DEF IdentityInv

\* Everything has been read.
Over == scan.pc = "walk" /\ scan.left = {} /\ scan.todo = {} /\ scan.queue = {}

\* Of the songs that the scan has not seen those may go whose files are gone, in a full
\* scan all of them.
LEMMA DeleteKeeps ==
    ASSUME IdentityInv, Over, NEW S \in SUBSET DOMAIN scan.tx, scan.seen \subseteq S,
           scan.full \/ (\A i \in DOMAIN scan.tx \ S : ~Held(scan.tx[i].path)),
           NEW pc \in {"walk", "commit"}, NEW n \in Nat,
           scan' = [scan EXCEPT !.pc = pc, !.tx = Restricted(scan.tx, S), !.found = n],
           UNCHANGED <<disk, dirty, songs, scanned, past>>
    PROVE  /\ Types' /\ Walk' /\ ReadsAll' /\ Seen' /\ Committed' /\ Scanned'
           /\ DOMAIN scan'.tx = S /\ \A i \in S : scan'.tx[i] = scan.tx[i]
           /\ scan'.pc = pc /\ scan'.found = n
           /\ scan'.left = {} /\ scan'.todo = {} /\ scan'.queue = {}
           /\ scan'.seen = scan.seen /\ scan'.changed = scan.changed
  <1>1. /\ disk' = disk /\ dirty' = dirty /\ songs' = songs
        /\ scanned' = scanned /\ past' = past
    OBVIOUS
  <1>2. PICK T : T = Restricted(scan.tx, S)
    OBVIOUS
  <1>3. DOMAIN T = S /\ \A i \in S : T[i] = scan.tx[i]
    BY <1>2 DEF Restricted
  <1>4. Sound(T)
    <2>1. Sound(scan.tx)
      BY DEF IdentityInv, Types
    <2>2. T = [i \in S |-> T[i]] /\ S \in SUBSET Ids
      BY <1>2, <1>3, <2>1, TableRows DEF Restricted, Sound
    <2>3. T \in [S -> Rows]
      BY <1>3, <2>1, <2>2, TableRows DEF Sound
    <2>4. IsFiniteSet(S)
      BY <2>1, FS_Subset DEF Sound
    <2>. QED
      BY <1>3, <2>1, <2>2, <2>3, <2>4 DEF Sound, Tables, OneEach
  <1>5. /\ scan' \in Scans
        /\ scan'.pc = pc /\ scan'.first = scan.first /\ scan'.full = scan.full
        /\ scan'.left = {} /\ scan'.todo = {} /\ scan'.queue = {}
        /\ scan'.tx = T /\ scan'.seen = scan.seen /\ scan'.found = n
        /\ scan'.read = scan.read /\ scan'.changed = scan.changed
        /\ scan'.aged = scan.aged
    BY <1>2, <1>4 DEF IdentityInv, Types, Scans, Sound, Over
  <1>6. Types'
    BY <1>1, <1>4, <1>5 DEF IdentityInv, Types, Over
  <1>7. Walk'
    BY <1>1, <1>5 DEF IdentityInv, Walk, Unread, Held, Over
  <1>8. ReadsAll'
    BY <1>1, <1>5 DEF IdentityInv, ReadsAll, Unread, Held, Over
  <1>9. Seen'
    BY <1>1, <1>3, <1>5 DEF IdentityInv, Seen, Waits, Over
  <1>10. Committed'
    BY <1>1 DEF IdentityInv, Committed, Held, Known
  <1>11. Scanned'
    <2>. SUFFICES ASSUME NEW q \in Paths \ scan'.changed, Held(q)', ~Waits(q)', Done(q)'
                  PROVE  Known(q, scan.tx, Mine(q), scan.aged)'
      BY DEF Scanned
    <2>1. q \notin scan.changed /\ ~Waits(q) /\ Held(q) /\ Done(q) /\ ~Unread(q)
      BY <1>1, <1>5 DEF Waits, Held, Done, Unread, Over
    <2>2. Known(q, scan.tx, Mine(q), scan.aged)
      BY <2>1 DEF IdentityInv, Scanned, Over
    <2>3. CASE disk[q].tag \in past.twins
      BY <1>1, <2>3 DEF Known
    <2>4. CASE disk[q].tag \notin past.twins
      <3>1. PICK i \in Mine(q) :
                /\ scan.tx[i].path = q
                /\ scan.tx[i].meta = disk[q].meta
                /\ i \in scan.aged \/ scan.tx[i].artists = {disk[q].meta.artist}
                /\ disk[q].tag # None
                /\ disk[q].tag = i \/ disk[q].tag \notin DOMAIN scan.tx \cup DOMAIN songs
        BY <2>2, <2>4 DEF Known
      <3>2. i \in DOMAIN scan.tx
        BY <3>1 DEF Mine, IdentityInv, Seen
      <3>3. i \in S
        <4>1. CASE q \in scan.read
          BY <3>1, <4>1 DEF Mine
        <4>2. CASE q \notin scan.read
          <5>1. ~scan.full
            BY <2>1, <4>2 DEF IdentityInv, ReadsAll, Over
          <5>. QED
            BY <2>1, <3>1, <3>2, <5>1
        <4>. QED
          BY <4>1, <4>2
      <3>4. i \in Mine(q)'
        BY <1>3, <1>5, <3>1, <3>3 DEF Mine
      <3>. QED
        BY <1>1, <1>3, <1>5, <3>1, <3>3, <3>4 DEF Known
    <2>. QED
      BY <2>3, <2>4
  <1>. QED
    BY <1>3, <1>5, <1>6, <1>7, <1>8, <1>9, <1>10, <1>11

\* A full scan has read every file, so all it knows it has seen.
LEMMA DeleteLastUpdatedBeforeKeeps ==
    ASSUME IdentityInv, DeleteLastUpdatedBefore
    PROVE  IdentityInv'
  <1>1. Over /\ scan.full /\ UNCHANGED <<disk, dirty, songs, scanned, past>>
    BY DEF DeleteLastUpdatedBefore, Over
  <1>2. scan.seen \in SUBSET DOMAIN scan.tx /\ scan.seen \subseteq scan.seen
    BY DEF IdentityInv, Seen
  <1>3. scan.found \in Nat /\ scan \in Scans
    BY DEF IdentityInv, Types, Scans
  <1>4. scan' = [scan EXCEPT !.pc = "commit", !.tx = Restricted(scan.tx, scan.seen),
                             !.found = scan.found]
    BY <1>3 DEF DeleteLastUpdatedBefore, Scans
  <1>5. /\ Types' /\ Walk' /\ ReadsAll' /\ Seen' /\ Committed' /\ Scanned'
        /\ DOMAIN scan'.tx = scan.seen /\ \A i \in scan.seen : scan'.tx[i] = scan.tx[i]
        /\ scan'.pc = "commit" /\ scan'.found = scan.found
        /\ scan'.left = {} /\ scan'.todo = {} /\ scan'.queue = {}
        /\ scan'.seen = scan.seen /\ scan'.changed = scan.changed
    BY <1>1, <1>2, <1>3, <1>4, DeleteKeeps
  <1>6. \A i \in scan.seen : There(i)
    BY DEF IdentityInv, Seen, Walk, There
  <1>7. Paging'
    BY <1>1, <1>5, <1>6 DEF Paging, There, Held
  <1>. QED
    BY <1>5, <1>7 DEF IdentityInv

\* A set of ids has a least one.
LEMMA Least ==
    ASSUME NEW S \in SUBSET Nat, S # {}
    PROVE  \E i \in S : \A j \in S : i <= j
  <1>1. PICK i \in S : \A j \in S : ~(<<j, i>> \in OpToRel(<, Nat))
    BY NatLessThanWellFounded, WFMin
  <1>2. \A j \in S : ~(j < i)
    BY <1>1 DEF OpToRel
  <1>. QED
    BY <1>2

\* With an id, C holds those of R before it.
Leads(C, R) == \A i \in C, j \in R : j < i => j \in C

\* The page of R that begins at offset n.
PageOf(R, n) == {i \in R : n <= Rank(R, i) /\ Rank(R, i) < n + PageSize}

\* What is known once the songs `gone` of the page after C are deleted.
Turned(R, C, page, gone) ==
    /\ page \cap C = {}
    /\ Cardinality(C \cup (page \ gone)) = Cardinality(C) + Cardinality(page \ gone)
    /\ Leads(C \cup (page \ gone), R \ gone)
    /\ page = {} => C = R

\* The page after the songs C that were looked at and are still there: with those of the
\* page that stay, they are so again; and where the page is empty, they are all there is.
LEMMA PageTurns ==
    ASSUME NEW R \in SUBSET Nat, IsFiniteSet(R), NEW C \in SUBSET R,
           Leads(C, R), NEW page, page = PageOf(R, Cardinality(C)),
           NEW gone \in SUBSET page
    PROVE  Turned(R, C, page, gone)
  <1>. DEFINE Below(i) == {j \in R : j < i}
              n == Cardinality(C)
  <1>0. /\ \A i \in R : i \in Nat
        /\ \A i \in page : i \in R /\ n <= Rank(R, i) /\ Rank(R, i) < n + PageSize
        /\ \A i \in R : n <= Rank(R, i) /\ Rank(R, i) < n + PageSize => i \in page
        /\ page \subseteq R
    BY DEF PageOf
  <1>c. \A i \in C, j \in R : j < i => j \in C
    BY DEF Leads
  <1>b. \A i \in R : \A j : j \in Below(i) <=> j \in R /\ j < i
    OBVIOUS
  <1>1. \A i \in R : IsFiniteSet(Below(i)) /\ Rank(R, i) = Cardinality(Below(i)) /\ Rank(R, i) \in Nat
    <2>1. \A i \in R : IsFiniteSet(Below(i))
      BY FS_Subset
    <2>2. \A i \in R : Rank(R, i) = Cardinality(Below(i))
      BY DEF Rank
    <2>. HIDE DEF Below
    <2>. QED
      BY <2>1, <2>2, FS_CardinalityType
  <1>2. IsFiniteSet(C) /\ n \in Nat /\ IsFiniteSet(page) /\ IsFiniteSet(page \ gone)
    <2>1. C \subseteq R /\ page \ gone \subseteq R
      BY <1>0
    <2>. QED
      BY <1>0, <2>1, FS_Subset, FS_CardinalityType
  <1>. HIDE DEF Below
  <1>3. \A i \in C : Rank(R, i) < n
    <2>. SUFFICES ASSUME NEW i \in C PROVE Rank(R, i) < n
      OBVIOUS
    <2>1. Below(i) \subseteq C \ {i}
      <3>. SUFFICES ASSUME NEW j \in Below(i) PROVE j \in C /\ j # i
        OBVIOUS
      <3>1. i \in R /\ j \in R /\ j < i
        BY <1>b
      <3>2. i \in Nat /\ j \in Nat
        BY <1>0, <3>1
      <3>. QED
        BY <1>c, <3>1, <3>2
    <2>2. IsFiniteSet(C \ {i}) /\ Cardinality(C \ {i}) = n - 1
      BY <1>2, FS_RemoveElement
    <2>3. Cardinality(Below(i)) <= n - 1
      BY <2>1, <2>2, FS_Subset
    <2>. QED
      BY <1>1, <1>2, <2>3
  <1>4. \A i \in R \ C : Rank(R, i) >= n
    <2>. SUFFICES ASSUME NEW i \in R \ C PROVE Rank(R, i) >= n
      OBVIOUS
    <2>1. C \subseteq Below(i)
      BY <1>0, <1>b, <1>c
    <2>2. n <= Cardinality(Below(i))
      BY <1>1, <2>1, FS_Subset
    <2>. QED
      BY <1>1, <1>2, <2>2
  <1>5. \A i, j \in R : j < i => Rank(R, j) <= Rank(R, i)
    <2>. SUFFICES ASSUME NEW i \in R, NEW j \in R, j < i
                  PROVE  Rank(R, j) <= Rank(R, i)
      OBVIOUS
    <2>1. Below(j) \subseteq Below(i)
      <3>. SUFFICES ASSUME NEW k \in Below(j) PROVE k \in Below(i)
        OBVIOUS
      <3>1. k \in R /\ k < j
        BY <1>b
      <3>2. i \in Nat /\ j \in Nat /\ k \in Nat
        BY <1>0, <3>1
      <3>3. k < i
        BY <3>1, <3>2
      <3>. QED
        BY <1>b, <3>1, <3>3
    <2>2. Cardinality(Below(j)) <= Cardinality(Below(i))
      BY <1>1, <2>1, FS_Subset
    <2>. QED
      BY <1>1, <2>2
  <1>6. page \cap C = {}
    <2>. SUFFICES ASSUME NEW i \in page, i \in C PROVE FALSE
      OBVIOUS
    <2>1. Rank(R, i) \in Nat /\ Rank(R, i) < n /\ n <= Rank(R, i)
      BY <1>0, <1>1, <1>3
    <2>. QED
      BY <1>2, <2>1
  <1>7. PageSize \in Nat /\ PageSize > 0
    BY IdentityAssumption
  <1>8. page = {} => C = R
    <2>. SUFFICES ASSUME page = {}, C # R PROVE FALSE
      OBVIOUS
    <2>1. PICK i \in R \ C : \A j \in R \ C : i <= j
      BY Least
    <2>2. Below(i) = C
      <3>1. Below(i) \subseteq C
        <4>. SUFFICES ASSUME NEW j \in Below(i), j \notin C PROVE FALSE
          OBVIOUS
        <4>1. j \in R /\ j < i
          BY <1>b
        <4>2. i <= j /\ i \in Nat /\ j \in Nat
          BY <1>0, <2>1, <4>1
        <4>. QED
          BY <4>1, <4>2
      <3>2. C \subseteq Below(i)
        BY <1>0, <1>b, <1>c, <2>1
      <3>. QED
        BY <3>1, <3>2
    <2>3. Rank(R, i) = n
      BY <1>1, <2>2
    <2>4. i \in page
      BY <1>0, <1>2, <1>7, <2>3
    <2>. QED
      BY <2>4
  <1>9. Cardinality(C \cup (page \ gone)) = Cardinality(C) + Cardinality(page \ gone)
    <2>1. C \cap (page \ gone) = {}
      BY <1>6
    <2>2. Cardinality(C \cup (page \ gone)) =
              Cardinality(C) + Cardinality(page \ gone) - Cardinality({})
      BY <1>2, <2>1, FS_Union
    <2>3. Cardinality(C) \in Nat /\ Cardinality(page \ gone) \in Nat /\ Cardinality({}) = 0
      BY <1>2, FS_CardinalityType, FS_EmptySet
    <2>. QED
      BY <2>2, <2>3
  <1>10. ASSUME NEW i \in C \cup (page \ gone), NEW j \in R \ gone, j < i
         PROVE  j \in C \cup (page \ gone)
    <2>1. CASE j \in C
      BY <2>1
    <2>2. CASE j \notin C
      <3>1. i \notin C
        BY <1>10, <1>c, <2>2
      <3>2. i \in R /\ j \in R /\ Rank(R, i) < n + PageSize
        BY <1>0, <3>1
      <3>3. n <= Rank(R, j) /\ Rank(R, j) <= Rank(R, i)
        BY <1>4, <1>5, <1>10, <2>2, <3>2
      <3>4. Rank(R, j) < n + PageSize
        <4>1. Rank(R, i) \in Nat /\ Rank(R, j) \in Nat
          BY <1>1, <3>2
        <4>. QED
          BY <1>2, <1>7, <3>2, <3>3, <4>1
      <3>5. j \in page
        BY <1>0, <3>2, <3>3, <3>4
      <3>. QED
        BY <3>5
    <2>. QED
      BY <2>1, <2>2
  <1>. QED
    BY <1>6, <1>8, <1>9, <1>10 DEF Leads, Turned

\* What a page deletes is gone, and the offset follows what it leaves.
LEMMA DeleteOrphanedSongsByPathKeeps ==
    ASSUME IdentityInv, DeleteOrphanedSongsByPath
    PROVE  IdentityInv'
  <1>. DEFINE page == Page(scan.tx, scan.seen, scan.found)
              gone == {i \in page : ~Held(scan.tx[i].path)}
              S == DOMAIN scan.tx \ gone
              pc == IF page = {} THEN "commit" ELSE scan.pc
              n == scan.found + Cardinality(page \ gone)
  <1>1. Over /\ UNCHANGED <<disk, dirty, songs, scanned, past>>
    BY DEF DeleteOrphanedSongsByPath, Over
  <1>2. scan' = [scan EXCEPT !.pc = pc, !.tx = Restricted(scan.tx, S), !.found = n]
    BY DEF DeleteOrphanedSongsByPath
  <1>3. PICK C \in SUBSET Rest : Looked(C)
    BY <1>1 DEF IdentityInv, Paging, Over
  <1>4. Rest \in SUBSET Nat /\ IsFiniteSet(Rest) /\ scan.found \in Nat
    <2>1. IsFiniteSet(DOMAIN scan.tx) /\ DOMAIN scan.tx \subseteq Ids /\ scan \in Scans
      BY TableRows DEF IdentityInv, Types, Sound
    <2>. QED
      BY <2>1, IdentityAssumption, FS_Subset DEF Rest, Scans
  <1>5. page = PageOf(Rest, Cardinality(C)) /\ page \subseteq Rest
    BY <1>3 DEF Looked, Page, Rest, PageOf
  <1>6. gone \in SUBSET page /\ gone \cap scan.seen = {} /\ page \subseteq Rest
    BY <1>5 DEF Rest
  <1>. DEFINE D == C \cup (page \ gone)
  <1>7. /\ page \cap C = {}
        /\ Cardinality(D) = Cardinality(C) + Cardinality(page \ gone)
        /\ Leads(D, Rest \ gone)
        /\ page = {} => C = Rest
    <2>1. Leads(C, Rest)
      BY <1>3 DEF Looked, Leads
    <2>2. PICK G : G = gone
      OBVIOUS
    <2>3. PICK P : P = page
      OBVIOUS
    <2>4. P = PageOf(Rest, Cardinality(C)) /\ G \in SUBSET P
      BY <1>5, <1>6, <2>2, <2>3
    <2>. HIDE DEF page, gone
    <2>5. Turned(Rest, C, P, G)
      BY <1>3, <1>4, <2>1, <2>4, PageTurns
    <2>. QED
      BY <2>2, <2>3, <2>5 DEF Turned
  <1>8. n \in Nat /\ Cardinality(D) = n
    <2>1. Cardinality(C) = scan.found
      BY <1>3 DEF Looked
    <2>2. IsFiniteSet(page \ gone)
      BY <1>4, <1>6, FS_Subset
    <2>. QED
      BY <1>4, <1>7, <2>1, <2>2, FS_CardinalityType
  <1>9. /\ \A i \in gone : ~Held(scan.tx[i].path)
        /\ \A i \in page \ gone : There(i)
    BY DEF There
  <1>10. scan.seen \subseteq S /\ pc \in {"walk", "commit"} /\ DOMAIN scan.tx \ S \subseteq gone
    BY <1>1, <1>6 DEF IdentityInv, Seen, Over
  <1>11. S \in SUBSET DOMAIN scan.tx
    OBVIOUS
  <1>12. Rest \ gone = S \ scan.seen
    BY <1>6 DEF Rest
  <1>13. pc = "commit" <=> page = {}
    BY <1>1 DEF Over
  <1>. HIDE DEF page, gone, S, pc, n, D
  <1>14. /\ Types' /\ Walk' /\ ReadsAll' /\ Seen' /\ Committed' /\ Scanned'
         /\ DOMAIN scan'.tx = S /\ \A i \in S : scan'.tx[i] = scan.tx[i]
         /\ scan'.pc = pc /\ scan'.found = n
         /\ scan'.left = {} /\ scan'.todo = {} /\ scan'.queue = {}
         /\ scan'.seen = scan.seen /\ scan'.changed = scan.changed
    BY <1>1, <1>2, <1>8, <1>9, <1>10, <1>11, DeleteKeeps
  <1>15. \A i \in S : There(i) => There(i)'
    BY <1>1, <1>14 DEF There, Held
  <1>16. \A i \in C : There(i) /\ i \notin gone
    BY <1>3, <1>6, <1>7 DEF Looked
  <1>20. PICK E : E = D
    OBVIOUS
  <1>17. E \in SUBSET Rest' /\ Looked(E)'
    <2>1. Rest' = Rest \ gone
      BY <1>12, <1>14 DEF Rest
    <2>2. D \subseteq Rest \ gone
      BY <1>6, <1>7, <1>16 DEF D
    <2>3. \A i \in D : There(i)
      BY <1>9, <1>16 DEF D
    <2>4. \A i \in E : There(i)'
      BY <1>12, <1>15, <1>20, <2>2, <2>3
    <2>5. E \subseteq Rest' /\ Cardinality(E) = scan'.found
      BY <1>8, <1>14, <1>20, <2>1, <2>2
    <2>6. \A i \in E, j \in Rest' : j < i => j \in E
      BY <1>7, <1>20, <2>1 DEF Leads
    <2>. QED
      BY <2>4, <2>5, <2>6 DEF Looked
  <1>18. pc = "commit" => \A i \in DOMAIN scan'.tx : There(i)'
    <2>. SUFFICES ASSUME pc = "commit", NEW i \in S PROVE There(i)'
      BY <1>14
    <2>1. CASE i \in scan.seen
      <3>1. There(i)
        BY <2>1 DEF IdentityInv, Seen, Walk, There
      <3>. QED
        BY <1>15, <3>1
    <2>2. CASE i \notin scan.seen
      <3>1. i \in C
        BY <1>7, <1>12, <1>13, <2>2
      <3>. QED
        BY <1>15, <1>16, <3>1
    <2>. QED
      BY <2>1, <2>2
  <1>19. Paging'
    BY <1>14, <1>17, <1>18 DEF Paging
  <1>. QED
    BY <1>14, <1>19 DEF IdentityInv

\* What a scan knows of the files when it commits.
LEMMA KnownAtCommit ==
    ASSUME IdentityInv, Commit
    PROVE  \A p \in Paths \ past'.stale : Held(p) => Known(p, scan.tx, DOMAIN scan.tx, scan.aged)
  <1>. SUFFICES ASSUME NEW p \in Paths \ past'.stale, Held(p)
                PROVE  Known(p, scan.tx, DOMAIN scan.tx, scan.aged)
    OBVIOUS
  <1>1. past \in Pasts /\ scan.pc = "commit"
    BY DEF IdentityInv, Types, Commit
  <1>2. past'.stale = (past.stale \ scan.read) \cup scan.changed
    BY <1>1 DEF Commit, Pasts
  <1>3. /\ p \notin scan.changed /\ (p \in scan.read \/ p \notin past.stale)
        /\ ~Waits(p) /\ ~Unread(p)
    BY <1>1, <1>2 DEF IdentityInv, Walk, Waits, Unread
  <1>4. Known(p, scan.tx, Mine(p), scan.aged)
    BY <1>1, <1>3 DEF IdentityInv, Scanned, Done
  <1>5. Mine(p) \subseteq DOMAIN scan.tx
    BY DEF Mine, IdentityInv, Seen
  <1>. QED
    BY <1>4, <1>5 DEF Known

\* What was scanned is committed.
LEMMA CommitKeeps ==
    ASSUME IdentityInv, Commit
    PROVE  IdentityInv'
  <1>1. /\ songs' = scan.tx /\ scanned' = TRUE /\ scan' = Idle
        /\ scan.pc = "commit"
        /\ past' = [past EXCEPT !.stale = (past.stale \ scan.read) \cup scan.changed,
                                !.aged = scan.aged]
    BY DEF Commit
  <1>2. PICK late \in SUBSET scan.changed :
            /\ disk' = [p \in Paths |->
                 IF Held(p) /\ p \notin late THEN [disk[p] EXCEPT !.mod = FALSE, !.chg = FALSE]
                 ELSE disk[p]]
            /\ dirty' = {DirOf[p] : p \in late}
    BY DEF Commit
  <1>3. /\ disk \in [Paths -> Files \cup {NoFile}] /\ scan \in Scans /\ past \in Pasts
        /\ Sound(scan.tx)
    BY DEF IdentityInv, Types
  <1>4. \A p \in Paths :
            /\ Held(p)' => Held(p)
            /\ disk'[p] \in Files \cup {NoFile}
            /\ Held(p) => disk'[p].tag = disk[p].tag /\ disk'[p].meta = disk[p].meta
    <2>. SUFFICES ASSUME NEW p \in Paths
                  PROVE  /\ Held(p)' => Held(p)
                         /\ disk'[p] \in Files \cup {NoFile}
                         /\ Held(p) => disk'[p].tag = disk[p].tag /\ disk'[p].meta = disk[p].meta
      OBVIOUS
    <2>1. CASE Held(p) /\ p \notin late
      <3>1. disk'[p] = [disk[p] EXCEPT !.mod = FALSE, !.chg = FALSE]
        BY <1>2, <2>1
      <3>2. disk[p] \in Files
        BY <1>3, <2>1 DEF Held
      <3>. QED
        BY <2>1, <3>1, <3>2 DEF Files
    <2>2. CASE ~(Held(p) /\ p \notin late)
      <3>1. disk'[p] = disk[p]
        BY <1>2, <2>2
      <3>. QED
        BY <1>3, <3>1 DEF Held
    <2>. QED
      BY <2>1, <2>2
  <1>5. /\ past' \in Pasts
        /\ past'.stale = (past.stale \ scan.read) \cup scan.changed
        /\ past'.aged = scan.aged /\ past'.twins = past.twins
    BY <1>1, <1>3 DEF Pasts, Scans
  <1>6. scan'.pc = "idle" /\ scan'.tx = Empty
    BY <1>1 DEF Idle
  <1>7. Types'
    <2>1. disk' \in [Paths -> Files \cup {NoFile}]
      <3>1. disk' = [p \in Paths |-> disk'[p]]
        BY <1>2
      <3>. QED
        BY <1>4, <3>1
    <2>2. dirty' \subseteq Dirs
      <3>1. \A p \in Paths : DirOf[p] \in Dirs
        BY IdentityAssumption DEF Dirs
      <3>2. late \subseteq Paths
        BY <1>3 DEF Scans
      <3>. QED
        BY <1>2, <3>1, <3>2
    <2>. QED
      BY <1>1, <1>3, <1>5, <1>6, <2>1, <2>2, IdleType DEF Types
  <1>8. Walk'
    BY <1>1, FS_EmptySet DEF Walk, Idle, Unread
  <1>9. Seen'
    BY <1>1 DEF Seen, Idle, Empty
  <1>10. Paging'
    BY <1>1 DEF Paging, Idle
  <1>11. Scanned' /\ ReadsAll'
    BY <1>6 DEF Scanned, ReadsAll
  <1>12. \A p \in Paths \ past'.stale : Held(p) => Known(p, scan.tx, DOMAIN scan.tx, scan.aged)
    BY KnownAtCommit
  <1>13. Committed'
    <2>. SUFFICES ASSUME NEW p \in Paths \ past'.stale, Held(p)'
                  PROVE  Known(p, songs, DOMAIN songs, past.aged)'
      BY <1>1, <1>5 DEF Committed
    <2>1. Held(p) /\ disk'[p].tag = disk[p].tag /\ disk'[p].meta = disk[p].meta
      BY <1>4
    <2>2. Known(p, scan.tx, DOMAIN scan.tx, scan.aged)
      BY <1>12, <2>1
    <2>. QED
      BY <1>1, <1>5, <2>1, <2>2 DEF Known
  <1>. QED
    BY <1>7, <1>8, <1>9, <1>10, <1>11, <1>13 DEF IdentityInv

-----------------------------------------------------------------------------
(* A batch of createOrUpdateSongs.  *)

\* No two files have the same path.
Apart(F) == \A f, g \in F : f.path = g.path => f = g

\* For each id of files in F, by h, one of those files.
OneOf(pick, F, h) ==
    /\ \A i \in DOMAIN pick : pick[i] \in F /\ h[pick[i]] = i
    /\ \A f \in F : h[f] \in DOMAIN pick

\* An UPDATE that joins ids with files takes one of the files of each id.
LEMMA PicksOne ==
    ASSUME NEW F, NEW h, DOMAIN h = F, NEW pick \in Picks({<<h[f], f>> : f \in F})
    PROVE  OneOf(pick, F, h)
  <1>. DEFINE rows == {<<h[f], f>> : f \in F}
  <1>1. DOMAIN pick = {r[1] : r \in rows} /\ \A i \in DOMAIN pick : <<i, pick[i]>> \in rows
    BY DEF Picks
  <1>2. \A i, x : <<i, x>> \in rows => x \in F /\ h[x] = i
    OBVIOUS
  <1>3. \A f \in F : <<h[f], f>> \in rows
    OBVIOUS
  <1>4. \A f \in F : h[f] \in {r[1] : r \in rows}
    <2>1. \A f \in F : <<h[f], f>>[1] = h[f]
      OBVIOUS
    <2>. HIDE DEF rows
    <2>. QED
      BY <1>3, <2>1
  <1>. HIDE DEF rows
  <1>. QED
    BY <1>1, <1>2, <1>4 DEF OneOf

\* An UPDATE that the server carries out keeps the paths apart.
LEMMA Updates ==
    ASSUME NEW T \in Tables, OneEach(T), NEW F \in SUBSET Queued, Apart(F), NEW h,
           \A f \in F : h[f] \in DOMAIN T, NEW pick, OneOf(pick, F, h)
    PROVE  LET U == TryUpdateAll(T, pick)
           IN  /\ U \in Tables /\ DOMAIN U = DOMAIN T
               /\ \A i \in DOMAIN T : (\A f \in F : h[f] # i) => U[i] = T[i]
               /\ \A i \in DOMAIN pick : /\ i \in DOMAIN T
                                         /\ U[i].path = pick[i].path
                                         /\ U[i].meta = pick[i].meta
               /\ \A i \in DOMAIN T \ DOMAIN pick : U[i] = T[i]
               /\ MaySucceed(T, pick) \/ ~MayCollide(T, pick) => OneEach(U)
  <1>. DEFINE U == TryUpdateAll(T, pick)
  <1>1. /\ T \in [DOMAIN T -> Rows] /\ DOMAIN T \subseteq Ids
    BY TableRows
  <1>2. \A i \in DOMAIN pick : pick[i] \in F /\ h[pick[i]] = i /\ i \in DOMAIN T
    BY DEF OneOf
  <1>3. U = [i \in DOMAIN T |-> IF i \in DOMAIN pick
                               THEN [T[i] EXCEPT !.path = pick[i].path, !.meta = pick[i].meta]
                               ELSE T[i]]
    BY DEF TryUpdateAll
  <1>4. ASSUME NEW i \in DOMAIN pick
        PROVE  U[i].path = pick[i].path /\ U[i].meta = pick[i].meta /\ U[i] \in Rows
    <2>1. pick[i] \in Queued /\ T[i] \in Rows
      BY <1>1, <1>2
    <2>2. U[i] = [T[i] EXCEPT !.path = pick[i].path, !.meta = pick[i].meta]
      BY <1>2, <1>3
    <2>. HIDE DEF U
    <2>. QED
      BY <2>1, <2>2 DEF Queued, Rows
  <1>5. \A i \in DOMAIN T \ DOMAIN pick : U[i] = T[i]
    BY <1>3
  <1>6. DOMAIN U = DOMAIN T /\ U = [i \in DOMAIN T |-> U[i]]
    BY <1>3
  <1>7. U \in [DOMAIN T -> Rows]
    BY <1>1, <1>4, <1>5, <1>6
  <1>8. U \in Tables
    BY <1>1, <1>7 DEF Tables
  <1>9. ASSUME MaySucceed(T, pick) \/ ~MayCollide(T, pick), NEW i \in DOMAIN pick,
               NEW j \in DOMAIN T \ DOMAIN pick, T[j].path = pick[i].path
        PROVE  FALSE
    <2>1. j \in Holders(T, i, pick[i].path)
      BY <1>9 DEF Holders
    <2>. QED
      BY <1>9, <2>1 DEF MaySucceed, MayCollide
  <1>10. ASSUME MaySucceed(T, pick) \/ ~MayCollide(T, pick),
                NEW i \in DOMAIN T, NEW j \in DOMAIN T, U[i].path = U[j].path
         PROVE  i = j
    <2>1. CASE i \in DOMAIN pick /\ j \in DOMAIN pick
      <3>1. pick[i].path = pick[j].path
        BY <1>4, <1>10, <2>1
      <3>2. pick[i] = pick[j]
        BY <1>2, <2>1, <3>1 DEF Apart
      <3>. QED
        BY <1>2, <2>1, <3>2
    <2>2. CASE i \in DOMAIN pick /\ j \notin DOMAIN pick
      BY <1>4, <1>5, <1>9, <1>10, <2>2
    <2>3. CASE i \notin DOMAIN pick /\ j \in DOMAIN pick
      BY <1>4, <1>5, <1>9, <1>10, <2>3
    <2>4. CASE i \notin DOMAIN pick /\ j \notin DOMAIN pick
      BY <1>5, <1>10, <2>4 DEF OneEach
    <2>. QED
      BY <2>1, <2>2, <2>3, <2>4
  <1>11. MaySucceed(T, pick) \/ ~MayCollide(T, pick) => OneEach(U)
    BY <1>6, <1>10 DEF OneEach
  <1>12. \A i \in DOMAIN T : (\A f \in F : h[f] # i) => U[i] = T[i]
    BY <1>2, <1>5
  <1>. HIDE DEF U
  <1>13. /\ U \in Tables /\ DOMAIN U = DOMAIN T
         /\ \A i \in DOMAIN T : (\A f \in F : h[f] # i) => U[i] = T[i]
         /\ \A i \in DOMAIN pick : /\ i \in DOMAIN T
                                   /\ U[i].path = pick[i].path
                                   /\ U[i].meta = pick[i].meta
         /\ \A i \in DOMAIN T \ DOMAIN pick : U[i] = T[i]
         /\ MaySucceed(T, pick) \/ ~MayCollide(T, pick) => OneEach(U)
    BY <1>2, <1>4, <1>5, <1>6, <1>8, <1>11, <1>12
  <1>. QED
    BY <1>13 DEF U

\* No song has the path of a file in F.
Clear(T, F) == \A f \in F : \A i \in DOMAIN T : T[i].path # f.path

\* U is the table T with songs for the files F, by the ids new.
Created(U, T, F, new) ==
    /\ U \in Tables /\ OneEach(U)
    /\ DOMAIN U = DOMAIN T \cup {new[f] : f \in F}
    /\ \A i \in DOMAIN T : U[i] = T[i]
    /\ \A f \in F : U[new[f]].path = f.path /\ U[new[f]].meta = f.meta

\* U is the table T with new artists for the songs that files in F have by id.
Connected(U, T, F, id) ==
    /\ U \in Tables /\ OneEach(U) /\ DOMAIN U = DOMAIN T
    /\ \A i \in DOMAIN T : U[i].path = T[i].path /\ U[i].meta = T[i].meta
    /\ \A i \in DOMAIN T : (\A f \in F : id[f] # i) => U[i] = T[i]
    /\ \A f \in F : f.fresh /\ id[f] \in DOMAIN T /\ (\A g \in F : id[g] = id[f] => g = f) =>
          U[id[f]].artists = {f.meta.artist}

\* New songs get unused ids, at paths no song has.
LEMMA Creates ==
    ASSUME NEW T \in Tables, OneEach(T), NEW F \in SUBSET Queued, Apart(F),
           NEW S \in SUBSET Ids, S \cap DOMAIN T = {}, NEW new \in Injection(F, S), Clear(T, F)
    PROVE  Created(CreateSongsInDB(T, new), T, F, new)
  <1>. DEFINE U == CreateSongsInDB(T, new)
              R == {new[f] : f \in F}
              row(f) == [path |-> f.path, meta |-> f.meta, artists |-> {}]
  <1>1. /\ T \in [DOMAIN T -> Rows] /\ DOMAIN T \subseteq Ids
    BY TableRows
  <1>2. /\ DOMAIN new = F /\ \A f \in F : new[f] \in S
        /\ \A f, g \in F : new[f] = new[g] => f = g
    BY DEF Injection, IsInjective
  <1>3. R \subseteq Ids /\ R \cap DOMAIN T = {} /\ Range(new) = R
    BY <1>2 DEF Range
  <1>4. U = [i \in DOMAIN T \cup R |->
                IF i \in DOMAIN T THEN T[i]
                ELSE row(CHOOSE f \in F : new[f] = i)]
    BY <1>2, <1>3 DEF CreateSongsInDB
  <1>5. ASSUME NEW f \in F
        PROVE  U[new[f]] = row(f) /\ row(f) \in Rows
    <2>1. new[f] \in R /\ new[f] \notin DOMAIN T
      BY <1>3
    <2>2. PICK g : g = CHOOSE k \in F : new[k] = new[f]
      OBVIOUS
    <2>3. g \in F /\ new[g] = new[f]
      BY <2>2
    <2>4. g = f
      BY <1>2, <2>3
    <2>5. U[new[f]] = row(CHOOSE k \in F : new[k] = new[f])
      BY <1>4, <2>1
    <2>. HIDE DEF U
    <2>6. f \in Queued
      OBVIOUS
    <2>. QED
      BY <2>2, <2>4, <2>5, <2>6 DEF Queued, Rows
  <1>6. \A i \in DOMAIN T : U[i] = T[i]
    BY <1>4
  <1>7. DOMAIN U = DOMAIN T \cup R /\ U = [i \in DOMAIN T \cup R |-> U[i]]
    BY <1>4
  <1>. HIDE DEF U
  <1>8. \A f \in F : U[new[f]].path = f.path /\ U[new[f]].meta = f.meta
    <2>1. \A f \in F : row(f).path = f.path /\ row(f).meta = f.meta
      OBVIOUS
    <2>. HIDE DEF row
    <2>. QED
      BY <1>5, <2>1
  <1>9. \A i \in R : \E f \in F : i = new[f]
    OBVIOUS
  <1>. HIDE DEF R, row
  <1>10. \A i \in DOMAIN T \cup R : U[i] \in Rows
    BY <1>1, <1>5, <1>6, <1>9
  <1>11. U \in Tables
    <2>1. U \in [DOMAIN T \cup R -> Rows]
      BY <1>7, <1>10
    <2>2. DOMAIN T \cup R \in SUBSET Ids
      BY <1>1, <1>3
    <2>. QED
      BY <2>1, <2>2 DEF Tables
  <1>12. OneEach(U)
    <2>. SUFFICES ASSUME NEW i \in DOMAIN U, NEW j \in DOMAIN U, U[i].path = U[j].path
                  PROVE  i = j
      BY DEF OneEach
    <2>1. CASE i \in DOMAIN T /\ j \in DOMAIN T
      BY <1>6, <2>1 DEF OneEach
    <2>2. CASE i \in DOMAIN T /\ j \in R
      BY <1>6, <1>8, <1>9, <2>2 DEF Clear
    <2>3. CASE i \in R /\ j \in DOMAIN T
      BY <1>6, <1>8, <1>9, <2>3 DEF Clear
    <2>4. CASE i \in R /\ j \in R
      BY <1>8, <1>9, <2>4 DEF Apart
    <2>. QED
      BY <1>7, <2>1, <2>2, <2>3, <2>4
  <1>. QED
    BY <1>6, <1>7, <1>8, <1>11, <1>12 DEF Created, U, R

\* The artists are replaced where a file was read for its artists.
LEMMA Connects ==
    ASSUME NEW T \in Tables, OneEach(T), NEW F \in SUBSET Queued, NEW id, DOMAIN id = F
    PROVE  Connected(Connect(T, id), T, F, id)
  <1>. DEFINE U == Connect(T, id)
              fresh == {f \in F : f.fresh}
              As(i) == {f.meta.artist : f \in {g \in fresh : id[g] = i}}
  <1>1. /\ T \in [DOMAIN T -> Rows] /\ DOMAIN T \subseteq Ids
    BY TableRows
  <1>2. U = [i \in DOMAIN T |-> IF \E f \in fresh : id[f] = i
                               THEN [T[i] EXCEPT !.artists = As(i)] ELSE T[i]]
    BY DEF Connect
  <1>3. \A i \in DOMAIN T : As(i) \in SUBSET {m.artist : m \in Metas}
    BY DEF Queued
  <1>4. ASSUME NEW i \in DOMAIN T
        PROVE  /\ U[i] \in Rows /\ U[i].path = T[i].path /\ U[i].meta = T[i].meta
               /\ (\A f \in F : id[f] # i) => U[i] = T[i]
               /\ (\E f \in fresh : id[f] = i) => U[i].artists = As(i)
    <2>1. T[i] \in Rows
      BY <1>1
    <2>2. As(i) \in SUBSET {m.artist : m \in Metas}
      BY <1>3
    <2>3. CASE \E f \in fresh : id[f] = i
      <3>1. U[i] = [T[i] EXCEPT !.artists = As(i)]
        BY <1>2, <2>3
      <3>2. ~(\A f \in F : id[f] # i)
        BY <2>3
      <3>. HIDE DEF U, As
      <3>. QED
        BY <2>1, <2>2, <3>1, <3>2 DEF Rows
    <2>4. CASE ~(\E f \in fresh : id[f] = i)
      <3>1. U[i] = T[i]
        BY <1>2, <2>4
      <3>. QED
        BY <2>1, <2>4, <3>1
    <2>. QED
      BY <2>3, <2>4
  <1>5. DOMAIN U = DOMAIN T /\ U = [i \in DOMAIN T |-> U[i]]
    BY <1>2
  <1>6. ASSUME NEW f \in F, f.fresh, id[f] \in DOMAIN T, \A g \in F : id[g] = id[f] => g = f
        PROVE  U[id[f]].artists = {f.meta.artist}
    <2>1. {g \in fresh : id[g] = id[f]} = {f}
      BY <1>6
    <2>2. As(id[f]) = {f.meta.artist}
      BY <2>1
    <2>3. \E g \in fresh : id[g] = id[f]
      BY <1>6
    <2>. HIDE DEF U, As, fresh
    <2>. QED
      BY <1>4, <1>6, <2>2, <2>3
  <1>. HIDE DEF U, As, fresh
  <1>7. U \in Tables
    <2>1. U \in [DOMAIN T -> Rows]
      BY <1>4, <1>5
    <2>. QED
      BY <1>1, <2>1 DEF Tables
  <1>8. OneEach(U)
    BY <1>4, <1>5 DEF OneEach
  <1>. QED
    BY <1>4, <1>5, <1>6, <1>7, <1>8 DEF Connected, U

\* The tags that are written, and nothing else of the files.
LEMMA Writes ==
    ASSUME disk \in [Paths -> Files \cup {NoFile}], NEW F \in SUBSET Queued, Apart(F),
           \A f \in F : Held(f.path), NEW id, \A f \in F : id[f] \in Ids
    PROVE  LET d == SetCrossonicID(F, id)
           IN  /\ d \in [Paths -> Files \cup {NoFile}]
               /\ \A p \in Paths : (\A f \in F : f.path # p) => d[p] = disk[p]
               /\ \A f \in F : /\ d[f.path] \in Files
                               /\ d[f.path].tag = id[f] /\ d[f.path].chg
                               /\ d[f.path].meta = disk[f.path].meta
  <1>. DEFINE d == SetCrossonicID(F, id)
  <1>1. d = [p \in Paths |->
                IF \E f \in F : f.path = p
                THEN [disk[p] EXCEPT !.tag = id[CHOOSE f \in F : f.path = p],
                                     !.mod = TRUE, !.chg = TRUE]
                ELSE disk[p]]
    BY DEF SetCrossonicID
  <1>2. ASSUME NEW f \in F
        PROVE  /\ d[f.path] \in Files
               /\ d[f.path].tag = id[f] /\ d[f.path].chg
               /\ d[f.path].meta = disk[f.path].meta
    <2>1. f.path \in Paths
      BY DEF Queued
    <2>2. disk[f.path] \in Files
      BY <2>1 DEF Held
    <2>3. PICK g : g = CHOOSE k \in F : k.path = f.path
      OBVIOUS
    <2>4. g = f
      BY <2>3 DEF Apart
    <2>5. d[f.path] = [disk[f.path] EXCEPT !.tag = id[CHOOSE k \in F : k.path = f.path],
                                           !.mod = TRUE, !.chg = TRUE]
      BY <1>1, <2>1
    <2>6. d[f.path] = [disk[f.path] EXCEPT !.tag = id[f], !.mod = TRUE, !.chg = TRUE]
      BY <2>3, <2>4, <2>5
    <2>7. id[f] \in Ids
      OBVIOUS
    <2>. HIDE DEF d
    <2>. QED
      BY <2>2, <2>6, <2>7 DEF Files
  <1>3. \A p \in Paths : (\A f \in F : f.path # p) => d[p] = disk[p]
    BY <1>1
  <1>4. d = [p \in Paths |-> d[p]]
    BY <1>1
  <1>. HIDE DEF d
  <1>5. d \in [Paths -> Files \cup {NoFile}]
    BY <1>2, <1>3, <1>4
  <1>. QED
    BY <1>2, <1>3, <1>5 DEF d

\* The steps of CreateOrUpdateSongs, by its choices.
TagRows == {<<f.tag, f>> : f \in Tagged}
First(pick) == TryUpdateAll(scan.tx, pick)
May(pick) == [f \in scan.queue \ Tagged |-> IF scan.first THEN {} ELSE Matches(First(pick), f)]
KnownFiles(pick) == {f \in DOMAIN May(pick) : May(pick)[f] # {}}
NewFiles(pick) == DOMAIN May(pick) \ KnownFiles(pick)
MatchesFor(pick) ==
    {g \in [KnownFiles(pick) -> Ids] : \A f \in KnownFiles(pick) : g[f] \in May(pick)[f]}
IdOf(pick, match, new) ==
    [f \in scan.queue |-> CASE f \in Tagged -> f.tag
                            [] f \in KnownFiles(pick) -> match[f]
                            [] f \in NewFiles(pick) -> new[f]]
Untagged(pick) == {f \in scan.queue : f.tag = None \/ f \in NewFiles(pick)}

\* Why the batch may fail.
BatchFails(pick, pick2) ==
    /\ \/ MayCollide(scan.tx, pick)
       \/ MayCollide(First(pick), pick2)
       \/ \E f \in Untagged(pick) : ~Held(f.path)
    /\ Rollback
    /\ UNCHANGED disk

\* What it does otherwise.
BatchSucceeds(pick, pick2, new, id) ==
    /\ MaySucceed(scan.tx, pick)
    /\ MaySucceed(First(pick), pick2)
    /\ \A f \in Untagged(pick) : Held(f.path)
    /\ disk' = SetCrossonicID(Untagged(pick), id)
    /\ scan' = [scan EXCEPT
         !.queue = {},
         !.tx = Connect(CreateSongsInDB(TryUpdateAll(First(pick), pick2), new), id),
         !.seen = @ \cup Range(id),
         !.aged = {i \in @ : \A f \in scan.queue : id[f] = i => ~f.fresh}
                  \cup {id[f] : f \in {g \in scan.queue : ~g.fresh}}]
    /\ past' = [past EXCEPT !.twins = @ \cup (Twins(id, disk') \ {None})]
    /\ UNCHANGED <<dirty, songs, scanned, edits, scans>>

\* CreateOrUpdateSongs by its choices.
LEMMA BatchSteps ==
    ASSUME CreateOrUpdateSongs
    PROVE  /\ scan.pc = "walk" /\ scan.queue # {}
           /\ \E pick \in Picks(TagRows) :
               \E match \in MatchesFor(pick),
                  new \in Injection(NewFiles(pick), Fresh(Cardinality(NewFiles(pick)))) :
                 \E pick2 \in Picks({<<match[f], f>> : f \in KnownFiles(pick)}) :
                    \/ BatchFails(pick, pick2)
                    \/ BatchSucceeds(pick, pick2, new, IdOf(pick, match, new))
  BY Zenon DEF CreateOrUpdateSongs, TagRows, First, May, KnownFiles, NewFiles, MatchesFor, IdOf,
         Untagged, BatchFails, BatchSucceeds

\* The queue and the table that a batch begins with.
LEMMA QueueFacts ==
    ASSUME IdentityInv
    PROVE  /\ scan.queue \in SUBSET Queued /\ Apart(scan.queue) /\ IsFiniteSet(scan.queue)
           /\ scan.tx \in Tables /\ OneEach(scan.tx) /\ IsFiniteSet(DOMAIN scan.tx)
           /\ DOMAIN scan.tx \subseteq Ids
           /\ Tagged \in SUBSET scan.queue
  BY TableRows DEF IdentityInv, Types, Scans, Walk, Sound, Apart, Tagged

\* What the songs found by their ids become.
LEMMA FirstUpdate ==
    ASSUME IdentityInv, NEW pick \in Picks(TagRows)
    PROVE  LET U == First(pick)
           IN  /\ U \in Tables /\ DOMAIN U = DOMAIN scan.tx
               /\ \A i \in DOMAIN pick : pick[i] \in Tagged /\ pick[i].tag = i
               /\ \A f \in Tagged : f.tag \in DOMAIN pick
               /\ \A i \in DOMAIN pick : /\ i \in DOMAIN scan.tx
                                         /\ U[i].path = pick[i].path
                                         /\ U[i].meta = pick[i].meta
               /\ \A i \in DOMAIN scan.tx \ DOMAIN pick : U[i] = scan.tx[i]
               /\ MaySucceed(scan.tx, pick) \/ ~MayCollide(scan.tx, pick) => OneEach(U)
  <1>. DEFINE h == [f \in Tagged |-> f.tag]
  <1>1. \A f \in Tagged : h[f] = f.tag
    OBVIOUS
  <1>2. TagRows = {<<h[f], f>> : f \in Tagged}
    BY <1>1 DEF TagRows
  <1>3. DOMAIN h = Tagged
    OBVIOUS
  <1>. HIDE DEF h
  <1>4. pick \in Picks({<<h[f], f>> : f \in Tagged})
    BY <1>2
  <1>5. OneOf(pick, Tagged, h)
    BY <1>3, <1>4, PicksOne
  <1>6. \A f \in Tagged : h[f] \in DOMAIN scan.tx
    BY <1>1 DEF Tagged
  <1>7. Tagged \in SUBSET Queued /\ Apart(Tagged)
    BY QueueFacts DEF Apart
  <1>8. LET U == TryUpdateAll(scan.tx, pick)
        IN  /\ U \in Tables /\ DOMAIN U = DOMAIN scan.tx
            /\ \A i \in DOMAIN scan.tx : (\A f \in Tagged : h[f] # i) => U[i] = scan.tx[i]
            /\ \A i \in DOMAIN pick : /\ i \in DOMAIN scan.tx
                                      /\ U[i].path = pick[i].path
                                      /\ U[i].meta = pick[i].meta
            /\ \A i \in DOMAIN scan.tx \ DOMAIN pick : U[i] = scan.tx[i]
            /\ MaySucceed(scan.tx, pick) \/ ~MayCollide(scan.tx, pick) => OneEach(U)
    BY <1>5, <1>6, <1>7, QueueFacts, Updates
  <1>9. /\ \A i \in DOMAIN pick : pick[i] \in Tagged /\ pick[i].tag = i
        /\ \A f \in Tagged : f.tag \in DOMAIN pick
    BY <1>1, <1>5 DEF OneOf
  <1>. QED
    BY <1>8, <1>9 DEF First

\* The files that are matched, those that are new, and the songs they may be.
LEMMA MatchFacts ==
    ASSUME IdentityInv, NEW pick \in Picks(TagRows)
    PROVE  /\ DOMAIN May(pick) = scan.queue \ Tagged
           /\ KnownFiles(pick) \in SUBSET (scan.queue \ Tagged)
           /\ NewFiles(pick) = (scan.queue \ Tagged) \ KnownFiles(pick)
           /\ \A f \in KnownFiles(pick) :
                 May(pick)[f] = Matches(First(pick), f) /\ May(pick)[f] \subseteq DOMAIN scan.tx
           /\ \A f \in NewFiles(pick) : ~scan.first => Matches(First(pick), f) = {}
           /\ scan.first => KnownFiles(pick) = {}
  <1>1. /\ DOMAIN May(pick) = scan.queue \ Tagged
        /\ \A f \in scan.queue \ Tagged :
              May(pick)[f] = IF scan.first THEN {} ELSE Matches(First(pick), f)
    BY DEF May
  <1>2. \A f : Matches(First(pick), f) \subseteq DOMAIN First(pick)
    BY DEF Matches, ByMBID
  <1>3. DOMAIN First(pick) = DOMAIN scan.tx
    BY FirstUpdate
  <1>4. /\ \A f \in KnownFiles(pick) : f \in scan.queue \ Tagged /\ May(pick)[f] # {}
        /\ \A f \in scan.queue \ Tagged : f \notin KnownFiles(pick) => May(pick)[f] = {}
    BY <1>1 DEF KnownFiles
  <1>5. NewFiles(pick) = (scan.queue \ Tagged) \ KnownFiles(pick)
    BY <1>1 DEF NewFiles
  <1>6. \A f \in KnownFiles(pick) : ~scan.first
    BY <1>1, <1>4
  <1>. QED
    BY <1>1, <1>2, <1>3, <1>4, <1>5, <1>6

\* What the songs found otherwise become.
LEMMA SecondUpdate ==
    ASSUME IdentityInv, NEW pick \in Picks(TagRows), OneEach(First(pick)),
           NEW match \in MatchesFor(pick),
           NEW pick2 \in Picks({<<match[f], f>> : f \in KnownFiles(pick)})
    PROVE  LET U == TryUpdateAll(First(pick), pick2)
           IN  /\ U \in Tables /\ DOMAIN U = DOMAIN scan.tx
               /\ \A i \in DOMAIN pick2 : pick2[i] \in KnownFiles(pick) /\ match[pick2[i]] = i
               /\ \A f \in KnownFiles(pick) : match[f] \in DOMAIN pick2 /\ match[f] \in DOMAIN scan.tx
               /\ \A i \in DOMAIN pick2 : /\ i \in DOMAIN scan.tx
                                          /\ U[i].path = pick2[i].path
                                          /\ U[i].meta = pick2[i].meta
               /\ \A i \in DOMAIN scan.tx \ DOMAIN pick2 : U[i] = First(pick)[i]
               /\ MaySucceed(First(pick), pick2) => OneEach(U)
  <1>1. First(pick) \in Tables /\ DOMAIN First(pick) = DOMAIN scan.tx
    BY FirstUpdate
  <1>2. DOMAIN match = KnownFiles(pick) /\ \A f \in KnownFiles(pick) : match[f] \in May(pick)[f]
    BY DEF MatchesFor
  <1>3. \A f \in KnownFiles(pick) : match[f] \in DOMAIN First(pick)
    BY <1>1, <1>2, MatchFacts
  <1>4. OneOf(pick2, KnownFiles(pick), match)
    BY <1>2, PicksOne
  <1>5. KnownFiles(pick) \in SUBSET Queued /\ Apart(KnownFiles(pick))
    <2>1. KnownFiles(pick) \subseteq scan.queue
      BY MatchFacts
    <2>. QED
      BY <2>1, QueueFacts DEF Apart
  <1>6. LET U == TryUpdateAll(First(pick), pick2)
        IN  /\ U \in Tables /\ DOMAIN U = DOMAIN First(pick)
            /\ \A i \in DOMAIN First(pick) : (\A f \in KnownFiles(pick) : match[f] # i) => U[i] = First(pick)[i]
            /\ \A i \in DOMAIN pick2 : /\ i \in DOMAIN First(pick)
                                      /\ U[i].path = pick2[i].path
                                      /\ U[i].meta = pick2[i].meta
            /\ \A i \in DOMAIN First(pick) \ DOMAIN pick2 : U[i] = First(pick)[i]
            /\ MaySucceed(First(pick), pick2) \/ ~MayCollide(First(pick), pick2) => OneEach(U)
    BY <1>1, <1>3, <1>4, <1>5, Updates
  <1>. QED
    BY <1>1, <1>3, <1>4, <1>6 DEF OneOf

\* A path that waits is the path of no song the scan has seen.
LEMMA WaitingPath ==
    ASSUME IdentityInv, NEW f \in scan.queue, NEW i \in DOMAIN scan.tx, scan.tx[i].path = f.path
    PROVE  i \in DOMAIN songs /\ songs[i] = scan.tx[i] /\ i \notin scan.seen
  BY DEF IdentityInv, Seen, Waits

\* No song has the path of a file that is new.
LEMMA NewPath ==
    ASSUME IdentityInv, scan.pc = "walk", NEW pick \in Picks(TagRows), OneEach(First(pick)),
           NEW match \in MatchesFor(pick),
           NEW pick2 \in Picks({<<match[f], f>> : f \in KnownFiles(pick)}),
           NEW f \in NewFiles(pick), NEW i \in DOMAIN scan.tx
    PROVE  TryUpdateAll(First(pick), pick2)[i].path # f.path
  <1>1. f \in scan.queue \ Tagged /\ f \notin KnownFiles(pick)
    BY MatchFacts
  <1>2. First(pick)[i].path # f.path
    <2>1. CASE i \in DOMAIN pick
      <3>1. First(pick)[i].path = pick[i].path /\ pick[i] \in Tagged
        BY <2>1, FirstUpdate
      <3>. QED
        BY <1>1, <3>1, QueueFacts DEF Apart
    <2>2. CASE i \notin DOMAIN pick
      <3>1. First(pick)[i] = scan.tx[i]
        BY <2>2, FirstUpdate
      <3>2. CASE scan.first
        <4>1. DOMAIN songs = {}
          BY <3>2 DEF IdentityInv, Types
        <4>. QED
          BY <1>1, <3>1, <4>1, WaitingPath
      <3>3. CASE ~scan.first
        <4>1. Matches(First(pick), f) = {}
          BY <3>3, MatchFacts
        <4>2. i \in DOMAIN First(pick)
          BY FirstUpdate
        <4>3. {j \in DOMAIN First(pick) : First(pick)[j].path = f.path} = {}
          BY <4>1 DEF Matches
        <4>. QED
          BY <4>2, <4>3
      <3>. QED
        BY <3>2, <3>3
    <2>. QED
      BY <2>1, <2>2
  <1>3. CASE i \in DOMAIN pick2
    <2>1. pick2[i] \in KnownFiles(pick) /\ TryUpdateAll(First(pick), pick2)[i].path = pick2[i].path
      BY <1>3, SecondUpdate
    <2>2. pick2[i] \in scan.queue
      BY <2>1, MatchFacts
    <2>. QED
      BY <1>1, <2>1, <2>2, QueueFacts DEF Apart
  <1>4. CASE i \notin DOMAIN pick2
    <2>1. TryUpdateAll(First(pick), pick2)[i] = First(pick)[i]
      BY <1>4, SecondUpdate
    <2>. QED
      BY <1>2, <2>1
  <1>. QED
    BY <1>3, <1>4

\* Why a batch of files that nobody changed fails.
LEMMA BatchFailsOnTakenPath ==
    ASSUME IdentityInv, scan.pc = "walk", scan.changed = {}, NEW pick \in Picks(TagRows),
           NEW match \in MatchesFor(pick),
           NEW pick2 \in Picks({<<match[f], f>> : f \in KnownFiles(pick)}),
           BatchFails(pick, pick2)
    PROVE  \E f \in scan.queue : \E i \in DOMAIN songs \ {f.tag} :
              f.tag # None /\ songs[i].path = f.path
  <1>1. \A f \in scan.queue : Held(f.path)
    BY DEF IdentityInv, Walk
  <1>2. \A f \in Untagged(pick) : Held(f.path)
    BY <1>1 DEF Untagged
  <1>3. CASE MayCollide(scan.tx, pick)
    <2>1. PICK i \in DOMAIN pick : Holders(scan.tx, i, pick[i].path) # {}
      BY <1>3 DEF MayCollide
    <2>2. PICK j \in DOMAIN scan.tx \ {i} : scan.tx[j].path = pick[i].path
      BY <2>1 DEF Holders
    <2>3. pick[i] \in Tagged /\ pick[i].tag = i
      BY FirstUpdate
    <2>4. pick[i] \in scan.queue /\ pick[i].tag # None
      BY <2>3 DEF Tagged
    <2>5. j \in DOMAIN songs /\ songs[j] = scan.tx[j]
      BY <2>2, <2>4, WaitingPath
    <2>. QED
      BY <2>2, <2>3, <2>4, <2>5
  <1>4. CASE ~MayCollide(scan.tx, pick) /\ MayCollide(First(pick), pick2)
    <2>1. OneEach(First(pick))
      BY <1>4, FirstUpdate
    <2>2. PICK i \in DOMAIN pick2 : Holders(First(pick), i, pick2[i].path) # {}
      BY <1>4 DEF MayCollide
    <2>3. PICK j \in DOMAIN First(pick) \ {i} : First(pick)[j].path = pick2[i].path
      BY <2>2 DEF Holders
    <2>4. pick2[i] \in KnownFiles(pick) /\ match[pick2[i]] = i
      BY <2>1, SecondUpdate
    <2>5. i \in Matches(First(pick), pick2[i])
      BY <2>4, MatchFacts DEF MatchesFor
    <2>6. j \in {k \in DOMAIN First(pick) : First(pick)[k].path = pick2[i].path}
      BY <2>3
    <2>7. First(pick)[i].path = pick2[i].path /\ i \in DOMAIN First(pick)
      BY <2>5, <2>6 DEF Matches
    <2>. QED
      BY <2>1, <2>3, <2>7 DEF OneEach
  <1>. QED
    BY <1>2, <1>3, <1>4 DEF BatchFails

\* Only f gets its id.
Sole(id, f) == \A g \in scan.queue : id[g] = id[f] => g = f

\* What a batch that succeeds has made of the table: the songs T, the files by their ids.
Stored(T, id) ==
    /\ Sound(T)
    /\ DOMAIN T = DOMAIN scan.tx \cup {id[f] : f \in scan.queue}
    /\ \A i \in DOMAIN scan.tx : (\A f \in scan.queue : id[f] # i) => T[i] = scan.tx[i]
    /\ \A f \in scan.queue : \E g \in scan.queue :
          id[g] = id[f] /\ T[id[f]].path = g.path /\ T[id[f]].meta = g.meta
    /\ \A f \in scan.queue : f.fresh /\ Sole(id, f) => T[id[f]].artists = {f.meta.artist}

\* A song of its own for a file that has none.
Unused(i) == i \in Free

Assigned(id) ==
    /\ DOMAIN id = scan.queue
    /\ \A f \in scan.queue : id[f] \in Ids
    /\ \A f \in scan.queue : f.tag \in DOMAIN scan.tx => id[f] = f.tag
    /\ \A f \in scan.queue : id[f] \in DOMAIN scan.tx \/ Unused(id[f])

\* The tags that are written.
Tags(id) ==
    /\ disk' \in [Paths -> Files \cup {NoFile}]
    /\ \A p \in Paths : ~Waits(p) => disk'[p] = disk[p]
    /\ \A f \in scan.queue :
          \/ f.tag # None /\ id[f] \in DOMAIN scan.tx /\ disk'[f.path] = disk[f.path]
          \/ /\ Held(f.path) /\ disk'[f.path] \in Files
             /\ disk'[f.path].tag = id[f] /\ disk'[f.path].chg
             /\ disk'[f.path].meta = disk[f.path].meta

\* Every file of the batch gets an id: its own, that of a song it matches, or a new one.
LEMMA IdFacts ==
    ASSUME IdentityInv, NEW pick \in Picks(TagRows), OneEach(First(pick)),
           NEW match \in MatchesFor(pick),
           NEW new \in Injection(NewFiles(pick), Fresh(Cardinality(NewFiles(pick)))),
           NEW pick2 \in Picks({<<match[f], f>> : f \in KnownFiles(pick)})
    PROVE  LET id == IdOf(pick, match, new)
           IN  /\ Assigned(id)
               /\ \A f \in Tagged : id[f] = f.tag /\ f \in scan.queue
               /\ \A f \in KnownFiles(pick) : id[f] = match[f] /\ f \in scan.queue
               /\ \A f \in NewFiles(pick) : id[f] = new[f] /\ f \in scan.queue /\ Unused(id[f])
               /\ \A f \in scan.queue : f \in Tagged \/ f \in KnownFiles(pick) \/ f \in NewFiles(pick)
  <1>. DEFINE id == IdOf(pick, match, new)
  <1>1. /\ Tagged \subseteq scan.queue /\ KnownFiles(pick) \subseteq scan.queue \ Tagged
        /\ NewFiles(pick) = (scan.queue \ Tagged) \ KnownFiles(pick)
    BY QueueFacts, MatchFacts
  <1>2. DOMAIN id = scan.queue
    BY DEF IdOf
  <1>3. \A f \in Tagged : id[f] = f.tag
    BY <1>1 DEF IdOf
  <1>4. \A f \in KnownFiles(pick) : id[f] = match[f]
    BY <1>1 DEF IdOf
  <1>5. \A f \in NewFiles(pick) : id[f] = new[f]
    BY <1>1 DEF IdOf
  <1>. HIDE DEF id
  <1>6. \A f \in NewFiles(pick) : new[f] \in Free
    BY DEF Injection, Fresh
  <1>7. Free \subseteq Ids
    BY DEF Free
  <1>8. \A f \in Tagged : f.tag \in DOMAIN scan.tx
    BY DEF Tagged
  <1>9. \A f \in KnownFiles(pick) : match[f] \in DOMAIN scan.tx
    BY SecondUpdate
  <1>10. \A f \in scan.queue : f.tag \in DOMAIN scan.tx => f \in Tagged
    BY IdentityAssumption, QueueFacts DEF Tagged
  <1>11. Assigned(id)
    BY <1>1, <1>2, <1>3, <1>4, <1>5, <1>6, <1>7, <1>8, <1>9, <1>10, QueueFacts DEF Assigned, Unused
  <1>. QED
    BY <1>1, <1>3, <1>4, <1>5, <1>6, <1>11 DEF id, Unused

\* The table that a batch stores and the tags it writes.
LEMMA BatchStores ==
    ASSUME IdentityInv, scan.pc = "walk", NEW pick \in Picks(TagRows),
           NEW match \in MatchesFor(pick),
           NEW new \in Injection(NewFiles(pick), Fresh(Cardinality(NewFiles(pick)))),
           NEW pick2 \in Picks({<<match[f], f>> : f \in KnownFiles(pick)}),
           MaySucceed(scan.tx, pick), MaySucceed(First(pick), pick2),
           \A f \in Untagged(pick) : Held(f.path),
           disk' = SetCrossonicID(Untagged(pick), IdOf(pick, match, new))
    PROVE  LET id == IdOf(pick, match, new)
               T == Connect(CreateSongsInDB(TryUpdateAll(First(pick), pick2), new), id)
           IN  Assigned(id) /\ Stored(T, id) /\ Tags(id)
  <1>1. OneEach(First(pick))
    BY FirstUpdate
  <1>2. PICK id : id = IdOf(pick, match, new)
    OBVIOUS
  <1>3. /\ Assigned(id)
        /\ \A f \in Tagged : id[f] = f.tag /\ f \in scan.queue
        /\ \A f \in KnownFiles(pick) : id[f] = match[f] /\ f \in scan.queue
        /\ \A f \in NewFiles(pick) : id[f] = new[f] /\ f \in scan.queue /\ Unused(id[f])
        /\ \A f \in scan.queue : f \in Tagged \/ f \in KnownFiles(pick) \/ f \in NewFiles(pick)
    BY <1>1, <1>2, IdFacts
  <1>4. PICK V : V = TryUpdateAll(First(pick), pick2)
    OBVIOUS
  <1>5. PICK W : W = CreateSongsInDB(V, new)
    OBVIOUS
  <1>6. PICK T : T = Connect(W, id)
    OBVIOUS
  <1>7. /\ V \in Tables /\ DOMAIN V = DOMAIN scan.tx /\ OneEach(V)
        /\ \A i \in DOMAIN pick2 : pick2[i] \in KnownFiles(pick) /\ match[pick2[i]] = i
        /\ \A f \in KnownFiles(pick) : match[f] \in DOMAIN pick2 /\ match[f] \in DOMAIN scan.tx
        /\ \A i \in DOMAIN pick2 : /\ i \in DOMAIN scan.tx
                                   /\ V[i].path = pick2[i].path
                                   /\ V[i].meta = pick2[i].meta
        /\ \A i \in DOMAIN scan.tx \ DOMAIN pick2 : V[i] = First(pick)[i]
    BY <1>1, <1>4, SecondUpdate
  <1>8. \A f \in NewFiles(pick) : \A i \in DOMAIN V : V[i].path # f.path
    BY <1>1, <1>4, <1>7, NewPath
  <1>9. /\ W \in Tables /\ OneEach(W)
        /\ DOMAIN W = DOMAIN V \cup {new[f] : f \in NewFiles(pick)}
        /\ \A i \in DOMAIN V : W[i] = V[i]
        /\ \A f \in NewFiles(pick) : W[new[f]].path = f.path /\ W[new[f]].meta = f.meta
    <2>1. NewFiles(pick) \in SUBSET Queued /\ Apart(NewFiles(pick))
      <3>1. NewFiles(pick) \subseteq scan.queue
        BY <1>3
      <3>. QED
        BY <3>1, QueueFacts DEF Apart
    <2>2. PICK S : S = Fresh(Cardinality(NewFiles(pick)))
      OBVIOUS
    <2>3. S \in SUBSET Ids /\ S \cap DOMAIN V = {}
      BY <1>7, <2>2 DEF Fresh, Free
    <2>4. new \in Injection(NewFiles(pick), S) /\ Clear(V, NewFiles(pick))
      BY <1>8, <2>2 DEF Clear
    <2>5. Created(W, V, NewFiles(pick), new)
      BY <1>5, <1>7, <2>1, <2>3, <2>4, Creates
    <2>. QED
      BY <2>5 DEF Created
  <1>10. /\ T \in Tables /\ OneEach(T) /\ DOMAIN T = DOMAIN W
         /\ \A i \in DOMAIN W : T[i].path = W[i].path /\ T[i].meta = W[i].meta
         /\ \A i \in DOMAIN W : (\A f \in scan.queue : id[f] # i) => T[i] = W[i]
         /\ \A f \in scan.queue : f.fresh /\ id[f] \in DOMAIN W
                                  /\ (\A g \in scan.queue : id[g] = id[f] => g = f) =>
               T[id[f]].artists = {f.meta.artist}
    <2>1. scan.queue \in SUBSET Queued /\ DOMAIN id = scan.queue
      BY <1>3, QueueFacts DEF Assigned
    <2>2. Connected(T, W, scan.queue, id)
      BY <1>6, <1>9, <2>1, Connects
    <2>. QED
      BY <2>2 DEF Connected
  <1>11. DOMAIN T = DOMAIN scan.tx \cup {id[f] : f \in scan.queue}
    <2>1. \A f \in scan.queue : id[f] \in DOMAIN T
      <3>. SUFFICES ASSUME NEW f \in scan.queue PROVE id[f] \in DOMAIN T
        OBVIOUS
      <3>1. CASE f \in NewFiles(pick)
        BY <1>3, <1>9, <1>10, <3>1
      <3>2. CASE f \in KnownFiles(pick)
        BY <1>3, <1>7, <1>9, <1>10, <3>2
      <3>3. CASE f \in Tagged
        BY <1>3, <1>7, <1>9, <1>10, <3>3 DEF Tagged
      <3>. QED
        BY <1>3, <3>1, <3>2, <3>3
    <2>2. \A i \in DOMAIN T : i \in DOMAIN scan.tx \/ \E f \in scan.queue : id[f] = i
      BY <1>3, <1>7, <1>9, <1>10
    <2>3. DOMAIN scan.tx \subseteq DOMAIN T
      BY <1>7, <1>9, <1>10
    <2>. QED
      BY <2>1, <2>2, <2>3
  <1>12. Sound(T)
    <2>1. IsFiniteSet({id[f] : f \in scan.queue})
      <3>. DEFINE R == {id[f] : f \in scan.queue}
      <3>1. id \in Surjection(scan.queue, R)
        <4>1. id \in [scan.queue -> R]
          <5>1. id = [f \in scan.queue |-> id[f]]
            BY <1>2, <1>3 DEF IdOf
          <5>. QED
            BY <5>1
        <4>2. \A r \in R : \E f \in scan.queue : id[f] = r
          OBVIOUS
        <4>. HIDE DEF R
        <4>. QED
          BY <4>1, <4>2 DEF Surjection
      <3>. HIDE DEF R
      <3>2. IsFiniteSet(R)
        BY <3>1, QueueFacts, FS_Surjection
      <3>. QED
        BY <3>2 DEF R
    <2>2. IsFiniteSet(DOMAIN T)
      <3>1. PICK A, B : A = DOMAIN scan.tx /\ B = {id[f] : f \in scan.queue}
        OBVIOUS
      <3>2. IsFiniteSet(A) /\ IsFiniteSet(B)
        BY <2>1, <3>1, QueueFacts
      <3>3. IsFiniteSet(A \cup B)
        BY <3>2, FS_Union
      <3>. QED
        BY <1>11, <3>1, <3>3
    <2>. QED
      BY <1>10, <2>2 DEF Sound
  <1>13. ASSUME NEW i \in DOMAIN scan.tx, \A f \in scan.queue : id[f] # i
         PROVE  T[i] = scan.tx[i]
    <2>1. T[i] = V[i]
      BY <1>7, <1>9, <1>10, <1>13
    <2>2. i \notin DOMAIN pick2
      BY <1>3, <1>7, <1>13
    <2>3. i \notin DOMAIN pick
      BY <1>3, <1>13, FirstUpdate
    <2>. QED
      BY <1>7, <2>1, <2>2, <2>3, FirstUpdate
  <1>14. ASSUME NEW f \in scan.queue
         PROVE  \E g \in scan.queue : /\ id[g] = id[f] /\ T[id[f]].path = g.path
                                      /\ T[id[f]].meta = g.meta
    <2>1. CASE f \in NewFiles(pick)
      BY <1>3, <1>9, <1>10, <2>1
    <2>2. CASE id[f] \in DOMAIN pick2
      <3>1. T[id[f]].path = pick2[id[f]].path /\ T[id[f]].meta = pick2[id[f]].meta
        BY <1>7, <1>9, <1>10, <2>2
      <3>2. pick2[id[f]] \in scan.queue /\ id[pick2[id[f]]] = id[f]
        BY <1>3, <1>7, <2>2
      <3>. QED
        BY <3>1, <3>2
    <2>3. CASE f \in Tagged /\ id[f] \notin DOMAIN pick2
      <3>1. id[f] \in DOMAIN pick /\ id[f] \in DOMAIN scan.tx
        BY <1>3, <2>3, FirstUpdate
      <3>2. T[id[f]].path = First(pick)[id[f]].path /\ T[id[f]].meta = First(pick)[id[f]].meta
        BY <1>7, <1>9, <1>10, <2>3, <3>1
      <3>3. First(pick)[id[f]].path = pick[id[f]].path /\ First(pick)[id[f]].meta = pick[id[f]].meta
        BY <3>1, FirstUpdate
      <3>4. pick[id[f]] \in Tagged /\ pick[id[f]].tag = id[f]
        BY <3>1, FirstUpdate
      <3>5. pick[id[f]] \in scan.queue /\ id[pick[id[f]]] = id[f]
        BY <1>3, <3>4
      <3>. QED
        BY <3>2, <3>3, <3>5
    <2>4. CASE f \in KnownFiles(pick)
      BY <1>3, <1>7, <2>2, <2>4
    <2>. QED
      BY <1>3, <2>1, <2>2, <2>3, <2>4
  <1>15. \A f \in scan.queue : f.fresh /\ Sole(id, f) => T[id[f]].artists = {f.meta.artist}
    BY <1>10, <1>11 DEF Sole
  <1>16. Stored(T, id)
    BY <1>11, <1>12, <1>13, <1>14, <1>15 DEF Stored
  <1>17. Tags(id)
    <2>1. Untagged(pick) \in SUBSET scan.queue
      BY DEF Untagged
    <2>2. Untagged(pick) \in SUBSET Queued /\ Apart(Untagged(pick))
      BY <2>1, QueueFacts DEF Apart
    <2>3. \A f \in Untagged(pick) : id[f] \in Ids
      BY <1>3, <2>1 DEF Assigned
    <2>4. disk \in [Paths -> Files \cup {NoFile}]
      BY DEF IdentityInv, Types
    <2>5. /\ disk' \in [Paths -> Files \cup {NoFile}]
          /\ \A p \in Paths : (\A f \in Untagged(pick) : f.path # p) => disk'[p] = disk[p]
          /\ \A f \in Untagged(pick) : /\ disk'[f.path] \in Files
                                       /\ disk'[f.path].tag = id[f] /\ disk'[f.path].chg
                                       /\ disk'[f.path].meta = disk[f.path].meta
      <3>1. PICK d : d = SetCrossonicID(Untagged(pick), id)
        OBVIOUS
      <3>2. /\ d \in [Paths -> Files \cup {NoFile}]
            /\ \A p \in Paths : (\A f \in Untagged(pick) : f.path # p) => d[p] = disk[p]
            /\ \A f \in Untagged(pick) : /\ d[f.path] \in Files
                                         /\ d[f.path].tag = id[f] /\ d[f.path].chg
                                         /\ d[f.path].meta = disk[f.path].meta
        BY <2>2, <2>3, <2>4, <3>1, Writes
      <3>. QED
        BY <1>2, <3>1, <3>2
    <2>6. ASSUME NEW f \in scan.queue, f \notin Untagged(pick)
          PROVE  f.tag # None /\ id[f] \in DOMAIN scan.tx /\ disk'[f.path] = disk[f.path]
      <3>1. f.tag # None /\ f \notin NewFiles(pick)
        BY <2>6 DEF Untagged
      <3>2. id[f] \in DOMAIN scan.tx
        <4>1. CASE f \in Tagged
          BY <1>3, <4>1 DEF Tagged
        <4>2. CASE f \in KnownFiles(pick)
          BY <1>3, <1>7, <4>2
        <4>. QED
          BY <1>3, <3>1, <4>1, <4>2
      <3>3. \A g \in Untagged(pick) : g.path # f.path
        BY <2>1, <2>6, QueueFacts DEF Apart
      <3>4. f.path \in Paths
        BY QueueFacts DEF Queued
      <3>. QED
        BY <2>5, <3>1, <3>2, <3>3, <3>4
    <2>7. \A p \in Paths : ~Waits(p) => disk'[p] = disk[p]
      BY <2>1, <2>5 DEF Waits
    <2>. QED
      BY <2>5, <2>6, <2>7 DEF Tags
  <1>18. T = Connect(CreateSongsInDB(TryUpdateAll(First(pick), pick2), new), id)
    BY <1>4, <1>5, <1>6
  <1>. QED
    BY <1>2, <1>3, <1>16, <1>17, <1>18

\* Which ids are twins.
LEMMA TwinsAre ==
    ASSUME NEW id, NEW d
    PROVE  /\ \A f \in DOMAIN id : Shared(f, id, d) => {id[f], f.tag} \subseteq Twins(id, d)
           /\ \A f \in DOMAIN id : \A p \in Robbed(f, id, d) : d[p].tag \in Twins(id, d)
           /\ \A x \in Twins(id, d) :
                 \/ \E f \in DOMAIN id : x \in {id[f], f.tag}
                 \/ \E f \in DOMAIN id : \E p \in Robbed(f, id, d) : x = d[p].tag
  <1>. DEFINE A == UNION {{id[f], f.tag} : f \in {g \in DOMAIN id : Shared(g, id, d)}}
              B == UNION {{d[p].tag : p \in Robbed(f, id, d)} : f \in DOMAIN id}
  <1>1. \A f \in DOMAIN id : Shared(f, id, d) => {id[f], f.tag} \subseteq A
    OBVIOUS
  <1>2. \A f \in DOMAIN id : \A p \in Robbed(f, id, d) : d[p].tag \in B
    OBVIOUS
  <1>3. \A x \in A : \E f \in DOMAIN id : x \in {id[f], f.tag}
    OBVIOUS
  <1>4. \A x \in B : \E f \in DOMAIN id : \E p \in Robbed(f, id, d) : x = d[p].tag
    OBVIOUS
  <1>5. Twins(id, d) = A \cup B
    BY DEF Twins
  <1>. HIDE DEF A, B
  <1>. QED
    BY <1>1, <1>2, <1>3, <1>4, <1>5

\* A batch that succeeds.
Batched(id) ==
    /\ Assigned(id) /\ Stored(scan'.tx, id) /\ Tags(id)
    /\ scan.pc = "walk" /\ scan.queue # {}
    /\ scan' \in Scans
    /\ scan'.pc = scan.pc /\ scan'.full = scan.full /\ scan'.first = scan.first
    /\ scan'.left = scan.left /\ scan'.todo = scan.todo /\ scan'.queue = {}
    /\ scan'.seen = scan.seen \cup {id[f] : f \in scan.queue}
    /\ scan'.found = scan.found /\ scan'.read = scan.read /\ scan'.changed = scan.changed
    /\ \A i \in scan.aged : (\A f \in scan.queue : id[f] # i) => i \in scan'.aged
    /\ \A f \in scan.queue : ~f.fresh => id[f] \in scan'.aged
    /\ past' \in Pasts /\ past'.stale = past.stale /\ past'.aged = past.aged
    /\ past'.twins = past.twins \cup (Twins(id, disk') \ {None})
    /\ dirty' = dirty /\ songs' = songs /\ scanned' = scanned

\* A batch is rolled back or stored.
LEMMA BatchOutcome ==
    ASSUME IdentityInv, CreateOrUpdateSongs
    PROVE  (Rollback /\ UNCHANGED disk) \/ \E id : Batched(id)
  <1>1. /\ scan.pc = "walk" /\ scan.queue # {}
        /\ \E pick \in Picks(TagRows) :
            \E match \in MatchesFor(pick),
               new \in Injection(NewFiles(pick), Fresh(Cardinality(NewFiles(pick)))) :
              \E pick2 \in Picks({<<match[f], f>> : f \in KnownFiles(pick)}) :
                 \/ BatchFails(pick, pick2)
                 \/ BatchSucceeds(pick, pick2, new, IdOf(pick, match, new))
    BY BatchSteps
  <1>2. PICK pick \in Picks(TagRows) :
            \E match \in MatchesFor(pick),
               new \in Injection(NewFiles(pick), Fresh(Cardinality(NewFiles(pick)))) :
              \E pick2 \in Picks({<<match[f], f>> : f \in KnownFiles(pick)}) :
                 \/ BatchFails(pick, pick2)
                 \/ BatchSucceeds(pick, pick2, new, IdOf(pick, match, new))
    BY <1>1
  <1>3. PICK match \in MatchesFor(pick),
             new \in Injection(NewFiles(pick), Fresh(Cardinality(NewFiles(pick)))) :
              \E pick2 \in Picks({<<match[f], f>> : f \in KnownFiles(pick)}) :
                 \/ BatchFails(pick, pick2)
                 \/ BatchSucceeds(pick, pick2, new, IdOf(pick, match, new))
    BY <1>2
  <1>4. PICK pick2 \in Picks({<<match[f], f>> : f \in KnownFiles(pick)}) :
                 \/ BatchFails(pick, pick2)
                 \/ BatchSucceeds(pick, pick2, new, IdOf(pick, match, new))
    BY <1>3
  <1>5. CASE BatchFails(pick, pick2)
    BY <1>5 DEF BatchFails
  <1>6. CASE BatchSucceeds(pick, pick2, new, IdOf(pick, match, new))
    <2>1. PICK id : id = IdOf(pick, match, new)
      OBVIOUS
    <2>2. PICK T : T = Connect(CreateSongsInDB(TryUpdateAll(First(pick), pick2), new), id)
      OBVIOUS
    <2>3. BatchSucceeds(pick, pick2, new, id)
      BY <1>6, <2>1
    <2>4. /\ MaySucceed(scan.tx, pick) /\ MaySucceed(First(pick), pick2)
          /\ \A f \in Untagged(pick) : Held(f.path)
          /\ disk' = SetCrossonicID(Untagged(pick), IdOf(pick, match, new))
      BY <2>1, <2>3 DEF BatchSucceeds
    <2>5. Assigned(id) /\ Stored(T, id) /\ Tags(id)
      BY <1>1, <2>1, <2>2, <2>4, BatchStores
    <2>. DEFINE A == {i \in scan.aged : \A f \in scan.queue : id[f] = i => ~f.fresh}
                     \cup {id[f] : f \in {g \in scan.queue : ~g.fresh}}
    <2>6. scan' = [scan EXCEPT !.queue = {}, !.tx = T,
                               !.seen = scan.seen \cup Range(id), !.aged = A]
      BY <2>2, <2>3 DEF BatchSucceeds
    <2>7. Range(id) = {id[f] : f \in scan.queue}
      BY <2>5 DEF Assigned, Range
    <2>8. scan \in Scans /\ past \in Pasts
      BY DEF IdentityInv, Types
    <2>9. /\ A \in SUBSET Ids
          /\ \A i \in scan.aged : (\A f \in scan.queue : id[f] # i) => i \in A
          /\ \A f \in scan.queue : ~f.fresh => id[f] \in A
      BY <2>5, <2>8 DEF Assigned, Scans
    <2>10. scan.seen \cup Range(id) \in SUBSET Ids /\ T \in Tables
      BY <2>5, <2>7, <2>8 DEF Assigned, Scans, Stored, Sound
    <2>. HIDE DEF A
    <2>11. /\ scan' \in Scans
           /\ scan'.pc = scan.pc /\ scan'.full = scan.full /\ scan'.first = scan.first
           /\ scan'.left = scan.left /\ scan'.todo = scan.todo /\ scan'.queue = {}
           /\ scan'.seen = scan.seen \cup Range(id) /\ scan'.tx = T /\ scan'.aged = A
           /\ scan'.found = scan.found /\ scan'.read = scan.read /\ scan'.changed = scan.changed
      BY <2>6, <2>8, <2>9, <2>10 DEF Scans
    <2>12. PICK W : W = Twins(id, disk') \ {None}
      OBVIOUS
    <2>13. past' = [past EXCEPT !.twins = past.twins \cup W]
      BY <2>3, <2>12 DEF BatchSucceeds
    <2>14. W \subseteq Ids
      <3>1. \A f \in scan.queue : id[f] \in Ids /\ f.tag \in Ids \cup {None}
        BY <2>5, QueueFacts DEF Assigned, Queued
      <3>2. \A p \in Paths : disk'[p] # NoFile => disk'[p].tag \in Ids \cup {None}
        BY <2>5 DEF Tags, Files
      <3>3. \A f : \A p \in Robbed(f, id, disk') : p \in Paths /\ disk'[p] # NoFile
        BY DEF Robbed
      <3>4. DOMAIN id = scan.queue
        BY <2>5 DEF Assigned
      <3>5. \A y \in Twins(id, disk') : y \in Ids \cup {None}
        BY <3>1, <3>2, <3>3, <3>4, TwinsAre
      <3>. QED
        BY <2>12, <3>5
    <2>15. past' \in Pasts /\ past'.stale = past.stale /\ past'.aged = past.aged
           /\ past'.twins = past.twins \cup W
      BY <2>8, <2>13, <2>14 DEF Pasts
    <2>16. dirty' = dirty /\ songs' = songs /\ scanned' = scanned
      BY <2>3 DEF BatchSucceeds
    <2>17. Batched(id)
      BY <1>1, <2>5, <2>7, <2>9, <2>11, <2>12, <2>15, <2>16 DEF Batched
    <2>. QED
      BY <2>17
  <1>. QED
    BY <1>4, <1>5, <1>6

\* A file of the batch is a song afterwards.
LEMMA BatchReads ==
    ASSUME IdentityInv, NEW id, Batched(id), NEW f \in scan.queue, f.path \notin scan.changed
    PROVE  Known(f.path, scan.tx, scan.seen, scan.aged)'
  <1>. DEFINE T == scan'.tx
              i == id[f]
              x == disk'[f.path]
  <1>1. /\ f.path \in Paths /\ f.tag \in Ids \cup {None} /\ i \in Ids
        /\ disk[f.path].tag = f.tag /\ disk[f.path].meta = f.meta
    BY QueueFacts DEF Batched, Assigned, IdentityInv, Walk, Queued
  <1>2. /\ x.meta = f.meta
        /\ x.tag = i \/ (f.tag # None /\ i \in DOMAIN scan.tx /\ x.tag = f.tag)
    BY <1>1 DEF Batched, Tags
  <1>3. x.tag \in {i, f.tag} /\ x.tag # None
    BY <1>1, <1>2, IdentityAssumption
  <1>4. DOMAIN id = scan.queue /\ past'.twins = past.twins \cup (Twins(id, disk') \ {None})
    BY DEF Batched, Assigned
  <1>5. CASE Shared(f, id, disk')
    <2>1. x.tag \in Twins(id, disk')
      BY <1>3, <1>4, <1>5, TwinsAre
    <2>. QED
      BY <1>3, <1>4, <2>1 DEF Known
  <1>6. CASE ~Shared(f, id, disk')
    <2>1. Sole(id, f)
      BY <1>4, <1>6 DEF Shared, Sole
    <2>2. T[i].path = f.path /\ T[i].meta = x.meta
      BY <1>2, <2>1 DEF Batched, Stored, Sole
    <2>3. i \in scan'.aged \/ T[i].artists = {x.meta.artist}
      <3>1. f.fresh => T[i].artists = {f.meta.artist}
        BY <2>1 DEF Batched, Stored
      <3>2. ~f.fresh => i \in scan'.aged
        BY DEF Batched
      <3>3. f.fresh \in BOOLEAN
        BY QueueFacts DEF Queued
      <3>. QED
        BY <1>2, <3>1, <3>2, <3>3
    <2>4. x.tag = i \/ x.tag \notin DOMAIN T \cup DOMAIN songs
      <3>. SUFFICES ASSUME x.tag # i PROVE x.tag \notin DOMAIN T \cup DOMAIN songs
        OBVIOUS
      <3>1. x.tag = f.tag /\ f.tag \notin DOMAIN scan.tx
        BY <1>2 DEF Batched, Assigned
      <3>2. DOMAIN songs \subseteq DOMAIN scan.tx
        BY DEF IdentityInv, Seen
      <3>3. \A g \in scan.queue : id[g] # f.tag
        BY <3>1 DEF Batched, Assigned, Unused, Free
      <3>. QED
        BY <3>1, <3>2, <3>3 DEF Batched, Stored
    <2>5. i \in scan'.seen /\ songs' = songs
      BY DEF Batched
    <2>. QED
      BY <1>3, <2>2, <2>3, <2>4, <2>5 DEF Known
  <1>. QED
    BY <1>5, <1>6

\* A file that the batch does not touch stays the song it was, unless another took it.
LEMMA BatchLeaves ==
    ASSUME IdentityInv, NEW id, Batched(id), NEW p \in Paths \ scan.changed,
           Held(p), ~Waits(p), Done(p)'
    PROVE  Known(p, scan.tx, Mine(p), scan.aged)'
  <1>. DEFINE T == scan'.tx
              x == disk[p]
  <1>1. disk'[p] = x
    BY DEF Batched, Tags
  <1>2. Done(p)
    BY <1>1 DEF Done, Unread, Batched
  <1>3. Known(p, scan.tx, Mine(p), scan.aged)
    BY <1>2 DEF IdentityInv, Scanned, Batched
  <1>4. /\ DOMAIN id = scan.queue
        /\ past'.twins = past.twins \cup (Twins(id, disk') \ {None})
        /\ Mine(p) \subseteq Mine(p)' /\ songs' = songs
        /\ Mine(p) \subseteq DOMAIN scan.tx
    BY DEF Batched, Assigned, Stored, Mine, IdentityInv, Seen
  <1>5. CASE x.tag \in past.twins
    BY <1>1, <1>4, <1>5 DEF Known
  <1>6. CASE x.tag \notin past.twins
    <2>1. PICK i \in Mine(p) :
              /\ scan.tx[i].path = p
              /\ scan.tx[i].meta = x.meta
              /\ i \in scan.aged \/ scan.tx[i].artists = {x.meta.artist}
              /\ x.tag # None
              /\ x.tag = i \/ x.tag \notin DOMAIN scan.tx \cup DOMAIN songs
      BY <1>3, <1>6 DEF Known
    <2>2. CASE \A f \in scan.queue : id[f] # i
      <3>1. T[i] = scan.tx[i] /\ (i \in scan.aged => i \in scan'.aged)
        BY <1>4, <2>1, <2>2 DEF Batched, Stored
      <3>2. x.tag = i \/ x.tag \notin DOMAIN T \cup DOMAIN songs
        <4>1. ~Unused(x.tag)
          BY DEF Unused, Free, Held
        <4>. QED
          BY <2>1, <4>1 DEF Batched, Stored, Assigned
      <3>3. i \in Mine(p)'
        BY <1>4, <2>1
      <3>. QED
        BY <1>1, <1>4, <2>1, <3>1, <3>2, <3>3 DEF Known
    <2>3. CASE \E f \in scan.queue : id[f] = i
      <3>1. PICK f \in scan.queue : id[f] = i
        BY <2>3
      <3>2. p # f.path /\ disk'[p] # NoFile
        BY <1>1, <3>1 DEF Waits, Held
      <3>3. x.tag \in Twins(id, disk')
        <4>1. CASE x.tag = i
          <5>1. Shared(f, id, disk')
            BY <1>1, <3>1, <3>2, <4>1 DEF Shared
          <5>. QED
            BY <1>4, <3>1, <4>1, <5>1, TwinsAre
        <4>2. CASE x.tag \notin DOMAIN scan.tx
          <5>1. p \in Robbed(f, id, disk')
            BY <1>1, <1>4, <2>1, <3>1, <3>2, <4>2 DEF Robbed
          <5>. QED
            BY <1>1, <1>4, <3>1, <5>1, TwinsAre
        <4>. QED
          BY <2>1, <4>1, <4>2
      <3>. QED
        BY <1>1, <1>4, <2>1, <3>3 DEF Known
    <2>. QED
      BY <2>2, <2>3
  <1>. QED
    BY <1>5, <1>6

\* A batch that is stored keeps the invariant.
LEMMA BatchKeeps ==
    ASSUME IdentityInv, NEW id, Batched(id)
    PROVE  IdentityInv'
  <1>1. /\ scan.queue \in SUBSET Queued /\ Apart(scan.queue) /\ scan.tx \in Tables
        /\ \A f \in scan.queue : f.path \in Paths /\ Waits(f.path)
    BY QueueFacts DEF Queued, Waits
  <1>2. /\ DOMAIN id = scan.queue /\ disk \in [Paths -> Files \cup {NoFile}]
        /\ disk' \in [Paths -> Files \cup {NoFile}]
    BY DEF Batched, Assigned, Tags, IdentityInv, Types
  <1>3. \A p \in Paths : Held(p)' <=> Held(p)
    <2>. SUFFICES ASSUME NEW p \in Paths PROVE Held(p)' <=> Held(p)
      OBVIOUS
    <2>1. CASE disk'[p] = disk[p]
      BY <2>1 DEF Held
    <2>2. CASE Held(p) /\ disk'[p] \in Files
      BY <2>2, NoFileAssumption DEF Held
    <2>3. CASE ~Waits(p)
      BY <2>1, <2>3 DEF Batched, Tags
    <2>4. CASE Waits(p)
      BY <2>1, <2>2, <2>4 DEF Batched, Tags, Waits
    <2>. QED
      BY <2>3, <2>4
  <1>4. Types'
    BY <1>2 DEF IdentityInv, Types, Batched, Stored
  <1>5. Walk'
    <2>1. \A p : Unread(p)' <=> Unread(p)
      BY DEF Batched, Unread
    <2>2. scan.read \subseteq Paths
      BY DEF IdentityInv, Types, Scans
    <2>3. \A p \in scan.read : ~Unread(p)' /\ (Held(p)' \/ p \in scan.changed)
      BY <1>3, <2>1, <2>2 DEF IdentityInv, Walk
    <2>. QED
      BY <2>3, FS_EmptySet DEF IdentityInv, Walk, Batched
  <1>6. ReadsAll'
    BY <1>3 DEF IdentityInv, ReadsAll, Batched, Unread
  <1>7. \A f \in scan.queue : f.path \in scan.read
    BY DEF IdentityInv, Walk
  <1>8. Seen'
    <2>1. scan'.seen \subseteq DOMAIN scan'.tx
      BY DEF IdentityInv, Seen, Batched, Stored
    <2>2. ASSUME NEW i \in scan'.seen
          PROVE  scan'.tx[i].path \in scan'.read
      <3>1. CASE \E f \in scan.queue : id[f] = i
        BY <1>7, <3>1 DEF Batched, Stored
      <3>2. CASE \A f \in scan.queue : id[f] # i
        <4>1. i \in scan.seen /\ scan'.tx[i] = scan.tx[i]
          BY <2>2, <3>2 DEF Batched, Stored, IdentityInv, Seen
        <4>. QED
          BY <4>1 DEF IdentityInv, Seen, Batched
      <3>. QED
        BY <3>1, <3>2
    <2>3. ASSUME NEW i \in DOMAIN scan'.tx \ scan'.seen
          PROVE  i \in DOMAIN songs' /\ scan'.tx[i] = songs'[i]
      <3>1. i \in DOMAIN scan.tx /\ i \notin scan.seen /\ \A f \in scan.queue : id[f] # i
        BY <2>3 DEF Batched, Stored
      <3>2. scan'.tx[i] = scan.tx[i]
        BY <3>1 DEF Batched, Stored
      <3>. QED
        BY <3>1, <3>2 DEF IdentityInv, Seen, Batched
    <2>4. DOMAIN songs' \subseteq DOMAIN scan'.tx
      BY DEF IdentityInv, Seen, Batched, Stored
    <2>5. scan'.queue = {}
      BY DEF Batched
    <2>. QED
      BY <2>1, <2>2, <2>3, <2>4, <2>5 DEF Seen, Waits
  <1>9. Paging'
    <2>1. scan'.found = 0 /\ scan'.pc = "walk"
      BY DEF IdentityInv, Paging, Batched
    <2>2. {} \in SUBSET Rest' /\ Looked({})'
      BY <2>1, FS_EmptySet DEF Looked, Rest
    <2>. QED
      BY <2>1, <2>2 DEF Paging
  <1>10. Committed'
    <2>. SUFFICES ASSUME NEW p \in Paths \ past'.stale, Held(p)', ~disk'[p].chg
                  PROVE  Known(p, songs, DOMAIN songs, past.aged)'
      BY DEF Committed
    <2>1. disk'[p] = disk[p]
      BY DEF Batched, Tags, Waits
    <2>2. Known(p, songs, DOMAIN songs, past.aged)
      BY <1>3, <2>1 DEF IdentityInv, Committed, Batched
    <2>. QED
      BY <2>1, <2>2 DEF Known, Batched
  <1>11. Scanned'
    <2>. SUFFICES ASSUME NEW p \in Paths \ scan'.changed, Held(p)', Done(p)'
                  PROVE  Known(p, scan.tx, Mine(p), scan.aged)'
      BY DEF Scanned
    <2>1. p \in Paths \ scan.changed
      BY DEF Batched
    <2>2. CASE Waits(p)
      <3>1. PICK f \in scan.queue : f.path = p
        BY <2>2 DEF Waits
      <3>2. Known(f.path, scan.tx, scan.seen, scan.aged)'
        BY <2>1, <3>1, BatchReads
      <3>3. Mine(p)' = scan'.seen
        BY <1>7, <3>1 DEF Mine, Batched
      <3>. QED
        BY <3>1, <3>2, <3>3 DEF Known
    <2>3. CASE ~Waits(p)
      BY <2>1, <2>3, <1>3, BatchLeaves
    <2>. QED
      BY <2>2, <2>3
  <1>. QED
    BY <1>4, <1>5, <1>6, <1>8, <1>9, <1>10, <1>11 DEF IdentityInv

-----------------------------------------------------------------------------
\* Every step keeps the invariant.
LEMMA NextKeeps ==
    ASSUME IdentityInv, [Next]_vars
    PROVE  IdentityInv'
  <1>1. CASE \/ \E p \in Paths, m \in Metas, b \in BOOLEAN : Add(p, m, b)
             \/ \E p \in Paths : Remove(p)
             \/ \E p, q \in Paths : Move(p, q) \/ Copy(p, q)
             \/ \E p \in Paths, m \in Metas : Retag(p, m)
    BY <1>1, OwnerKeeps
  <1>2. ASSUME NEW b \in BOOLEAN, Start(b)
        PROVE  IdentityInv'
    BY <1>2, StartKeeps
  <1>3. ASSUME NEW d \in Dirs, ListDir(d)
        PROVE  IdentityInv'
    BY <1>3, ListDirKeeps
  <1>4. ASSUME NEW e \in scan.todo, ProcessFile(e)
        PROVE  IdentityInv'
    <2>1. CASE Held(e.path)
      BY <1>4, <2>1, ProcessFileKeeps
    <2>2. CASE ~Held(e.path)
      <3>1. Rollback /\ disk' = disk
        BY <1>4, <2>2 DEF ProcessFile
      <3>. QED
        BY <3>1, RollbackKeeps
    <2>. QED
      BY <2>1, <2>2
  <1>5. CASE CreateOrUpdateSongs
    <2>1. CASE Rollback /\ UNCHANGED disk
      BY <2>1, RollbackKeeps
    <2>2. CASE \E id : Batched(id)
      BY <2>2, BatchKeeps
    <2>. QED
      BY <1>5, <2>1, <2>2, BatchOutcome
  <1>6. CASE DeleteLastUpdatedBefore \/ DeleteOrphanedSongsByPath
    BY <1>6, DeleteLastUpdatedBeforeKeeps, DeleteOrphanedSongsByPathKeeps
  <1>7. CASE Commit
    BY <1>7, CommitKeeps
  <1>8. CASE Fail
    <2>1. Rollback /\ disk' = disk
      BY <1>8 DEF Fail
    <2>. QED
      BY <2>1, RollbackKeeps
  <1>9. CASE UNCHANGED vars
    <2>1. /\ disk' = disk /\ dirty' = dirty /\ songs' = songs /\ scanned' = scanned
          /\ scan' = scan /\ past' = past
      BY <1>9 DEF vars
    <2>2. Types' /\ Walk' /\ ReadsAll' /\ Seen'
      BY <2>1 DEF IdentityInv, Types, Walk, ReadsAll, Seen, Held, Unread, Waits
    <2>3. Paging'
      BY <2>1 DEF IdentityInv, Paging, Looked, Rest, There, Held
    <2>4. Committed'
      BY <2>1 DEF IdentityInv, Committed, Known, Held
    <2>5. ASSUME scan'.pc # "idle", NEW p \in Paths \ scan'.changed, Held(p)', ~Waits(p)', Done(p)'
          PROVE  Known(p, scan.tx, Mine(p), scan.aged)'
      <3>1. p \in Paths \ scan.changed /\ Held(p) /\ ~Waits(p) /\ Done(p)
        BY <2>1, <2>5 DEF Held, Waits, Done, Unread
      <3>2. Known(p, scan.tx, Mine(p), scan.aged)
        BY <2>1, <2>5, <3>1 DEF IdentityInv, Scanned
      <3>3. Mine(p)' = Mine(p)
        BY <2>1 DEF Mine
      <3>. QED
        BY <2>1, <3>2, <3>3 DEF Known
    <2>6. Scanned'
      BY <2>5 DEF Scanned
    <2>. QED
      BY <2>2, <2>3, <2>4, <2>6 DEF IdentityInv
  <1>. QED
    BY <1>1, <1>2, <1>3, <1>4, <1>5, <1>6, <1>7, <1>8, <1>9 DEF Next

\* The inductive invariant: what a scan has read, knows and has seen of the
\* files at each point of it, whatever their owner does meanwhile.
THEOREM IdentityInvariant ==
    Spec => []IdentityInv
  <1>1. IdentityInv /\ [Next]_vars => IdentityInv'
    BY NextKeeps
  <1>. QED
    BY <1>1, InitInv, PTL DEF Spec

\* The variables have their types and the songs committed have paths of their
\* own, for any files, batches and pages.
THEOREM SongIdentityTypeCorrect ==
    Spec => []TypeOK
  <1>1. IdentityInv => TypeOK
    BY TableRows DEF IdentityInv, Types, TypeOK, Sound, OneEach, Pasts
  <1>. QED
    BY <1>1, IdentityInvariant, PTL

\* A scan that commits lists no file that was gone before it looked
\* (deleteOrphaned, deleteOrphanedSongsByPath), for any size of a page.
THEOREM ListsOnlyFilesHolds ==
    Spec => ListsOnlyFiles
  <1>. DEFINE A == Commit => \A i \in DOMAIN songs' :
                      songs'[i].path \notin scan.changed => Held(songs'[i].path)
  <1>1. IdentityInv /\ [Next]_vars => [A]_vars
    BY DEF IdentityInv, Paging, There, Commit
  <1>. QED
    BY <1>1, IdentityInvariant, PTL DEF Spec, ListsOnlyFiles

\* A scan that commits lists every file that nobody changed once it had read
\* it and whose id no other file got (createOrUpdateSongs), for any size of a
\* batch.
THEOREM ListsEveryFileHolds ==
    Spec => ListsEveryFile
  <1>. DEFINE A == Commit => \A p \in Paths \ past.stale' :
                      Held(p) => \/ \E i \in DOMAIN songs' : songs'[i].path = p
                                 \/ disk[p].tag \in past.twins'
  <1>1. IdentityInv /\ [Next]_vars => [A]_vars
    <2>. SUFFICES ASSUME IdentityInv, Commit, NEW p \in Paths \ past.stale', Held(p)
                  PROVE  \/ \E i \in DOMAIN songs' : songs'[i].path = p
                         \/ disk[p].tag \in past.twins'
      OBVIOUS
    <2>1. Known(p, scan.tx, DOMAIN scan.tx, scan.aged)
      BY KnownAtCommit
    <2>2. songs' = scan.tx /\ past.twins' = past.twins
      BY DEF Commit, IdentityInv, Types, Pasts
    <2>. QED
      BY <2>1, <2>2 DEF Known
  <1>. QED
    BY <1>1, IdentityInvariant, PTL DEF Spec, ListsEveryFile

\* A file that alone carries the id of a song is that song after the scan, for
\* any moves and changes of its tags before and during it.
THEOREM KeepsSongHolds ==
    Spec => KeepsSong
  <1>. DEFINE A == Commit => \A p \in Paths \ past.stale' :
                      Held(p) /\ disk[p].tag \in DOMAIN songs \ past.twins' =>
                        disk[p].tag \in DOMAIN songs' /\ songs'[disk[p].tag].path = p
  <1>1. IdentityInv /\ [Next]_vars => [A]_vars
    <2>. SUFFICES ASSUME IdentityInv, Commit, NEW p \in Paths \ past.stale', Held(p),
                         disk[p].tag \in DOMAIN songs \ past.twins'
                  PROVE  disk[p].tag \in DOMAIN songs' /\ songs'[disk[p].tag].path = p
      OBVIOUS
    <2>1. Known(p, scan.tx, DOMAIN scan.tx, scan.aged)
      BY KnownAtCommit
    <2>2. songs' = scan.tx /\ past.twins' = past.twins
      BY DEF Commit, IdentityInv, Types, Pasts
    <2>. QED
      BY <2>1, <2>2 DEF Known
  <1>. QED
    BY <1>1, IdentityInvariant, PTL DEF Spec, KeepsSong

\* After a scan a song has the tags of its file, and its artists unless the
\* file was last read with an old modification time, for any files.
THEOREM UpToDateHolds ==
    Spec => UpToDate
  <1>. DEFINE A == Commit => \A i \in DOMAIN songs' :
          LET p == songs'[i].path
          IN  Held(p) /\ p \notin past.stale' /\ disk[p].tag \notin past.twins' =>
                /\ songs'[i].meta = disk[p].meta
                /\ i \in past.aged' \/ songs'[i].artists = {disk[p].meta.artist}
  <1>1. IdentityInv /\ [Next]_vars => [A]_vars
    <2>. SUFFICES ASSUME IdentityInv, Commit, NEW i \in DOMAIN songs',
                         NEW p, p = songs'[i].path,
                         Held(p), p \notin past.stale', disk[p].tag \notin past.twins'
                  PROVE  /\ songs'[i].meta = disk[p].meta
                         /\ i \in past.aged' \/ songs'[i].artists = {disk[p].meta.artist}
      OBVIOUS
    <2>1. songs' = scan.tx /\ past.twins' = past.twins /\ past.aged' = scan.aged
      BY DEF Commit, IdentityInv, Types, Pasts
    <2>2. p \in Paths /\ OneEach(scan.tx)
      BY <2>1, TableRows DEF IdentityInv, Types, Sound
    <2>3. Known(p, scan.tx, DOMAIN scan.tx, scan.aged)
      BY <2>2, KnownAtCommit
    <2>4. PICK j \in DOMAIN scan.tx :
              /\ scan.tx[j].path = p
              /\ scan.tx[j].meta = disk[p].meta
              /\ j \in scan.aged \/ scan.tx[j].artists = {disk[p].meta.artist}
      BY <2>1, <2>3 DEF Known
    <2>5. i = j
      BY <2>1, <2>2, <2>4 DEF OneEach
    <2>. QED
      BY <2>1, <2>4, <2>5
  <1>. QED
    BY <1>1, IdentityInvariant, PTL DEF Spec, UpToDate

\* A batch of files that nobody changes meanwhile fails only on a path under
\* which the last scan listed another song (songs.path is unique), for any
\* size of a batch and any order of its rows.
THEOREM FailsOnTakenPathHolds ==
    Spec => FailsOnTakenPath
  <1>. DEFINE A == CreateOrUpdateSongs /\ scan'.pc = "idle" /\ scan.changed = {} =>
                      \E f \in scan.queue : \E i \in DOMAIN songs \ {f.tag} :
                         f.tag # None /\ songs[i].path = f.path
  <1>1. IdentityInv /\ [Next]_vars => [A]_vars
    <2>. SUFFICES ASSUME IdentityInv, CreateOrUpdateSongs, scan'.pc = "idle", scan.changed = {}
                  PROVE  \E f \in scan.queue : \E i \in DOMAIN songs \ {f.tag} :
                            f.tag # None /\ songs[i].path = f.path
      OBVIOUS
    <2>1. PICK pick \in Picks(TagRows) :
              \E match \in MatchesFor(pick),
                 new \in Injection(NewFiles(pick), Fresh(Cardinality(NewFiles(pick)))) :
                \E pick2 \in Picks({<<match[f], f>> : f \in KnownFiles(pick)}) :
                   \/ BatchFails(pick, pick2)
                   \/ BatchSucceeds(pick, pick2, new, IdOf(pick, match, new))
      BY BatchSteps
    <2>2. PICK match \in MatchesFor(pick),
               new \in Injection(NewFiles(pick), Fresh(Cardinality(NewFiles(pick)))) :
                \E pick2 \in Picks({<<match[f], f>> : f \in KnownFiles(pick)}) :
                   \/ BatchFails(pick, pick2)
                   \/ BatchSucceeds(pick, pick2, new, IdOf(pick, match, new))
      BY <2>1
    <2>3. PICK pick2 \in Picks({<<match[f], f>> : f \in KnownFiles(pick)}) :
                   \/ BatchFails(pick, pick2)
                   \/ BatchSucceeds(pick, pick2, new, IdOf(pick, match, new))
      BY <2>2
    <2>4. scan.pc = "walk" /\ scan \in Scans
      BY BatchSteps DEF IdentityInv, Types
    <2>5. ~BatchSucceeds(pick, pick2, new, IdOf(pick, match, new))
      BY <2>4 DEF BatchSucceeds, Scans
    <2>. QED
      BY <2>3, <2>4, <2>5, BatchFailsOnTakenPath
  <1>. QED
    BY <1>1, IdentityInvariant, PTL DEF Spec, FailsOnTakenPath
=============================================================================
