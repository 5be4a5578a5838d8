------------------------------ MODULE Catalog -------------------------------
(***************************************************************************)
(* What a scan makes of the tags of the files: which artist and which      *)
(* album each belongs to (src/scanner/artist_map.go, album_map.go), which  *)
(* artists a music folder has, and which songs, albums, artists and genres *)
(* it removes in the end, handing the annotations of an album or artist    *)
(* that has been renamed on to its successor (src/scanner/clean.go,        *)
(* src/repos/postgres/album.go, artist.go, genre.go, musicfolder.go).      *)
(*                                                                         *)
(* A scan is a transaction: Scan has its beginning, Commit all that is     *)
(* written afterwards, in the order of the code, as one step.  The files   *)
(* are read in any order.  Users star and unstar while a scan runs, and    *)
(* its statements see what is committed by then: missed says which stars   *)
(* came after the statements that hand annotations on.  A song is named by *)
(* its file here; SongIdentity is about the ids of songs, and about files  *)
(* that change during a scan.                                              *)
(***************************************************************************)
EXTENDS MusicFolders

CONSTANTS
    Files,      \* paths of media files
    DirOf,      \* the music dir that holds each of them
    Tags,       \* what a file may be tagged with
    FirstConfigs, FirstUsers, \* the configurations and the users there may be at first
    MaxEdits,   \* bound: changes of files and annotations
    MaxAdmin,   \* bound: changes of the configuration and the users
    MaxScans    \* bound: scans

ASSUME CatalogAssumption ==
    /\ IsFiniteSet(Files)
    /\ DirOf \in [Files -> Dirs]
    /\ FirstConfigs \subseteq Configs /\ FirstUsers \subseteq Names
    /\ \A t \in Tags :
           /\ DOMAIN t = {"album", "rel", "mbid", "version", "released", "original",
                          "artists", "albumArtists", "genres"}
           /\ \A as \in {t.artists, t.albumArtists} :
                  as \in Seq(ToSet(as)) /\ \A a \in ToSet(as) : DOMAIN a = {"name", "mbid"}

VARIABLES
    disk,       \* the tags of each file, or None
    fresh,      \* files changed since the last scan
    db,         \* the committed tables songs, albums, artists, genres,
                \* music_folder_artists (links) and album_stars, artist_stars (stars)
    scan,       \* [pc, full, load, last]: the running scan, how the last one ended
    missed,     \* stars set while this scan runs, after it has migrated the annotations
                \* of the albums, or of the artists
    orphaned,   \* links whose last song or album the last scan deleted
    edits,      \* changes of files and annotations so far
    admin,      \* changes of the configuration and the users so far
    scans       \* scans so far

vars == <<folderVars, disk, fresh, db, scan, missed, orphaned, edits, admin, scans>>

Init ==
    /\ InitFolders(FirstConfigs, FirstUsers)
    /\ disk \in [Files -> Tags]
    /\ fresh = Files
    /\ db = [songs |-> <<>>, albums |-> <<>>, artists |-> <<>>, genres |-> {},
             links |-> {}, stars |-> {}]
    /\ scan = [pc |-> "idle", full |-> FALSE, load |-> <<>>, last |-> "none"]
    /\ missed = {}
    /\ orphaned = {}
    /\ edits = 0
    /\ admin = 0
    /\ scans = 0

\* The first of some indices, or 0.
Least(S) == IF S = {} THEN 0 ELSE CHOOSE i \in S : \A k \in S : i <= k
Without(f, S) == Restrict(f, DOMAIN f \ S)
Rows(s) == [i \in {r.id : r \in ToSet(s)} |-> (CHOOSE r \in ToSet(s) : r.id = i).row]

-----------------------------------------------------------------------------
(* The maps of a scan.  m.artists and m.albums are the lists of            *)
(* src/scanner/artist_map.go and album_map.go, the lists of the names one  *)
(* after the other, of table rows with their ids; m.ids the ids that will  *)
(* be given to new rows: the next one and the step to the one after it.    *)

Ascending(S) == [i \in 1..Cardinality(S) |->
                    CHOOSE n \in S : Cardinality({k \in S : k <= n}) = i]
ById(table) == LET ids == Ascending(DOMAIN table) IN [i \in DOMAIN ids |-> table[ids[i]]]

\* Mutant: the folders are never read.
NewArtistMapNoFolders(full) ==
    ById([i \in DOMAIN db.artists |-> [id |-> i, folders |-> {}, row |-> db.artists[i]]])

\* The folders of an artist are only known to a scan that is not full.
NewArtistMapFromDB(full) ==
    ById([i \in DOMAIN db.artists |->
             [id |-> i, row |-> db.artists[i],
              folders |-> IF full THEN {} ELSE {l[1] : l \in {k \in db.links : k[2] = i}}]])

\* Deleting a folder has set the folder of its songs and albums to NULL.
OrNull(row, ids) == [row EXCEPT !.folder = IF @ \in ids THEN @ ELSE None]

NewAlbumMapFromDB(ids) ==
    ById([i \in DOMAIN db.albums |->
             [id |-> i, updated |-> FALSE, row |-> OrNull(db.albums[i], ids)]])

NextId(ids) == [ids EXCEPT !.next = @ + ids.step]

ArtistMatches(a, tag) ==
    a.name = tag.name /\ (a.mbid = None \/ tag.mbid = None \/ a.mbid = tag.mbid)

\* artistMap.findOrCreate: the artist found keeps its MusicBrainz id.  m.found
\* collects the ids of the artists of a file.
FindOrCreateArtist(m, tag, folder) ==
    LET i == Least({k \in DOMAIN m.artists : ArtistMatches(m.artists[k].row, tag)})
        new == [id |-> m.ids.next, folders |-> {folder}, row |-> tag]
    IN  IF i # 0
        THEN [m EXCEPT !.artists[i].folders = @ \cup {folder},
                       !.found = @ \cup {m.artists[i].id}]
        ELSE [m EXCEPT !.artists = Append(@, new), !.ids = NextId(@),
                       !.found = @ \cup {new.id}]

\* The fields that tell albums of one name apart, in the order they are compared.
Discriminators == <<"rel", "mbid", "artists", "version", "released", "original">>

Known(k, a) == IF k = "artists" THEN a.artists # {} ELSE a[k] # None

\* An album row and the tags of a file (tag.artists: its album artists, n of
\* them) agree in the first of these that both have.
SameAlbum(a, tag, n) ==
    LET i == Least({k \in DOMAIN Discriminators :
                      Known(Discriminators[k], a) /\ Known(Discriminators[k], tag)})
    IN  \/ i = 0
        \/ LET by == Discriminators[i]
           IN  IF by = "artists"
               THEN Cardinality(a.artists) = n /\ tag.artists \subseteq a.artists
               ELSE a[by] = tag[by]

\* Mutant: the folder does not matter.
AlbumMatchesAnyFolder(a, tag, n) == a.row.name = tag.name /\ SameAlbum(a.row, tag, n)

AlbumMatches(a, tag, n) ==
    /\ a.row.name = tag.name
    /\ a.updated => a.row.folder = tag.folder
    /\ SameAlbum(a.row, tag, n)

\* albumMap.findOrCreate: an album found takes the values of the first file
\* that finds it in this scan.
FindOrCreateAlbum(m, tag, n) ==
    LET i == Least({k \in DOMAIN m.albums : AlbumMatches(m.albums[k], tag, n)})
        row(id) == [id |-> id, updated |-> TRUE, row |-> tag]
    IN  IF i = 0
        THEN [m EXCEPT !.albums = Append(@, row(m.ids.next)), !.ids = NextId(@),
                       !.album = m.ids.next]
        ELSE [m EXCEPT !.albums[i] = IF @.updated THEN @ ELSE row(@.id),
                       !.album = m.albums[i].id]

\* The artists of a file, one after the other.
FindOrCreateArtists(m, tags, folder) ==
    LET upTo[i \in 0..Len(tags)] ==
            IF i = 0 THEN [m EXCEPT !.found = {}]
            ELSE FindOrCreateArtist(upTo[i - 1], tags[i], folder)
    IN  upTo[Len(tags)]

\* The row of its album, by the artists ids.
AlbumTag(t, ids, folder) ==
    [name |-> t.album, rel |-> t.rel, mbid |-> t.mbid, version |-> t.version,
     released |-> t.released, original |-> t.original, artists |-> ids, folder |-> folder]

\* createOrUpdateSongs for one file: its artists, its album artists, its album,
\* its row with the artists and genres.
ReadFile(m, f, folder) ==
    LET t == disk[f]
        m1 == FindOrCreateArtists(m, t.artists, folder)
        m2 == FindOrCreateArtists(m1, t.albumArtists, folder)
        m3 == IF t.album = None THEN [m2 EXCEPT !.album = None]
              ELSE FindOrCreateAlbum(m2, AlbumTag(t, m2.found, folder), Len(t.albumArtists))
        song == [folder |-> folder, album |-> m3.album, artists |-> m1.found,
                 genres |-> t.genres]
    IN  [m3 EXCEPT !.songs = [g \in DOMAIN @ \cup {f} |-> IF g = f THEN song ELSE @[g]],
                   !.genres = @ \cup t.genres]

-----------------------------------------------------------------------------
(* The end of a scan.  t is the set of tables after the files were read.   *)

\* Mutant: albums do not count.
JustifiedBySongs(t) ==
    UNION {{<<t.songs[f].folder, a>> : a \in t.songs[f].artists} : f \in DOMAIN t.songs}

\* The links that a song or an album of the folder justifies.
Justified(t) ==
    (UNION {{<<t.songs[f].folder, a>> : a \in t.songs[f].artists} : f \in DOMAIN t.songs})
    \cup (UNION {{<<t.albums[i].folder, a>> : a \in t.albums[i].artists} : i \in DOMAIN t.albums})

\* Mutant: what is left of the links is not checked.
UpdateAssociationsUnchecked(t, m) ==
    [t EXCEPT !.links = UNION {{<<i, a.id>> : i \in a.folders} : a \in ToSet(m.artists)}]

\* updateMusicFolderAssociations, before the deletions.
UpdateMusicFolderAssociations(t, m) ==
    [t EXCEPT !.links = Justified(t) \cap
        UNION {{<<i, a.id>> : i \in a.folders} : a \in ToSet(m.artists)}]

\* deleteOrphaned up to the genres.  A full scan keeps what it has read.  The
\* annotations of an album go with it.
DeleteOrphanedSongs(t, full, read) ==
    LET songs  == Restrict(t.songs, {f \in DOMAIN t.songs :
                      /\ t.songs[f].folder # None
                      /\ IF full THEN f \in read ELSE disk[f] # None})
    IN  [t EXCEPT !.songs = songs,
                  !.albums = Restrict(@, {i \in DOMAIN @ : @[i].folder # None}),
                  !.stars = {s \in @ : s[2] \in DOMAIN t.albums => t.albums[s[2]].folder # None},
                  !.genres = @ \cap UNION {songs[f].genres : f \in DOMAIN songs}]

\* An album of a deleted folder still has a song of another folder: the foreign
\* key keeps DeleteAllWithoutMusicFolderID from deleting it, and the scan fails.
Dangles(t) == \E f \in DOMAIN t.songs :
    /\ t.songs[f].folder # None /\ t.songs[f].album # None
    /\ t.albums[t.songs[f].album].folder = None

HasTracks(t, i) == \E f \in DOMAIN t.songs : t.songs[f].album = i
HasWork(t, a) == \/ \E f \in DOMAIN t.songs : a \in t.songs[f].artists
                 \/ \E i \in DOMAIN t.albums : a \in t.albums[i].artists

\* FindAlbumIDsToMigrate: from an album without songs to the only album with
\* its MusicBrainz id that this scan has created.
AlbumsToMigrate(t) ==
    LET created == DOMAIN t.albums \ DOMAIN db.albums
    IN  {p \in (DOMAIN t.albums) \X created :
            LET old == t.albums[p[1]]
                same(i) == t.albums[i].mbid = old.mbid /\ i # p[1]
            IN  /\ old.mbid # None /\ ~HasTracks(t, p[1]) /\ same(p[2])
                /\ ~\E x \in created \ {p[2]} : same(x)}

\* FindArtistIDsToMigrate asks the albums, not the artists, whether there is
\* another one: it never finds one.
ArtistsToMigrate(t) ==
    {p \in (DOMAIN t.artists) \X (DOMAIN t.artists \ DOMAIN db.artists) :
        /\ t.artists[p[1]].mbid # None /\ ~HasWork(t, p[1])
        /\ t.artists[p[2]].mbid = t.artists[p[1]].mbid /\ p[2] # p[1]}

\* MigrateAnnotations for each pair, in any order: the first one of an old id
\* takes its annotations.  to maps every old id to that one.  Stars set later stay
\* with the old row.
Heirs(pairs) == {to \in [{p[1] : p \in pairs} -> {p[2] : p \in pairs}] :
                      \A o \in DOMAIN to : <<o, to[o]>> \in pairs}

MigrateAnnotations(t, to) ==
    [t EXCEPT !.stars = {<<s[1], IF s[2] \in DOMAIN to /\ s \notin missed THEN to[s[2]]
                                 ELSE s[2]>> : s \in @}]

\* Two annotations of a user on one row: the primary key is violated, and the
\* transaction with all of the scan is lost.
Collides(t, to) ==
    \E s, r \in t.stars \ missed :
        /\ s # r /\ s[1] = r[1]
        /\ {s[2], r[2]} \subseteq DOMAIN to /\ to[s[2]] = to[r[2]]

DeleteIfNoTracks(t) ==
    LET gone == {i \in DOMAIN t.albums : ~HasTracks(t, i)}
    IN  [t EXCEPT !.albums = Without(@, gone), !.stars = {s \in @ : s[2] \notin gone}]

DeleteIfNoAlbumsAndNoSongs(t) ==
    LET gone == {a \in DOMAIN t.artists : ~HasWork(t, a)}
    IN  [t EXCEPT !.artists = Without(@, gone), !.stars = {s \in @ : s[2] \notin gone},
                  !.links = {l \in @ : l[2] \notin gone}]

\* Mutant: the old albums go first.
CleanAlbumsFirst(t, to) == MigrateAnnotations(DeleteIfNoTracks(t), to)

CleanAlbums(t, to) == DeleteIfNoTracks(MigrateAnnotations(t, to))
CleanArtists(t, to) == DeleteIfNoAlbumsAndNoSongs(MigrateAnnotations(t, to))

-----------------------------------------------------------------------------
FolderOf(f, c) == CHOOSE i \in DOMAIN c : c[i].dir = DirOf[f]
Configured(f, c) == \E i \in DOMAIN c : c[i].dir = DirOf[f]

\* The files a scan reads: all of the configured dirs, if it is full or there
\* is no song yet, or the changed ones.
ToRead == {f \in Files : /\ disk[f] # None /\ Configured(f, scan.load.config)
                         /\ scan.full \/ db.songs = <<>> \/ f \in fresh}

\* Ids are random: those of new rows sort after or before all there are.
NewIds == LET used == DOMAIN db.albums \cup DOMAIN db.artists \cup {0}
              last == CHOOSE n \in used : \A i \in used : i <= n
              first == CHOOSE n \in used : \A i \in used : n <= i
          IN  {[next |-> last + 1, step |-> 1]}
              \cup IF used = {0} THEN {} ELSE {[next |-> first - 1, step |-> -1]}

\* The maps at the beginning of a scan, with the tables of songs and genres.
NewMaps(ids) ==
    [artists |-> NewArtistMapFromDB(scan.full), albums |-> NewAlbumMapFromDB(scan.load.ids),
     ids |-> ids, found |-> {}, album |-> None, genres |-> db.genres,
     songs |-> [f \in DOMAIN db.songs |-> OrNull(db.songs[f], scan.load.ids)]]

ReadFiles(m, order, c) ==
    LET upTo[i \in 0..Len(order)] ==
            IF i = 0 THEN m ELSE ReadFile(upTo[i - 1], order[i], FolderOf(order[i], c))
    IN  upTo[Len(order)]

\* The tables after reading the files in this order and writing the maps.
Tables(order, ids) ==
    LET m == ReadFiles(NewMaps(ids), order, scan.load.config)
    IN  UpdateMusicFolderAssociations(
            [songs |-> m.songs, genres |-> m.genres, links |-> {}, stars |-> db.stars,
             artists |-> Rows(m.artists), albums |-> Rows(m.albums)], m)

\* Scan: it is full if asked to be, if none has committed, or if the
\* configuration has changed.  An unknown user ends it.
Scan(full) ==
    /\ scan.pc = "idle"
    /\ scans < MaxScans
    /\ scans' = scans + 1
    /\ LET first == folders.stored = None
           load  == LoadMusicDirs(config, full \/ first)
       IN  IF load.rewrites /\ UnknownUser(config)
           THEN scan' = [scan EXCEPT !.last = "failed"]
           ELSE scan' = [scan EXCEPT !.pc = "run", !.load = load,
                                     !.full = full \/ first \/ ConfigChanged(config)]
    /\ UNCHANGED <<folderVars, disk, fresh, db, missed, orphaned, edits, admin>>

\* read: the tables before the deletions.
Committed(read, tables) ==
    /\ db' = tables
    /\ orphaned' = (tables.links \cap Justified(read)) \ Justified(tables)
    /\ fresh' = {}
    /\ CommitFolders(scan.load)
    /\ scan' = [scan EXCEPT !.pc = "idle", !.load = <<>>, !.last = "ok"]

RolledBack ==
    /\ scan' = [scan EXCEPT !.pc = "idle", !.load = <<>>, !.last = "failed"]
    /\ UNCHANGED <<folderVars, fresh, db, orphaned>>

\* The rest of a scan, up to its commit or roll back: t1 are the tables with
\* the files read, t2 those without orphaned songs, t3 those with the albums
\* cleaned as well.  The deletions take the missed stars of a row with it.
Commit ==
    /\ scan.pc = "run"
    /\ \E order \in SetToSeqs(ToRead), ids \in NewIds : \E t1 \in {Tables(order, ids)} :
        \E t2 \in {DeleteOrphanedSongs(t1, scan.full, ToRead)} :
        \E albumTo \in Heirs(AlbumsToMigrate(t2)) :
        \E t3 \in {CleanAlbums(t2, albumTo)} :
        \E artistTo \in Heirs(ArtistsToMigrate(t3)) :
            IF Dangles(t1) \/ Collides(t2, albumTo) \/ Collides(t3, artistTo)
            THEN RolledBack
            ELSE Committed(t1, CleanArtists(t3, artistTo))
    /\ missed' = {}
    /\ UNCHANGED <<disk, edits, admin, scans>>

-----------------------------------------------------------------------------
(* The owner of the files (external), the administrator and the users.     *)

\* Files change between scans here; Scan itself does not read them.
Edit == /\ scan.pc = "idle" /\ scans < MaxScans
        /\ edits < MaxEdits /\ edits' = edits + 1
Annotate == /\ scan.pc = "run" \/ scans < MaxScans
            /\ edits < MaxEdits /\ edits' = edits + 1
Administer == /\ scan.pc = "run" \/ scans < MaxScans
              /\ admin < MaxAdmin /\ admin' = admin + 1

\* Files are added, or tagged anew, or only touched.
Retag(fs, t) ==
    /\ Edit
    /\ disk' = [f \in Files |-> IF f \in fs THEN t ELSE disk[f]]
    /\ fresh' = fresh \cup fs
    /\ UNCHANGED <<folderVars, db, scan, missed, orphaned, admin, scans>>

Delete(f) ==
    /\ Edit
    /\ disk[f] # None
    /\ disk' = [disk EXCEPT ![f] = None]
    /\ UNCHANGED <<folderVars, fresh, db, scan, missed, orphaned, admin, scans>>

\* star of albums and artists, and setRating with a rating other than 0, committed
\* at once; after the migration of the running scan, or before it.
Star(u, ids) ==
    /\ Annotate
    /\ ids # {}
    /\ db' = [db EXCEPT !.stars = @ \cup ({u} \X ids)]
    /\ \/ UNCHANGED missed
       \/ scan.pc = "run" /\ missed' = missed \cup (({u} \X ids) \ db.stars)
    /\ UNCHANGED <<folderVars, disk, fresh, scan, orphaned, admin, scans>>

\* unstar, and setRating with 0.  One that waits for the scan finds that its row has
\* been migrated, and nothing to delete.
UnStar(u, ids) ==
    /\ Annotate
    /\ db' = [db EXCEPT !.stars = @ \ ({u} \X ids)]
    /\ missed' = missed \ ({u} \X ids)
    /\ UNCHANGED <<folderVars, disk, fresh, scan, orphaned, admin, scans>>

EditConfig(c) ==
    /\ Administer
    /\ Configure(c)
    /\ UNCHANGED <<disk, fresh, db, scan, missed, orphaned, edits, scans>>

UsersCreate(u) ==
    /\ Administer
    /\ CreateUser(u)
    /\ UNCHANGED <<disk, fresh, db, scan, missed, orphaned, edits, scans>>

UsersDelete(u) ==
    /\ Administer
    /\ IF scan.pc = "idle" THEN DeleteUser(u, {}) /\ UNCHANGED scan
       ELSE /\ DeleteUser(u, {r[2] : r \in scan.load.access \cup scan.load.deleted})
            /\ scan' = [scan EXCEPT !.load.seen = @ \ {u}]
    /\ db' = [db EXCEPT !.stars = {s \in @ : s[1] # u}]
    /\ missed' = {s \in missed : s[1] # u}
    /\ UNCHANGED <<disk, fresh, orphaned, edits, scans>>

Next ==
    \/ \E full \in BOOLEAN : Scan(full)
    \/ Commit
    \/ \E fs \in (SUBSET Files) \ {{}}, t \in Tags : Retag(fs, t)
    \/ \E f \in Files : Delete(f)
    \/ \E u \in users, ids \in {DOMAIN db.albums, DOMAIN db.artists} : Star(u, ids)
    \/ \E s \in db.stars : UnStar(s[1], {s[2]})
    \/ \E c \in Configs : EditConfig(c)
    \/ \E u \in Names : UsersCreate(u) \/ UsersDelete(u)

Spec == Init /\ [][Next]_vars

-----------------------------------------------------------------------------
Commits == scan.pc = "run" /\ scan'.pc = "idle" /\ scan'.last = "ok"

\* A song's album is in another folder than the song.
Crossed(t, f) == t.songs[f].album # None
                 /\ t.albums[t.songs[f].album].folder # t.songs[f].folder

\* Every file a scan has read ends up in an album of its own music folder,
\* whatever albums of the same name there are in other folders and in which
\* order the files are read (albumMap.findOrCreate).  It is not so for the
\* files the scan does not read: an album with songs of one folder goes to
\* another as soon as a changed file of that folder matches it first.
ReadIntoOwnFolder ==
    [][Commits => \A f \in ToRead \cap DOMAIN db'.songs : ~Crossed(db', f)]_vars

\* The names the files a scan reads give to the artist with this MusicBrainz id.
NamesRead(mbid) ==
    UNION {{a.name : a \in {b \in ToSet(disk[f].artists \o disk[f].albumArtists) : b.mbid = mbid}}
           : f \in ToRead}

(***************************************************************************)
(* The annotations of an album or artist survive a scan: if the row is     *)
(* gone and the scan has created one with its MusicBrainz id (for albums,  *)
(* one only), they are on that one (cleanAlbums, cleanArtists), whether    *)
(* they were there before the scan or came while it ran.  The exceptions   *)
(* the code makes: stars set between the migration and the deletion of the *)
(* old row, which takes them along (missed); albums of a folder that is no *)
(* longer configured, which are deleted before; and artists for whom there *)
(* are several names, whose annotations may be handed on to one that is in *)
(* no song and no album and is deleted at once.                            *)
(***************************************************************************)
KeepsAnnotations ==
    [][Commits => \A s \in db.stars :
        LET table == IF s[2] \in DOMAIN db.albums THEN "albums" ELSE "artists"
            old == db[table][s[2]]
            heirs == {i \in DOMAIN db'[table] \ DOMAIN db[table] :
                         db'[table][i].mbid # None /\ db'[table][i].mbid = old.mbid}
        IN  \/ s \in db'.stars
            \/ \E i \in heirs : <<s[1], i>> \in db'.stars
            \/ /\ s[2] \notin DOMAIN db'[table]
               /\ \/ s \in missed
                  \/ IF table = "albums"
                     THEN Cardinality(heirs) # 1 \/ old.folder \notin folders'.ids
                     ELSE heirs = {} \/ Cardinality(NamesRead(old.mbid)) > 1]_vars
=============================================================================
