------------------------------- MODULE Browse -------------------------------
(***************************************************************************)
(* What users see of the catalog: the endpoints that browse, list and      *)
(* search it (src/handlers/subsonic_browsing.go, subsonic_lists.go,        *)
(* subsonic_search.go, crossonic_browsing.go, crossonic_lists.go) and the  *)
(* queries they make (src/repos/postgres/song.go, album.go, artist.go,     *)
(* genre.go, musicfolder.go), as operators on the committed tables.        *)
(*                                                                         *)
(* A response is the set of songs, albums and artists it has links to.     *)
(* Names, counts, order and pages are left out: a page is a part of the    *)
(* result it is cut from.  Starred songs belong to Feedback.               *)
(***************************************************************************)
EXTENDS Catalog

CONSTANT
    Requested   \* values of the parameter musicFolderId: sequences of folder ids

ASSUME BrowseAssumption == Requested \subseteq Seq(Nat)

\* GetUserMusicFolderIDs: all the user may use, or exactly those asked for.  A
\* refused request is answered with an error and shows nothing.
MusicFolderIDs(u, req) ==
    LET found == {i \in Accessible(u) : i \in ToSet(req)}
    IN  IF req = <<>> THEN Accessible(u)
        ELSE IF Cardinality(found) # Len(req) THEN {} ELSE found

-----------------------------------------------------------------------------
(* Queries.  fs is a set of music folder ids.  *)

SongFindByID(u) == {f \in DOMAIN db.songs : db.songs[f].folder \in Accessible(u)}
AlbumFindByID(u) == {i \in DOMAIN db.albums : db.albums[i].folder \in Accessible(u)}

\* genArtistInMusicFolderCondition and genArtistAccessibleByUserCondition.
InFolders(a, fs) == \E i \in fs : <<i, a>> \in db.links
ArtistFindByID(u) == {a \in DOMAIN db.artists : InFolders(a, Accessible(u))}

TracksOf(i) == {f \in DOMAIN db.songs : db.songs[f].album = i}

\* FindAllFiltered: an empty set is no filter.
SongFindAllFiltered(fs, genres, artists, albums) ==
    {f \in DOMAIN db.songs :
        /\ db.songs[f].folder \in fs
        /\ genres = {} \/ db.songs[f].genres \cap genres # {}
        /\ artists = {} \/ db.songs[f].artists \cap artists # {}
        /\ albums = {} \/ db.songs[f].album \in albums}

AlbumFindAll(fs, genres) ==
    {i \in DOMAIN db.albums :
        /\ db.albums[i].folder \in fs
        /\ genres = {} \/ \E f \in TracksOf(i) : db.songs[f].genres \cap genres # {}}

\* With onlyAlbumArtists the albums of all folders count.
ArtistFindAll(fs, onlyAlbumArtists) ==
    {a \in DOMAIN db.artists :
        /\ InFolders(a, fs)
        /\ onlyAlbumArtists => \E i \in DOMAIN db.albums : a \in db.albums[i].artists}

GetAlbums(a, fs) ==
    {i \in DOMAIN db.albums : db.albums[i].folder \in fs /\ a \in db.albums[i].artists}

\* Albums with a song of the artist that are others' albums: an album without
\* album artists is nobody's and not among them.
GetAppearsOnAlbums(a, fs) ==
    {i \in DOMAIN db.albums :
        /\ db.albums[i].folder \in fs
        /\ db.albums[i].artists # {} /\ a \notin db.albums[i].artists
        /\ \E f \in TracksOf(i) : a \in db.songs[f].artists}

GetAlternateVersions(i, fs) ==
    LET me == db.albums[i]
    IN  {j \in DOMAIN db.albums \ {i} :
            LET it == db.albums[j]
            IN  /\ it.folder \in fs
                /\ IF it.mbid # None \/ me.mbid # None THEN it.mbid = me.mbid
                   ELSE /\ it.name = me.name /\ it.artists \cap me.artists # {}
                        /\ it.original = me.original \/ None \in {it.original, me.original}}

FindAllWithCounts(fs) ==
    {g \in db.genres : \E f \in DOMAIN db.songs : db.songs[f].folder \in fs /\ g \in db.songs[f].genres}

-----------------------------------------------------------------------------
(* Responses.  A song comes with links to its album, its artists and its     *)
(* album artists (loadSongLists), an album with links to its artists         *)
(* (loadAlbumLists).                                                         *)

AlbumArtistRefs(albums) == UNION {db.albums[i].artists : i \in albums}
AlbumsOf(songs) == {db.songs[f].album : f \in songs} \ {None}

Response(songs, albums, artists) ==
    [songs   |-> songs,
     albums  |-> albums \cup AlbumsOf(songs),
     artists |-> artists \cup (UNION {db.songs[f].artists : f \in songs})
                 \cup AlbumArtistRefs(albums \cup AlbumsOf(songs))]
Nothing == Response({}, {}, {})

HandleGetSong(u, f) == IF f \in SongFindByID(u) THEN Response({f}, {}, {}) ELSE Nothing

\* The tracks are not asked whether they are in a folder of the user.
HandleGetAlbum(u, i) ==
    IF i \in AlbumFindByID(u) THEN Response(TracksOf(i), {i}, {}) ELSE Nothing

HandleGetArtist(u, a, fs) ==
    IF a \in ArtistFindByID(u) THEN Response({}, GetAlbums(a, fs), {a}) ELSE Nothing

\* The directory of an album or of an artist: what getAlbum and getArtist show.
HandleGetMusicDirectory(u, id, fs) ==
    IF id \in DOMAIN db.albums THEN HandleGetAlbum(u, id) ELSE HandleGetArtist(u, id, fs)

HandleGetAppearsOn(a, fs) == Response({}, GetAppearsOnAlbums(a, fs), {})
HandleGetAlternateAlbumVersions(i, fs) == Response({}, GetAlternateVersions(i, fs), {})
HandleGetArtistsIndex(fs) == Response({}, {}, ArtistFindAll(fs, TRUE))

\* handleGetAlbumList of every type but "starred".
HandleGetAlbumList(fs, genres) == Response({}, AlbumFindAll(fs, genres), {})

HandleGetSongs(fs, genres, artists, albums) ==
    Response(SongFindAllFiltered(fs, genres, artists, albums), {}, {})

\* What the songs are drawn from.
HandleGetRandomSongs(fs, genres) == Response(SongFindAllFiltered(fs, genres, {}, {}), {}, {})

HandleGetSongsByGenre(fs, g) == Response(SongFindAllFiltered(fs, {g}, {}, {}), {}, {})

Starred(u) == {s[2] : s \in {r \in db.stars : r[1] = u}}

AlbumFindStarred(u, fs) == {i \in Starred(u) \cap DOMAIN db.albums : db.albums[i].folder \in fs}

ArtistFindStarred(u, fs) == {a \in Starred(u) \cap DOMAIN db.artists : InFolders(a, fs)}

HandleGetStarred(u, fs) == Response({}, AlbumFindStarred(u, fs), ArtistFindStarred(u, fs))

\* A search for nothing finds everything, any other a part of it.
SearchArtists(fs, onlyAlbumArtists) == ArtistFindAll(fs, onlyAlbumArtists)
SearchAlbums(fs) == {i \in DOMAIN db.albums : db.albums[i].folder \in fs}
SearchSongs(fs) == SongFindAllFiltered(fs, {}, {}, {})

HandleSearch(fs, onlyAlbumArtists) ==
    Response(SearchSongs(fs), SearchAlbums(fs), SearchArtists(fs, onlyAlbumArtists))

\* handleGetAlbumInfo2 of a song or an album: it goes on without the album if
\* the user may not see it, and panics.
HandleGetAlbumInfoPanics(u, f) ==
    /\ f \in SongFindByID(u) /\ db.songs[f].album # None
    /\ db.songs[f].album \notin AlbumFindByID(u)

\* The artist handleGetArtistInfo shows for a song: the first album artist, or
\* the first artist if there is none.
ArtistInfoOf(f) ==
    LET of == AlbumArtistRefs(AlbumsOf({f})) IN IF of # {} THEN of ELSE db.songs[f].artists

\* Everything a user can be shown.
Responses(u) ==
    (UNION {{HandleGetArtistsIndex(fs), HandleGetStarred(u, fs), HandleSearch(fs, FALSE)}
            \cup {HandleGetAlbumList(fs, gs) : gs \in {{}} \cup {{g} : g \in FindAllWithCounts(fs)}}
            \cup {HandleGetSongsByGenre(fs, g) : g \in FindAllWithCounts(fs)}
            \cup {HandleGetMusicDirectory(u, i, fs) : i \in DOMAIN db.albums \cup DOMAIN db.artists}
            \cup {HandleGetAppearsOn(a, fs) : a \in DOMAIN db.artists}
            \cup {HandleGetAlternateAlbumVersions(i, fs) : i \in DOMAIN db.albums}
            : fs \in {MusicFolderIDs(u, req) : req \in Requested}})
    \cup {HandleGetSong(u, f) : f \in DOMAIN db.songs}

-----------------------------------------------------------------------------
CrossedSongs == {f \in DOMAIN db.songs : Crossed(db, f)}

\* Whatever a user is shown they can open: no response has a link to a song,
\* album or artist that getSong, getAlbum or getArtist then say does not exist,
\* whatever scans, configurations and folders requested came before.  Excepted
\* is what a song leads to whose album a scan has taken to another folder.
NoDeadLinks ==
    LET crossed == Response(CrossedSongs, {}, {})
    IN  \A u \in users : \A r \in Responses(u) :
            /\ r.songs \subseteq SongFindByID(u) \cup crossed.songs
            /\ r.albums \subseteq AlbumFindByID(u) \cup crossed.albums
            /\ r.artists \subseteq ArtistFindByID(u) \cup crossed.artists

\* A user sees no artist of whom there is neither a song nor an album in their
\* folders.  Excepted are the artists whose last one the last scan has deleted:
\* it has updated the folders of the artists before (src/scanner/scan.go).
OnlyOwnArtists ==
    \A u \in users : \A a \in ArtistFindByID(u) :
        \/ \E i \in AlbumFindByID(u) : a \in db.albums[i].artists
        \/ \E f \in SongFindByID(u) : a \in db.songs[f].artists
        \/ \E i \in Accessible(u) : <<i, a>> \in orphaned

\* Whatever a user may play they can find, in each folder they ask for: by the
\* index of artists, the artist and the album, among the albums its artists
\* appear on (unless it is nobody's album), by genre, by artist and in the list
\* of albums; and the infos about it are there.
SongsAreFound ==
    \A u \in users : \A f \in SongFindByID(u) \ CrossedSongs : \A req \in Requested :
        LET s == db.songs[f]
            fs == MusicFolderIDs(u, req)
        IN  s.folder \in fs =>
              /\ \A i \in {s.album} \ {None} :
                    /\ f \in HandleGetAlbum(u, i).songs
                    /\ i \in HandleGetAlbumList(fs, s.genres).albums
                    /\ \A a \in db.albums[i].artists :
                          /\ a \in HandleGetArtistsIndex(fs).artists
                          /\ i \in HandleGetArtist(u, a, fs).albums
                    /\ \A a \in s.artists \ db.albums[i].artists :
                          db.albums[i].artists # {} => i \in HandleGetAppearsOn(a, fs).albums
              /\ s.genres \subseteq FindAllWithCounts(fs)
              /\ \A g \in s.genres : f \in HandleGetSongsByGenre(fs, g).songs
              /\ f \in HandleGetRandomSongs(fs, s.genres).songs
              /\ f \in HandleGetSongs(fs, s.genres, s.artists, {s.album} \ {None}).songs
              /\ ~HandleGetAlbumInfoPanics(u, f)
              /\ ArtistInfoOf(f) \subseteq ArtistFindByID(u)
=============================================================================
