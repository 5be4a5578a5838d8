# crossonic-server in TLA+

crossonic-server is a music streaming server that speaks the (Open)Subsonic
API. It scans music directories into a PostgreSQL database, transcodes songs
and scales covers on demand through a disk cache, keeps playlists, stars,
ratings and scrobbles, and synchronises the latter with ListenBrainz. This
directory holds TLA+ models of the parts of it whose correctness depends on
interleavings, failures and order, TLC runs that check them on small
instances, and TLAPS proofs that hold for every instance.

Modules are named after what they model; `MC*` modules and `.cfg` files
instantiate them for TLC, `*Proofs` modules hold the theorems. `PROJECT.json`
maps every definition to the lines it models and lists the runs, the hazards
they are aimed at, the mutants that show each property can fail, and the
findings.

## Inventory

| Part | State | Operations | What is hard | What makes it correct |
|---|---|---|---|---|
| Cache object and readers (`cache/object.go`, `reader.go`) | size, file handle, reader count, complete flag, `dataChanged` channel | Write, SetComplete, Close, closeForEviction, UseFile, ReleaseFile, Read, Seek | many readers of a file that is still being written; condition variable made of a channel; reference counting | no lost wake-up, exact count, no reader loses its file |
| Cache store (`cache/cache.go`, `handlers/subsonic_mediaretrieval.go`, `ffmpeg/transcode.go`) | key → object map, data files, `-complete` markers | GetObject, CreateObject, DeleteObject, evict, Clear, Close, New | objects outlive their map entry and address files by key; crash between file system calls; failing producers | the mapped object owns its file, a marker vouches for whole data, waiting requests are released |
| Cache cleaner (`Cache.clean`) | sweep snapshot and running total | sweep every few minutes | decides on a snapshot while readers come and go | exact accounting, stops under the limit, least recently used first |
| Playlists (`repos/postgres/playlist.go`, playlist handlers) | `playlists`, `playlist_song(playlist_id, track, song_id)` | create/replace, update (remove by index, append), delete; the scan removes vanished songs and renumbers | read committed transactions of clients and of the scan interleave; index validated before the lock is held; renumbering joins on the song | track numbers contiguous, the table implements an atomically edited sequence |
| Scan pipeline (`scanner/scan.go`, `song_queue.go`, `cover.go`) | directory and song channels, flags shared by goroutines, one transaction | walk, read tags, save in batches, set covers, clean up, commit | bounded channels with error exits; flags read by two goroutines; early return while workers run | terminates, never closes a channel twice, commits only a whole scan |
| Song identity (`createOrUpdateSongs`, `clean.go`) | songs in the database, ids written into files | match by crossonic id, path, MusicBrainz ids; delete what the scan has not seen | moved, copied and retagged files, files that change under the scan | every file is listed, as the song it was, with the tags it has |
| Album and artist identity (`album_map.go`, `artist_map.go`, `clean.go`) | maps loaded from the database and extended during the scan; links of artists to folders | findOrCreate, update, create, migrate annotations, delete orphans | partial ids, any order of files, incremental scans, clean-up after the links are written | a file read joins an album of its folder, stars survive a rename |
| Music folders (`music_dirs.go`, `repos/postgres/musicfolder.go`, admin tool) | configured directories, rows of folders and users | LoadMusicDirs, users create, users delete | users change while a scan runs; the configuration is compared as text | users have the folders configured for them |
| Browsing, lists and search (`handlers/*browsing.go`, `*lists.go`, `subsonic_search.go`) | none | queries by folder, genre, artist, album | links built from tables with different folder filters | whatever is shown can be opened, whatever may be played is found |
| Scrobbles and ListenBrainz submission | scrobbles, submitted flag | handleScrobble, SubmitMissingListens, periodic sync | requests fail half-way, listens are added during a submission | every listen submitted, none twice |
| ListenBrainz feedback | stars, upload status, remote loves | star, UpdateSongFeedback, SyncSongFeedback | both sides change between two steps of a sync | local changes win, both sides converge |
| Authentication (`handlers/middlewares.go`) | failures per user name | log in, count failures | parallel requests in the time window | bounded number of attempts |
| Database layer (`repos/postgres/db.go`, `helpers.go`) | transaction handle | Transaction, batching | nested transactions, batch borders | all batches, each once |
| last.fm client | none | requests with retry | retry without end | terminates |
| Start-up and shutdown (`cmd/server/main.go`) | open resources | run, close | closing what was never started | clean exit |
| Recaps, radio, responses, query parsing, configuration, tag reader, mock repositories | none at run time | – | – | not modelled |

Interactions: handlers call the repositories, the cache and the transcoder;
the transcoder's callback completes or deletes cache objects; the scanner and
the playlist handlers delete cover objects, a full scan clears the cover cache;
the scan runs in one long database transaction next to the handlers' short
ones.

## Plan

Done, in this order: one cache object with its proofs; the store and the sweep;
playlists with their abstract list; the scan pipeline with its proofs;
`Scrobbles` with its proofs and `Feedback`; `SongIdentity`; `MusicFolders`, `Catalog` and
`Browse`, which are one system in three modules.

Every safety property that a passing run checks is proved as well; liveness is
model-checked. Of the parts not modelled the failure counter of the log-in is the
only one with state of its own.

## Modules

| Module | Models | Extends / uses |
|---|---|---|
| `ObjectOps` | methods of `cache.Object` and `waitForData` as functions on a record | – |
| `CacheObject` | one object, its producer, readers and closers | `ObjectOps` |
| `CacheStore` | the map, the cache directory, requests, producers, crash and restart | `ObjectOps` |
| `CacheStoreProofs` | theorems about it | `CacheStore` |
| `CacheClean` | one sweep of `Cache.clean` | – |
| `CacheProofs` | theorems about one object and about a sweep | `CacheObject`, `CacheClean` |
| `PlaylistList` | abstract: a list edited by one edit at a time | – |
| `Playlist` | one playlist in PostgreSQL, clients and scan, statement by statement | implements `PlaylistList` |
| `PlaylistProofs` | theorems about it | `Playlist` |
| `ScanPipeline` | the goroutines and channels of one `Scan` | – |
| `ScanPipelineProofs` | theorems about it | `ScanPipeline` |
| `Scrobbles` | scrobbles, their submission and its repetition | – |
| `ScrobblesProofs` | theorems about it | `Scrobbles` |
| `Feedback` | stars here and loves on ListenBrainz | – |
| `FeedbackProofs` | theorems about it | `Feedback` |
| `SongIdentity` | which song a file is, over several scans | – |
| `SongIdentityProofs` | theorems about it | `SongIdentity` |
| `MusicFolders` | configuration, users and their folders | – |
| `Catalog` | albums, artists, genres and annotations over several scans | extends `MusicFolders` |
| `Browse` | the endpoints that show the catalog, and their queries | extends `Catalog` |
| `LibraryProofs` | theorems about the three | `Browse` |

`ObjectOps` is shared: `CacheObject` looks at one object at the grain of its
lock, `CacheStore` puts several of them into a map and a directory. Operators
commented "Mutant" are the code with a plausible bug; they are used only to
show that a property can fail.

### Cache objects (`CacheObject`)

`obj` is the `Object` struct with bytes counted instead of stored. The channel
`dataChanged`, closed and replaced to wake everybody, is the set `waiters` of
readers that captured the current channel and block on it: `signalDataChanged`
empties it. `pc[r]` is where a request is between `newCacheReader` and `Close`.
Each action is one critical section of `Object.lock`; the wait loop gives the
lock up, so a wake-up (`Wake`) is an action of its own. `os.Open` may find no
file: then nothing changes and no action is needed. `closed` is a history variable:
`Close` was called since the file was last opened. `Close` and `closeForEviction`
have the same effect, so it takes this variable to say that the cleaner takes the file
from no reader.

### Cache store (`CacheStore`)

Objects and inodes have ids that are reused when nothing refers to them any
more. `cmap` is `Cache.objects`, `disk[k]` what is at the path of key k (inode
and marker), `ilen` the length of an inode. `op` is the holder of
`objectsLock`: `DeleteObject`, `evict`, `CreateObject` and `Clear` are several
actions each, one per file system call, because readers and producers do not
take that lock and a crash may come in between. Each of these calls may fail
(`Mishap`), with what the code then does: `DeleteObject` returns with the closed object
still mapped, `evict` goes on, `Clear` leaves files without objects
(`ClearDirectory`) or no directory (`dir`), `SetComplete` only reports that there is no
marker. `Locked` stands for `SetComplete` creating the marker while it holds the
object's lock. Requests
go through `GetObject`, `CreateObject` on a miss, the start of the producer,
`Reader`, `Read`, `Close`, as handleStream and handleGetCoverArt do; producers
write, then complete or delete by key, as `onDone` does. `Crash` forgets
memory; `Restart` is `loadObjects`. `suspect` and `stuck` (the keys `DeleteObject`
failed on) are history variables.

Which object the cleaner evicts does not matter in `CacheStore` (any idle
one); in `CacheClean` that is the question, and the map is held by the sweep
while readers and writers of the objects go on. An eviction is two steps there,
`CloseIfIdle` (`closeForEviction`, under the object's lock) and `Remove` (the files and
the map's entry); a request that holds the object may open it in between. Ages are
abstract times relative to the 30 minutes and `maxUnusedTime` of the code. The ratio
`maxSize / largestSize > 0.3` is compared in integers.

### Playlists (`Playlist`)

A row of `playlist_song` has a committed version (`com`), a latest version
(`cur`) and the transaction that wrote it (`lock`). A statement takes a
snapshot (`TakeSnapshot`) and, when no row it matched is locked elsewhere,
applies to those that still match (`Execute`, `Insert`): read committed as
PostgreSQL implements it, with row locks, the deferrable unique index and the
foreign key on songs, modelled from how the code relies on them. The handlers
are programs of statements: `FindForUpdate` counts tracks without a lock,
`Touch` updates the playlist row and validates the indices, then come the
removal, the CASE that closes the gaps, and the insertion. `StartScan` is the
part of the scan that touches playlists. Every transaction may be rolled back
at any time. `settled` is a history variable: no scan has overlapped an edit
since a scan that overlapped none.

### Scan pipeline (`ScanPipeline`)

One record per channel or goroutine group; directories and files are counted.
`main` goes through `scanMediaDirs` and the rest of `Scan` with its deferred
functions; `worker` are the directory workers; `save` is `runSaveSongsLoop` and
the goroutine around it, `tags` the goroutines that write ids into files,
`cover` those that store covers. `Failures` says which calls may fail. Testing
`setAlbumCoverClosed` and closing the channel are two steps, since nothing
protects the flag; a stale read of it (a data race) acts as an early test.
Setting the flag and closing are one step, because who finds the flag set does
nothing to the channel. A panic in any goroutine ends the process and every
behaviour with it (`Alive`).

### Scrobbles (`Scrobbles`)

A listen is a (user, song, time). `row` is the scrobbles table, `lb` what
ListenBrainz has received. A request of `handleScrobble` is three steps: reading
and taking out conflicts (`Scrobble`), one step per request to ListenBrainz
(`SubmitSlice`), and the insertion with the commit (`CreateScrobbles`); the
transaction of the handler is open all the time, so a mishap in between loses the
rows but not what was submitted. `SyncFind` … `SyncMark` are
`SubmitMissingListens`, query by query and request by request. The answer to a
request may be lost after it was processed (`Answers`). `NextSlices` and `PastEnd` are the
bounds of `payloads[i:next]`. The duration played is one of four classes, because
the handler tests `> half or unknown` and the queries `>= half and known`.
`swept` records listens marked by a round that had not read them, `panicked`
that `SubmitImport` has panicked over a slice.

### Feedback (`Feedback`)

`star` and `status` are `song_stars` and the upload status of each song, `remote`
the recording id stored with it, `loves` the user's loved recordings.
`UpdateSongFeedback` is a `job`: looking up missing recording ids, posting one
recording after the other, marking what was posted. `SyncSongFeedback` collects
the loves, marks what agrees, finds what was never uploaded, finds what is
outdated here, uploads, and applies the rest in a transaction; clients star and
unstar between any two of these, and any query, transaction or request may fail. The
history variables say what really arrived, whatever the upload status claims: `pending`
are the songs whose last change here has not been posted successfully, `masked` those
of them the status calls uploaded all the same, because an older change of the song was
posted and marked after the newer one was made (`late` in a job), or because the loves
were read before they changed; `edited` are songs changed after the round read them.

### Song identity (`SongIdentity`)

`disk` holds the files with the id in their tags, their metadata and whether
their times are after the last scan; `songs` is the committed table, `scan.tx`
the table as the transaction sees it. `ListDir` and `ProcessFile` are the walk,
`CreateOrUpdateSongs` a batch: update by id, match the rest by path, release or
release group, insert what is new, replace artists, write the ids into the tags
(which no roll back undoes).
The release of a song's album row is taken to be the one in the song's own tags; in the
code the row has the values of the first file of the scan that finds it. `DeleteLastUpdatedBefore` and
`DeleteOrphanedSongsByPath` (page by page) are the two ways of removing songs.
The files change before, between and during scans. `past` holds what the
properties except, each for a reason in the code: `stale` (files changed under a
scan that had read them), `aged` (songs last read with an old modification
time) and `twins`. `Twins` is computed where a batch gives out its ids: the id
and the tag of each file whose id another file carries or gets too (`Shared`),
and the tag of each file whose song another file becomes (`Robbed`).

### Library (`MusicFolders`, `Catalog`, `Browse`)

A scan is two steps here: `Scan` with `LoadMusicDirs`, and `Commit` with
everything it writes. In between the users table and the configuration, which are read
in the first, change, and stars are set and taken back: other transactions' stars are
visible to the statements of the scan as soon as they are committed. Two statements
read them, the migration of annotations and, by the cascade, the deletion of the old
row, so a star set during a scan comes before the migration or after it: `Star`
chooses, and `missed` holds those that came after. `MigrateAnnotations` leaves these on
the old row, and its deletion takes them along. An unstar after the migration finds
nothing to delete. `LoadMusicDirs` is one step: a user created or deleted between its
statements makes it fail on a key, and the scan rolls back. `Commit` reads the files in
any order
(`ReadFile`, with `FindOrCreateArtist` and `FindOrCreateAlbum` on the maps),
writes the maps and the links of artists to folders, deletes orphaned songs,
genres and albums of folders that are gone, hands annotations on and deletes albums
and artists, in the order of the code; key violations roll it back (`Dangles`, `Collides`). Ids are random, so new
ones sort before or after all others. Stars stand for stars and ratings.
`Browse` has a set-valued operator for each query and each endpoint: what the
response links to. `MusicFolderIDs` is the parameter every one of them takes.

## Runs

| Run | Instance | Question and answer |
|---|---|---|
| `object` | 3 readers, 2 bytes | Reader count exact, no lost wake-up, offsets within the data; an open reader loses the file to `Close` alone: holds. |
| `store` | 1 key, 2 requests, 2 objects and inodes, 1 mishap (an exit of the server or a failing file system call) | The mapped object owns its file; a marker vouches for whole data outside two windows; waiters are accounted for: holds. |
| `store_live` | 1 request, 1 mishap, fair | Waiting requests whose object is writable are released; incomplete objects do not stay in the map, except where `DeleteObject` could not remove the file (`stuck`): holds. |
| `clean` | 3 objects, sizes 1, 5 and 7, limit 2 | The sweep's total is exact; above the limit it leaves only what was in use or is at least 10/3 of the limit large; it takes the least recently used first, and no more than it must: holds. |
| `playlist` | 2 clients, 2 edits, 2 scans, 3 songs | Contiguous numbers, edits exact, refinement of `PlaylistList`: holds. |
| `playlist_fix` | 1 scan, no client | Renumbering keeps the primary key: violated. |
| `scan_failures` | 2 workers, 3 directories, batches of 2, all failures | Commits only whole scans and last of all; each panic has the stated cause: holds. |
| `scan_ends` | 1 worker, 3 directories, batches of 1, all failures, fair | Every scan returns, dies or hangs in one of three ways after a failure, and returns if nothing fails: holds. |
| `scrobbles` | 2 requests, 5 listens of 2 users sent in 3 groups (`Submissions`), slices of 2, 1 mishap, fair rounds | What is marked has arrived, unless a round marked it unread; nothing arrives twice without a mishap; nothing owed is forgotten if requests succeed in the end, unless a list cannot be sliced: holds. |
| `feedback` | 2 clients, 3 songs (two of one recording, one whose recording must be looked up), 2 edits, 1 mishap, fair | A round overwrites no change that no post has delivered, unless made after it had read or marked as uploaded with an older one; both sides agree in the end: holds. |
| `songs` | 3 paths in 2 directories, 2 edits at any time, 2 scans, batches of 2, pages of 1 | Lists every file and only files, keeps their songs, has their tags, fails over a path only if another song held it: holds. |
| `library` | 2 files in 2 dirs, 4 taggings, 3 configurations, 2 users, 2 edits, 1 change by the administrator, 2 scans | Access follows the configuration; no dead links; no artists of others; everything playable is found; files read join albums of their folder; stars survive, those set during a scan included unless set after its migration: holds. |

### Findings

The run `playlist_fix` contradicts the schema: `FixTrackNumbers` joins on the
song instead of the row, so in a playlist with a song twice it may assign one
number to two rows, and the scan then fails.

The other properties hold and name what they except. These exceptions are
behaviours of the code that a reader should know.

Cache:

* A request that has an object from `GetObject` is not counted until `UseFile`;
  until then the object can be evicted, though the comment at
  `closeForEviction` says otherwise (`MappedOwnsFile` still holds).
* After an exit a truncated file can be loaded as complete: `SetComplete` of an
  object that has left the map marks the data of its successor (`suspect` in
  `MarkerVouches`).
* A request whose `UseFile` runs between `Close` and `os.Remove` of
  `DeleteObject` opens the file read-only and waits for a producer that is gone,
  until its client hangs up (mode "rw" in `WritableReleased`).
* `DeleteObject` returns when `os.Remove` fails, with the closed object still in the map.
  If it is incomplete, nobody writes it any more and nobody need ever delete it: every later
  request for the key fails to open it, or waits on it until its client hangs up, up to
  the next `Clear`, restart or eviction (`stuck` in `IncompleteResolves`).
* `Clear` empties the map before it removes the files. If `os.RemoveAll` fails, files
  without objects stay, and a restart loads those with a marker again; if `os.MkdirAll` fails
  there is no directory, and nothing can be cached until the next `Clear` or restart.
* An unused object at least 3⅓ times the size of the limit is evicted neither
  first nor last; the sweep evicts everything else and stays above the limit
  (`10 * MaxSize <= 3 * e.size` in `CleanBounded`).
* Between `closeForEviction` and the removal a request that already holds the object may
  open it again; the sweep then removes an object with a reader, which goes on with the
  open file.

Scan:

* After a failed walk `Scan` does not wait for its workers and its save loop,
  which then send to a closed channel or use the nil transaction and end the
  server (`PanicsExplained`).
* Workers, a save loop or id writers that are gone leave their senders blocked
  for ever with the scan lock held (`WalkHangs`, `WorkerHangs`, `SaveHangs`).
* A file changed during a scan, after it was read, looks unchanged to later
  incremental scans (`stale`); a file with an old modification time gets no new
  artists and genres (`aged`); copied id tags or ambiguous MusicBrainz ids give
  two files one song, and a file whose tag names no song, because the scan that
  wrote it was rolled back, may lose its song to another file of the same
  MusicBrainz id (`twins`).
* Song paths are unique and updated row by row: moving a tagged file onto a path
  another song holds, or swapping two files, fails the scan (`FailsOnTakenPath`), and
  the next one finds the same rows and files. So does a file that vanishes between
  listing and reading, for one scan.
* A file read in an incremental scan can take over an album of the same name
  whose songs, in another folder, are not read: they are then in an album of a
  folder their listeners may not have (`Crossed`), and `getAlbumInfo2` of such a
  song dereferences the album it did not find. If that folder is removed, the
  foreign key of the songs fails the scan (`Dangles`; three scans are needed).
* Two annotated albums or artists of one MusicBrainz id, replaced by one new
  row, violate the key of the annotations and fail every scan until one is
  unstarred (`Collides`).
* A star set after a scan has migrated annotations and before it deletes the old row
  (`clean.go:71-79`, `92-100`) is deleted with that row, although the scan has created a
  row with the same MusicBrainz id (`missed`).
* The links of artists to folders are written before orphans are deleted, so an
  artist stays visible in a folder for one scan too long (`orphaned`).
* `artist_map.go:83` lacks a negation: an artist stored without a MusicBrainz id
  never gets one. `FindArtistIDsToMigrate` asks the albums whether there is
  another heir. An album tagged with the same album artist twice is never found
  again, so each of its songs gets an album of its own.
* No users list and an empty one give the same text, so only a full scan sees
  the change (`blurred`); a user created while a scan stores a new configuration
  gets no folders from it (`late`); a user that is configured and deleted makes
  full scans fail. Deleting a user waits for a scan that has deleted or written
  rows of theirs.

ListenBrainz:

* `SetLBSubmittedByUsers` marks everything a user has by then, also listens the
  round has not read: those are never submitted (`swept`).
* More than 1000 listens that are no multiple of 1000 make `payloads[i:next]`
  panic: in the handler the request fails, in the periodic synchronisation the
  server goes down, and again after each restart (`Unsliceable`, `panicked`).
* A listen of unknown duration whose first submission failed is never repeated.
* One failing user ends a round at `listenbrainz.go:351-353` before anybody is marked.
  If their token is refused for good, no round gets further: the others' listens stay
  owed, and those of the users before them are sent again each time. `OwedIsSubmitted`
  assumes that this does not last.
* A star set between a round's queries and its transaction may be undone
  (`edited`).
* `SetLBFeedbackUploaded` marks a song for the change that was posted, even if it was
  changed again meanwhile. If the upload of the newer change then fails or comes too
  late, the next round takes it for outdated and undoes it (`masked`).
* `ListenBrainz.Close` before the first scan has ended calls a nil function.

### Bounds, and why they are enough

* Objects of two chunks have a beginning, a middle and an end; three readers
  let one wait, one read and one leave at the same time.
* One key suffices for the store: keys share only `objectsLock` and `Clear`.
  Two requests with two objects reach every case of an object that left the map
  beside its successor; a third object would be a second successor.
* One mishap per behaviour: exits and failures are rare and the windows they
  open are those between two file system calls, all of which are tried.
  `Total` = 1 already separates empty from whole files.
* Against a limit of 2 the sizes 1, 5 and 7 are below the limit, above it, and beyond
  the 0.3 rule; three objects allow an expired, a largest and an ordinary one, or two
  ordinary ones of different ages.
* Two edits and two scans overlap in every order; the lists include one with a
  repeated song, the removals a first, a middle and two tracks apart.
* In `scan_ends` three directories are one in the hands of the only worker, one
  in the channel and one more, which blocks the walk when the worker is gone;
  all three hangs are reached. In `scan_failures` three files make a full batch
  of two and a rest, and two workers can fail one after the other. Capacity 1
  for covers and ids makes their senders block.
* Four listens of one user are three the handler submits and three a round owes,
  which slices of two cannot divide; two of them sent alone can. They cover all
  sides of both tests of the duration, and a second user can fail after the first.
  `Submissions` bounds what a client sends at once. One mishap anywhere is
  enough to lose, repeat or delay something; all kinds are tried at all points.
* Two songs of one recording are what makes feedback ambiguous; one whose id must be
  looked up makes a request of two steps. Two edits by two clients overtake each
  other and a round.
* Two scans with two changes of the files between or during them are a scan that
  learns and a scan that recognises. Three paths allow a move onto a path that
  was held and a copy besides; pages of one song make the offset of the page
  matter.
* In `library` one file per folder suffices for albums of the same name to be
  confused, since the order of files and of ids is arbitrary. Albums and artists
  share MusicBrainz ids under different names, so that renaming is an edit. The
  requested folders include one the user may lack and one given twice. New rows
  need no bound: there are as many as the files name. A third scan was tried with one
  initial configuration, where all properties hold as well; it takes too long to
  be kept as a run.
* `CHECK_DEADLOCK FALSE` stands where the numbers of edits and scans end a
  behaviour, and in the cache where the system may come to rest.

### Fairness

The Go scheduler runs every goroutine that can run, so each goroutine of the
scan is weakly fair, and so is whoever holds `objectsLock`. A request or
producer that needs a lock may find it taken again and again; Go's mutexes hand
the lock to a waiter in the end, hence strong fairness for them in
`CacheStore`. The periodic goroutine starts a round every three hours for as long
as the server runs, and a server that exits is started again: rounds
(`SyncStep`) are weakly fair, as are the requests a client has sent
(`JobStep`). Nobody has to switch a synchronisation on. Nothing is assumed of clients, the scanner
and the cleaner, nor of the end of ffmpeg's output other than that it delivers or
dies. Crashes and failures may come at any time but are finitely many (`MaxMishaps`):
the liveness properties say what happens if the system is left to itself in the end, and
`OwedIsSubmitted` and `Converges` that ListenBrainz answers every user in the end. That
is an assumption about the world and not about the code: the findings say what a
user does to the others whose token is refused for good.

## Proofs

`CacheProofs`, first part (`CacheObject`, for any finite set of readers, any size;
assumptions: readers finite, the three file handles distinct, `MaxBytes` a natural
number). The
inductive invariant is `Inv`: types, exact reader count, `NoLostWakeup`,
`OffsetWithinSize`, `FileOutlivesReaders`. The last needs the count: the cleaner and a
reader that leaves close the file when it says zero. `NoLostWakeup` alone is not
inductive: a waiter must stay
without data when others read, and the type of the offsets alone does not tell
that no reader is past the data of a growing object. The lemmas
say what each operation of `ObjectOps` does to the fields; the count needs the
cardinality of the set of open readers when one comes or goes
(`FiniteSetTheorems`). From it follow `TypeCorrect`, `ReaderCountInvariant`,
`NoLostWakeupInvariant`, `OffsetInvariant` and `FileOutlivesReadersHolds`.

`ScanPipelineProofs` (any finite, non-empty set of workers, any number of
directories and files, any positive batch size and channel capacities, any set
of failures). `CommitsLast` is not inductive: that nobody is left when `Scan`
commits rests on a chain of who waits for whom. `CommitInv` states the chain:
`MainFacts` (Scan has seen its workers off before it waits for the save loop,
and has the results it acts on), `SaveFacts` and `TagFacts` (a save loop
without an error has drained the queue, and its id writers are gone with an
empty channel), `CoverFacts` (as long as nothing has cancelled the scan, the
cover workers leave only after the save loop has closed their channel, and it
is empty), all with the shapes of the records. The proof has one step per
action; steps that write several fields of a record are first reduced to what
becomes of each field.

`ScrobblesProofs` (any users, requests, submissions and number of mishaps, any
finite set of listens, any positive size of a slice; assumption
`ScrobblesAssumption`). `SentMeansReceived` is not inductive: the flag is written
long after the requests it reports. `SentInv` adds `RequestSent` (what a request
has taken out of its list has arrived, and all of it when it will be stored as
submitted) and `RoundSent` (the same of a round, for the current user and the
users it is through with), and `RoundStarts`, without which the types are not
inductive. `AnswersFacts` says that no answer takes a listen back; how many
listens a slice has is not used. From it follow `ScrobblesTypeCorrect` and
`SentMeansReceivedInvariant`.

`ReceivedOnceInvariant` rests on `OnceInv`: as long as there is no mishap, a
listen that has arrived was sent by exactly one request or by the one round,
and that one will note it (`NotedOnce`); it needs that requests do not share
listens and that a round works on stored ones (`OwnListens`, `RoundListens`).

`ScanPipelineProofs` further has `PanicsExplainedInvariant` (from `PanicFacts`:
what each error variable can hold and when the transaction is nil),
`CommitsWholeInvariant` and `TypeInvariant`. The last two need `CountInv`:
`Conserved` says that while nothing has failed, the files saved, skipped,
collected and queued, those in the hands of workers and those in directories not
yet taken add up to `Dirs * Files`, and to no more in any case. The files in
the hands of the workers are counted as a set of pairs (`Pairs`), since a sum
over a set would need induction. `Bounds` and `WalkFacts` say where a buffer is
full or empty when its users go on.

`CacheProofs`, second part (`CacheClean`, for any finite set of objects, any sizes,
ages and limits). `CleanInv`: an object has one snapshot (`Snapshots`), is still in the map until
the loop that could evict it has passed it (`StillThere`), what that loop
has passed and left is in use or the largest (`Passed`, `LargestKnown`), and what it has
not reached was used after what it has (`Sorted`). `TakenKnown` says of the object between
its closing and its removal that it has the snapshot that will be subtracted, and that
the total was above the limit. `TotalExact` counts bytes as
pairs, again a set; the proof that a removal takes away exactly
one snapshot's bytes is `BytesAdd` and `StillThere`. `EvictsOldestFirst` is inductive
with these: the bytes of `LeftBeside(e)` were the total when `e` was taken, and stay
what they were, since the loop takes later only what was used after `e`. From it follow
`TotalExactInvariant`, `CleanBoundedInvariant` and `EvictsOldestFirstInvariant`.

`CacheStoreProofs` (any keys, any finite sets of requests and ids, any length of
output, any number of mishaps; `StoreAssumption`). `MappedOwnsFile`,
`MarkerVouches` and `WaitersAccounted` are not inductive: `objectsLock` is held
over several file system calls while producers and readers go on. `StoreInv`
adds what the lock holder finds unchanged between its calls (`LockHolder`, `Owned`), that an
object open for writing is the mapped one of a key nobody operates on (`Writers`), that
no two keys share an inode (`Distinct`), that a marker is created only after the
last write (`Marking`), the exact reader counts (`Counted`), and what an exit
leaves (`Down`). Together they give `StoreTypeCorrect`,
`MappedOwnsFileInvariant`, `MarkerVouchesInvariant` and
`WaitersAccountedInvariant`.

`PlaylistProofs` (any clients, songs, edits, scans and rollbacks;
`PlaylistAssumption`, which says of the bounds only that the initial lists fit
and that the numbers suffice for the rows). `Contiguous` is not inductive: between two
statements the numbering has gaps, and a statement that waits for a row lock
goes on with a snapshot it took before. `ListInv` therefore speaks of the view of each
transaction, its own versions over the committed ones, which is what it commits.
`Stage` follows the view of the client that holds the playlist row: without
gaps, or, between removing tracks and closing the gaps, with exactly the removed
numbers missing (`Holed`). `ScanDone` says the same of the end of a scan that no edit
overlaps. `Current` says that the snapshot an undisturbed statement waits with
is what it would read now; it rests on `Locks`, `Owning` and `Apart`. The lemmas
behind the statements are about views: `RemovedView`, `ShiftedView` (a
row moves down by the removed numbers below it, so the rows close up),
`InsertedView`, and for `FixTrackNumbers` `Pigeons` (n different numbers below n
leave no gap). That the numbers are different after it is the primary key's
doing (`KeysDistinct`), as the run `playlist_fix` shows. From it follow
`PlaylistTypeCorrect` and `ContiguousInvariant`.

`EditsExactly` and the refinement of `PlaylistList` need more: not how the rows
of a view are numbered, but which songs they hold in which order. `Exact` adds it.
`Edited` (by `EditStage`) says at each statement of the client that owns the
playlist which part of the committed list its view shows: the list, the list without
the removed indices, the same closed up, the list with the songs appended, or
nothing. `Purged` says the same of a scan that no edit overlaps, and what the
snapshots of its statements still have to do (`ScanFresh`). `Removed` says that the rows a client has deleted are as many as it was
asked to remove. That a view shows a list is stated by tracks: the tracks of the
view are the indices kept, and the row with track k holds the song
at index k (`Shows`), so that no induction over sequences is needed; `ReadsAs`
leads back to the sequence a client reads. `CommitExact`
carries the stages of everyone else over a commit. From it follow `EditsExactlyHolds`
and, with one abstract step for each commit (`CommitImplements`),
`ImplementsListHolds`.

`FeedbackProofs` (any songs, recordings, clients, edits, mishaps). `LocalWins` speaks of
what was delivered, the code goes by a flag. `FeedbackInv` has, besides the types,
`FlagExplained` (a song the flag calls uploaded was delivered or is masked, and one of
which nothing is known is starred or has nothing to deliver), `GoodPosted` (what a job
counts as posted was delivered, or changed since) and `Pulled` (what a round will change
when it applies was delivered, is masked, or was edited since). `FeedbackTypeCorrect`
and the action property `LocalWinsHolds` follow.

`LibraryProofs` (any configurations, users, tags and finite set of files, any number
of scans, edits and admin commands; the other assumptions are about shapes: tags
and configurations are records of lists, folder ids are natural numbers, and `None` is
no number). `AccessInv` says of the committed tables that they hold
the last configuration (`Stored`) and rows of existing users (`Owners`), and of
a running scan what its transaction holds of users it has seen and of others
(`Pending`). `AccessFollowsConfigInvariant` follows. The proof corrected the property:
the run allows one change by the administrator, but with more of them a
configuration can be edited, taken up by a full scan, and edited back before a
user is created under the old one while the scan commits the new one, so the exception
`late` now covers users created while a scan stores any other configuration.
`Linked` (every link of an artist to a folder is justified by a song or an
album, or orphaned by the last scan) gives `OnlyOwnArtistsInvariant`; that a
commit writes the links last but for the deletions is what it uses of the scan.

`NoDeadLinks` and `SongsAreFound` are about queries over several tables, and hold
because the tables fit together: `Consistent` says that songs, albums and artists refer to
rows there are, in folders there are, that every artist is linked to the folder
of each of their songs and albums, that album and artist ids are apart, and that
annotations are on rows there are. Given it, each endpoint shows only what can be opened
(`ResponsesOpen`) and shows all it should (`SongFound`). That a
commit keeps `Consistent` is the largest part of the proof. It goes with the code:
* `Maps` holds of the two maps after each file (`FileRead`, from `ArtistFound`
  and `AlbumFound`): ids in the lists are unique, the songs read point into the lists,
  an artist found knows the folder, an album written in this scan is in the folder of
  the songs read into it, and no two new artists with one
  MusicBrainz id have the same name. `FilesRead` gets it for any order of the
  files from the least index at which it would fail, in place of an induction
  theorem.
* `ReadTables` says what the maps give when they are written (`TablesRead`): above all
  that what a scan has not read is linked as before, unless the scan is full,
  and then it is deleted.
* `OrphansGone`, `AlbumsGone`, `ArtistsGone` and `Ended` follow the deletions:
  nothing that stays refers to what goes, given that `Dangles` rolls the scan back.

`ConsistentInvariant` needs `AccessInv` too, since a scan that does not rewrite
the folders relies on the stored text for which folders there are. From both
follow `NoDeadLinksInvariant`, `SongsAreFoundInvariant`,
`ReadIntoOwnFolderHolds` (by `Filed`: a file read is in an album written in this
scan, in its own folder) and `KeepsAnnotationsHolds`. The last goes through the
cases of `AlbumAnnotations` and `ArtistAnnotations`: a row without songs was not matched
by any file, so it has its old MusicBrainz id, and a row the scan has created
survives if it is an album; a new artist need not, if there are several names. A star
that came after the migration stays with the old row (`MovedStar`) and goes with it.
The attempt to prove it corrected model and property. The stars of
an album that is deleted with its folder go with it (`ON DELETE CASCADE`), which
`DeleteOrphanedSongs` did not say; and an artist's annotations may go to a new
artist that is in no song or album in the end, which takes two names for one MusicBrainz id
among the files of one scan, more than the run's files have.

`SongIdentityProofs` (any paths, directories, tags and ids, any positive batch and page
sizes, any number of scans and of changes of the files, at any time;
`IdentityAssumption`, and that no file is what a free path holds). None of the
properties is inductive: they speak of the step that commits, and what it commits was put
together file by file while the files changed. `Known` says what a table knows
of a file: a song of that path has its tags and artists, and the id in the tags is that
song's or names no song at all, unless it is one of the `twins`. `Committed`
says it of the committed table and the files that have not changed since,
`Scanned` of the table in the transaction and the files the scan is done with;
a batch adds to the latter the files it was made of (`BatchReads`) and takes no
other file's song unless `Twins` says so (`BatchLeaves`), and a commit turns one
into the other (`KnownAtCommit`). What the statements of a batch make of the
table is stated without their choices in `Stored`, `Assigned` and `Tags`; that
the paths stay unique (`OneEach`) follows from what an UPDATE that succeeds gives
out: only paths that no song outside it holds (`Updates`). `Walk`, `ReadsAll` and
`Seen` say how far a scan is. `Paging` says that the songs looked at and kept
are the first ones of those not updated, as many as the offset says
(`PageTurns`): deleting during paging skips none. From them follow
`SongIdentityTypeCorrect`, `ListsOnlyFilesHolds`, `ListsEveryFileHolds`,
`KeepsSongHolds`, `UpToDateHolds` and `FailsOnTakenPathHolds`. The attempt to
prove it corrected the properties: with two changes of the files the exception
`twins` could be defined by copies alone, but after scans that were rolled
back a file may carry a tag that names no song and lose its song to another one
without any copy. `twins` now records what a batch does, and copies that harm nobody
are no longer excepted.

Checked by TLC only: liveness (`ScanEnds`, `WritableReleased`,
`IncompleteResolves`, `OwedIsSubmitted`, `Converges`; fairness and ENABLED are
beyond the proof system used here).

## Not modelled

* Log-in and its failure counter: checks of one request against one row; the
  counter is a list under a lock, read and extended in two critical sections.
* Artist images, lyrics, tag reading, the last.fm client, transcoding itself:
  input and output without state of their own.
* Recaps, internet radio, system endpoints, responses and query parsing: one
  statement or none, formatted.
* Configuration parsing, most admin commands, start-up and shutdown: sequential
  code that runs once. What an exit leaves behind is modelled in the store and in
  `Scrobbles`.
* Mock repositories: test doubles.

Within the modelled parts: the listing of cache keys and the encoding of keys in
file names; log lines, progress counters; the clearing of the cover cache by a
full scan (an action of the store, not of the pipeline); a second scan started
while goroutines of a failed first one are left; new playlists, their names and
covers; the content of files, songs and covers; the payload of listens; the paging of
collected loves (one read here); songs deleted by a scan while feedback is synchronised;
renaming users; the needs-full-scan flag; disc titles, replay gain and other
columns no property tells apart; order, pages and year filters of lists. The
now-playing list and `GetTracks` do not ask for folders at all, genre
counts are over all folders, and "only album artists" counts albums of all
folders; none of the properties is about these numbers.
