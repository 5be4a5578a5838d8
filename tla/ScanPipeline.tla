---------------------------- MODULE ScanPipeline ----------------------------
(***************************************************************************)
(* The goroutines of one Scanner.Scan (scanner/scan.go, song_queue.go,     *)
(* cover.go) from the moment its channels exist:                           *)
(*                                                                         *)
(*   main      walks the music directories, waits for the others, cleans   *)
(*             up and commits, or rolls back;                              *)
(*   workers   read the files of a directory (scanMediaFilesInDir);        *)
(*   save      collects files in batches and writes them to the database   *)
(*             (runSaveSongsLoop);                                         *)
(*   taggers   write song ids into files;                                  *)
(*   coverers  store album covers (runSetAlbumCoverLoop).                  *)
(*                                                                         *)
(* Channels are bounded and, once closed, panic on a send.  Directories    *)
(* and files are counted, their content does not matter here.  The flags   *)
(* songQueueClosed and setAlbumCoverClosed are shared without a lock, so   *)
(* reading one and acting on it are two steps.                             *)
(***************************************************************************)
EXTENDS Integers, FiniteSets

CONSTANTS Workers,     \* the maxParallelDirs goroutines of scanMediaDirs
          Dirs,        \* directories in the library
          Files,       \* files per directory
          Batch,       \* songQueueBatchSize, also the capacity of songQueue
          CoverWorkers,\* setAlbumCoversWorkerCount, also the capacity of setAlbumCover
          TagWorkers,  \* updateSongFilesWorkerCount, also the capacity of updateSongFiles
          Failures     \* the kinds of failures that may happen

ASSUME PipelineAssumption ==
    /\ IsFiniteSet(Workers)
    /\ Workers # {}
    /\ Dirs \in Nat
    /\ Files \in Nat
    /\ {Batch, CoverWorkers, TagWorkers} \subseteq Nat \ {0}
    /\ Failures \subseteq {"walk", "file", "save", "tag", "cover", "finish"}

VARIABLES
    main,      \* pc; err: what scanMediaDirs or a later step returned; committed
    dirs,      \* the channel; left: directories still to be walked; err: scanDirError
    worker,    \* worker[w]: pc; files: files left in its directory
    queue,     \* songQueue; flag: songQueueClosed
    save,      \* pc; batch: files collected; todo: those of them a loop has yet to
               \* visit; last: no more to come; err; done: what is in saveSongsDone
    tags,      \* updateSongFiles; idle, busy: its workers; err: updateSongFilesErr
    cover,     \* setAlbumCover; flag: setAlbumCoverClosed; workers; err; done
    tally,     \* saved: files in the database; skipped: files that need no saving
    ctx,       \* "live" or "cancelled"
    tx,        \* Scanner.tx, .albums and .artists: "set" or "nil"
    panic      \* "no", or what a goroutine died of, and the server with it

vars == <<main, dirs, worker, queue, save, tags, cover, tally, ctx, tx, panic>>

Init ==
    /\ main = [pc |-> "walk", err |-> "no", committed |-> FALSE]
    /\ dirs = [len |-> 0, closed |-> FALSE, left |-> Dirs, err |-> "no"]
    /\ worker = [w \in Workers |-> [pc |-> "recv", files |-> 0]]
    /\ queue = [len |-> 0, closed |-> FALSE, flag |-> FALSE]
    /\ save = [pc |-> "recv", batch |-> 0, todo |-> 0, last |-> FALSE,
               err |-> "no", done |-> "none"]
    /\ tags = [len |-> 0, closed |-> FALSE, idle |-> TagWorkers, busy |-> 0, err |-> "no"]
    /\ cover = [len |-> 0, closed |-> FALSE, flag |-> FALSE, pc |-> "start",
                workers |-> CoverWorkers, err |-> "no", done |-> "none"]
    /\ tally = [saved |-> 0, skipped |-> 0]
    /\ ctx = "live"
    /\ tx = "set"
    /\ panic = "no"

Alive == panic = "no"
Dies(why) == panic' = why

-----------------------------------------------------------------------------
(* main: scanMediaDirs *)

\* The walk function looks at ctx and scanDirError, then sends: SkipAll or on.
WalkCheck ==
    /\ main.pc = "walk"
    /\ dirs.left > 0
    /\ IF ctx = "cancelled" \/ dirs.err # "no"
       THEN dirs' = [dirs EXCEPT !.left = 0] /\ UNCHANGED main
       ELSE main' = [main EXCEPT !.pc = "send"] /\ UNCHANGED dirs
    /\ UNCHANGED <<worker, queue, save, tags, cover, tally, ctx, tx, panic>>

WalkSend ==
    /\ main.pc = "send"
    /\ dirs.len < Cardinality(Workers)
    /\ dirs' = [dirs EXCEPT !.len = @ + 1, !.left = @ - 1]
    /\ main' = [main EXCEPT !.pc = "walk"]
    /\ UNCHANGED <<worker, queue, save, tags, cover, tally, ctx, tx, panic>>

\* os.Lstat or os.ReadDir fails: scanMediaDirs returns, its workers go on.
WalkFails ==
    /\ main.pc = "walk"
    /\ "walk" \in Failures
    /\ dirs' = [dirs EXCEPT !.closed = TRUE]
    /\ main' = [main EXCEPT !.pc = "closequeue", !.err = "failed"]
    /\ UNCHANGED <<worker, queue, save, tags, cover, tally, ctx, tx, panic>>

WalkDone ==
    /\ main.pc = "walk"
    /\ dirs.left = 0
    /\ dirs' = [dirs EXCEPT !.closed = TRUE]
    /\ main' = [main EXCEPT !.pc = "wait"]
    /\ UNCHANGED <<worker, queue, save, tags, cover, tally, ctx, tx, panic>>

\* Mutant: waitGroup.Wait is missing.
AwaitNobody ==
    /\ main.pc = "wait"
    /\ main' = [main EXCEPT !.pc = "closequeue", !.err = dirs.err]
    /\ UNCHANGED <<dirs, worker, queue, save, tags, cover, tally, ctx, tx, panic>>

AwaitWorkers ==
    /\ main.pc = "wait"
    /\ \A w \in Workers : worker[w].pc = "gone"
    /\ main' = [main EXCEPT !.pc = "closequeue", !.err = dirs.err]
    /\ UNCHANGED <<dirs, worker, queue, save, tags, cover, tally, ctx, tx, panic>>

-----------------------------------------------------------------------------
(* main: the rest of Scan *)

CloseQueue ==
    /\ main.pc = "closequeue"
    /\ queue' = [queue EXCEPT !.closed = TRUE]
    /\ main' = [main EXCEPT !.pc = "flagqueue"]
    /\ UNCHANGED <<dirs, worker, save, tags, cover, tally, ctx, tx, panic>>

\* A cancelled walk is not an error yet: what cancelled it is.
FlagQueue ==
    /\ main.pc = "flagqueue"
    /\ queue' = [queue EXCEPT !.flag = TRUE]
    /\ main' = [main EXCEPT !.pc = IF main.err = "failed" THEN "rollback" ELSE "awaitsave"]
    /\ UNCHANGED <<dirs, worker, save, tags, cover, tally, ctx, tx, panic>>

AwaitSave ==
    /\ main.pc = "awaitsave"
    /\ save.done # "none"
    /\ main' = [main EXCEPT !.pc = IF save.done = "no" THEN "awaitcover" ELSE "rollback",
                            !.err = save.done]
    /\ UNCHANGED <<dirs, worker, queue, save, tags, cover, tally, ctx, tx, panic>>

\* Mutant: Scan goes on without the covers.
AwaitNoCover ==
    /\ main.pc = "awaitcover"
    /\ main' = [main EXCEPT !.pc = "finish"]
    /\ UNCHANGED <<dirs, worker, queue, save, tags, cover, tally, ctx, tx, panic>>

AwaitCover ==
    /\ main.pc = "awaitcover"
    /\ cover.done # "none"
    /\ main' = [main EXCEPT !.pc = IF cover.done = "no" THEN "finish" ELSE "rollback",
                            !.err = cover.done]
    /\ UNCHANGED <<dirs, worker, queue, save, tags, cover, tally, ctx, tx, panic>>

\* Album artists, orphans, playlists, scrobbles, artist images, Commit.
Finish ==
    /\ main.pc = "finish"
    /\ \/ /\ ctx = "live"
          /\ main' = [main EXCEPT !.pc = "rollback", !.committed = TRUE]
       \/ /\ ctx = "cancelled" \/ "finish" \in Failures
          /\ main' = [main EXCEPT !.pc = "rollback", !.err = "failed"]
    /\ UNCHANGED <<dirs, worker, queue, save, tags, cover, tally, ctx, tx, panic>>

\* The deferred functions: Rollback (nothing after a Commit), s.tx = nil and
\* cancelCtx; then a look at setAlbumCoverClosed.
DeferRollback ==
    /\ main.pc = "rollback"
    /\ tx' = "nil"
    /\ ctx' = "cancelled"
    /\ main' = [main EXCEPT !.pc = "check"]
    /\ UNCHANGED <<dirs, worker, queue, save, tags, cover, tally, panic>>

DeferCheck ==
    /\ main.pc = "check"
    /\ main' = [main EXCEPT !.pc = IF cover.flag THEN "returned" ELSE "closecover"]
    /\ UNCHANGED <<dirs, worker, queue, save, tags, cover, tally, ctx, tx, panic>>

\* close(s.setAlbumCover) by someone who found setAlbumCoverClosed unset.
CloseCover ==
    IF cover.closed THEN Dies("cover closed twice") /\ UNCHANGED cover
    ELSE cover' = [cover EXCEPT !.flag = TRUE, !.closed = TRUE] /\ UNCHANGED panic

DeferCloseCover ==
    /\ main.pc = "closecover"
    /\ CloseCover
    /\ main' = [main EXCEPT !.pc = "returned"]
    /\ UNCHANGED <<dirs, worker, queue, save, tags, tally, ctx, tx>>

-----------------------------------------------------------------------------
(* The directory workers *)

WorkerReceives(w) ==
    /\ worker[w].pc = "recv"
    /\ \/ /\ dirs.len > 0
          /\ dirs' = [dirs EXCEPT !.len = @ - 1]
          /\ worker' = [worker EXCEPT ![w] = [pc |-> "file", files |-> Files]]
       \/ /\ dirs.len = 0
          /\ dirs.closed
          /\ worker' = [worker EXCEPT ![w].pc = "gone"]
          /\ UNCHANGED dirs
    /\ UNCHANGED <<main, queue, save, tags, cover, tally, ctx, tx, panic>>

WorkerDirDone(w) ==
    /\ worker[w].pc = "file"
    /\ worker[w].files = 0
    /\ worker' = [worker EXCEPT ![w].pc = "recv"]
    /\ UNCHANGED <<main, dirs, queue, save, tags, cover, tally, ctx, tx, panic>>

\* Mutant: the error is logged and forgotten.
WorkerForgets(w, e) ==
    /\ worker' = [worker EXCEPT ![w] = [pc |-> "gone", files |-> 0]]
    /\ UNCHANGED dirs

\* The first error is kept; the worker is gone.
WorkerGivesUp(w, e) ==
    /\ dirs' = [dirs EXCEPT !.err = IF @ = "no" THEN e ELSE @]
    /\ worker' = [worker EXCEPT ![w] = [pc |-> "gone", files |-> 0]]

\* The directory cannot be listed, or a file cannot be read.
WorkerFails(w) ==
    /\ worker[w].pc = "file"
    /\ "file" \in Failures
    /\ WorkerGivesUp(w, "failed")
    /\ UNCHANGED <<main, queue, save, tags, cover, tally, ctx, tx, panic>>

\* The next file: not a media file or unchanged, or one to save.
WorkerFile(w) ==
    /\ worker[w].pc = "file"
    /\ worker[w].files > 0
    /\ \/ /\ ctx = "cancelled"
          /\ WorkerGivesUp(w, "cancelled")
          /\ UNCHANGED tally
       \/ /\ ctx = "live"
          /\ worker' = [worker EXCEPT ![w].files = @ - 1]
          /\ tally' = [tally EXCEPT !.skipped = @ + 1]
          /\ UNCHANGED dirs
       \/ /\ ctx = "live"
          /\ worker' = [worker EXCEPT ![w] =
                          [pc |-> IF queue.flag THEN "file" ELSE "put", files |-> @.files - 1]]
          /\ UNCHANGED <<dirs, tally>>
    /\ UNCHANGED <<main, queue, save, tags, cover, ctx, tx, panic>>

\* s.songQueue <- file, which does not look at ctx.
WorkerPuts(w) ==
    /\ worker[w].pc = "put"
    /\ \/ /\ queue.closed
          /\ Dies("send on closed songQueue")
          /\ UNCHANGED <<worker, queue>>
       \/ /\ ~queue.closed
          /\ queue.len < Batch
          /\ queue' = [queue EXCEPT !.len = @ + 1]
          /\ worker' = [worker EXCEPT ![w].pc = "file"]
          /\ UNCHANGED panic
    /\ UNCHANGED <<main, dirs, save, tags, cover, tally, ctx, tx>>

-----------------------------------------------------------------------------
(* runSaveSongsLoop and the goroutine around it *)

\* createOrUpdateSongs is called with n songs.
Storing(n) == [save EXCEPT !.pc = "store", !.batch = n, !.todo = n]

SaveReceives ==
    /\ save.pc = "recv"
    /\ queue.len > 0
    /\ queue' = [queue EXCEPT !.len = @ - 1]
    /\ save' = CASE tags.err # "no" -> [save EXCEPT !.pc = "closetags"]
                 [] tags.err = "no" /\ save.batch + 1 = Batch -> Storing(Batch)
                 [] OTHER -> [save EXCEPT !.batch = @ + 1]
    /\ UNCHANGED <<main, dirs, worker, tags, cover, tally, ctx, tx, panic>>

\* The queue is closed and empty: the rest is saved, however little it is.
SaveDrained ==
    /\ save.pc = "recv"
    /\ queue.len = 0
    /\ queue.closed
    /\ save' = IF tags.err = "no" THEN [Storing(save.batch) EXCEPT !.last = TRUE]
               ELSE [save EXCEPT !.pc = "closetags"]
    /\ UNCHANGED <<main, dirs, worker, queue, tags, cover, tally, ctx, tx, panic>>

\* createOrUpdateSongs returns an error; updateSongFiles stays open.
SaveFails ==
    /\ save.pc \in {"store", "link"}
    /\ tx = "set"
    /\ ctx = "cancelled" \/ "save" \in Failures
    /\ save' = [save EXCEPT !.pc = "post", !.err = "failed"]
    /\ UNCHANGED <<main, dirs, worker, queue, tags, cover, tally, ctx, tx, panic>>

\* s.tx, s.albums or s.artists is used after Scan has set it to nil.
SaveDies ==
    /\ save.pc \in {"store", "link"}
    /\ tx = "nil"
    /\ Dies("scan state is gone")
    /\ UNCHANGED <<main, dirs, worker, queue, save, tags, cover, tally, ctx, tx>>

\* A song finds or creates its artists and its album, whose cover is to be set
\* when the scan has not met the album yet.
SaveSong ==
    /\ save.pc = "store"
    /\ save.todo > 0
    /\ \/ save' = [save EXCEPT !.todo = @ - 1]
       \/ /\ ~cover.flag
          /\ save' = [save EXCEPT !.pc = "cover"]
    /\ UNCHANGED <<main, dirs, worker, queue, tags, cover, tally, ctx, tx, panic>>

\* s.setAlbumCover <- albumCover
SaveSendsCover ==
    /\ save.pc = "cover"
    /\ \/ /\ cover.closed
          /\ Dies("send on closed setAlbumCover")
          /\ UNCHANGED <<save, cover>>
       \/ /\ ~cover.closed
          /\ cover.len < CoverWorkers
          /\ cover' = [cover EXCEPT !.len = @ + 1]
          /\ save' = [save EXCEPT !.pc = "store", !.todo = @ - 1]
          /\ UNCHANGED panic
    /\ UNCHANGED <<main, dirs, worker, queue, tags, tally, ctx, tx>>

\* updateSongs and createSongs; a cancelled context is sure to fail them,
\* unless there is no song.
SaveWrites ==
    /\ save.pc = "store"
    /\ save.todo = 0
    /\ tx = "set"
    /\ ctx = "live" \/ save.batch = 0
    /\ save' = [save EXCEPT !.pc = "tag", !.todo = save.batch]
    /\ UNCHANGED <<main, dirs, worker, queue, tags, cover, tally, ctx, tx, panic>>

\* A song whose file does not have its id yet: updateSongFiles <- song.
SaveTags ==
    /\ save.pc = "tag"
    /\ save.todo > 0
    /\ \/ UNCHANGED tags
       \/ /\ tags.len < TagWorkers
          /\ tags' = [tags EXCEPT !.len = @ + 1]
    /\ save' = [save EXCEPT !.todo = @ - 1]
    /\ UNCHANGED <<main, dirs, worker, queue, cover, tally, ctx, tx, panic>>

SaveTagged ==
    /\ save.pc = "tag"
    /\ save.todo = 0
    /\ save' = [save EXCEPT !.pc = "link"]
    /\ UNCHANGED <<main, dirs, worker, queue, tags, cover, tally, ctx, tx, panic>>

\* Mutant: songs = songs[:0] is missing.
SaveLinksKeeps ==
    /\ save.pc = "link"
    /\ tally' = [tally EXCEPT !.saved = @ + save.batch]
    /\ save' = [save EXCEPT !.pc = IF save.last THEN "closetags" ELSE "recv"]
    /\ UNCHANGED <<main, dirs, worker, queue, tags, cover, ctx, tx, panic>>

\* The artists and genres of the changed songs, if there are any.
SaveLinks ==
    /\ save.pc = "link"
    /\ tally' = [tally EXCEPT !.saved = @ + save.batch]
    /\ save' = [save EXCEPT !.batch = 0, !.pc = IF save.last THEN "closetags" ELSE "recv"]
    /\ UNCHANGED <<main, dirs, worker, queue, tags, cover, ctx, tx, panic>>

\* close(updateSongFiles), wait for its workers, return updateSongFilesErr.
SaveEnds ==
    /\ save.pc = "closetags"
    /\ tags.closed => tags.idle + tags.busy = 0
    /\ IF tags.closed THEN save' = [save EXCEPT !.pc = "post", !.err = tags.err] /\ UNCHANGED tags
       ELSE tags' = [tags EXCEPT !.closed = TRUE] /\ UNCHANGED save
    /\ UNCHANGED <<main, dirs, worker, queue, cover, tally, ctx, tx, panic>>

\* saveSongsDone <- err, and a look at setAlbumCoverClosed.
SavePosts ==
    /\ save.pc = "post"
    /\ save' = [save EXCEPT !.done = save.err, !.pc = "check"]
    /\ UNCHANGED <<main, dirs, worker, queue, tags, cover, tally, ctx, tx, panic>>

\* Mutant: the save loop leaves setAlbumCover open.
SaveLeavesOpen ==
    /\ save.pc = "check"
    /\ save' = [save EXCEPT !.pc = "cancel"]
    /\ UNCHANGED <<main, dirs, worker, queue, tags, cover, tally, ctx, tx, panic>>

SaveChecks ==
    /\ save.pc = "check"
    /\ save' = [save EXCEPT !.pc = IF cover.flag THEN "cancel" ELSE "close"]
    /\ UNCHANGED <<main, dirs, worker, queue, tags, cover, tally, ctx, tx, panic>>

SaveClosesCover ==
    /\ save.pc = "close"
    /\ CloseCover
    /\ save' = [save EXCEPT !.pc = "cancel"]
    /\ UNCHANGED <<main, dirs, worker, queue, tags, tally, ctx, tx>>

SaveCancels ==
    /\ save.pc = "cancel"
    /\ ctx' = IF save.err = "no" THEN ctx ELSE "cancelled"
    /\ save' = [save EXCEPT !.pc = "gone"]
    /\ UNCHANGED <<main, dirs, worker, queue, tags, cover, tally, tx, panic>>

-----------------------------------------------------------------------------
(* The goroutines that write ids into files *)

\* One of them takes a song, has written its id, fails and is gone, or finds no
\* more to do.
TaggerStep ==
    /\ Alive
    /\ \/ /\ tags.idle > 0 /\ tags.len > 0
          /\ tags' = [tags EXCEPT !.len = @ - 1, !.idle = @ - 1, !.busy = @ + 1]
       \/ /\ tags.busy > 0
          /\ tags' = [tags EXCEPT !.busy = @ - 1, !.idle = @ + 1]
       \/ /\ tags.busy > 0
          /\ "tag" \in Failures
          /\ tags' = [tags EXCEPT !.busy = @ - 1, !.err = "failed"]
       \/ /\ tags.idle > 0 /\ tags.len = 0 /\ tags.closed
          /\ tags' = [tags EXCEPT !.idle = @ - 1]
    /\ UNCHANGED <<main, dirs, worker, queue, save, cover, tally, ctx, tx, panic>>

-----------------------------------------------------------------------------
(* runSetAlbumCoverLoop and the goroutine around it *)

\* createCoverDir
CovererStarts ==
    /\ cover.pc = "start"
    /\ \/ cover' = [cover EXCEPT !.pc = "work"]
       \/ /\ "cover" \in Failures
          /\ cover' = [cover EXCEPT !.pc = "check", !.workers = 0, !.err = "failed"]
    /\ UNCHANGED <<main, dirs, worker, queue, save, tags, tally, ctx, tx, panic>>

\* One worker receives an album: it returns when there is an error or ctx is
\* cancelled, or stores the cover, or fails; or there are no more.
CovererStep ==
    /\ cover.pc = "work"
    /\ cover.workers > 0
    /\ \/ /\ cover.len > 0
          /\ ctx = "cancelled" \/ cover.err # "no"
          /\ cover' = [cover EXCEPT !.len = @ - 1, !.workers = @ - 1]
       \/ /\ cover.len > 0
          /\ ctx = "live" /\ cover.err = "no"
          /\ cover' = [cover EXCEPT !.len = @ - 1]
       \/ /\ cover.len > 0
          /\ ctx = "live" /\ cover.err = "no"
          /\ "cover" \in Failures
          /\ cover' = [cover EXCEPT !.len = @ - 1, !.workers = @ - 1, !.err = "failed"]
       \/ /\ cover.len = 0
          /\ cover.closed
          /\ cover' = [cover EXCEPT !.workers = @ - 1]
    /\ UNCHANGED <<main, dirs, worker, queue, save, tags, tally, ctx, tx, panic>>

CovererReturns ==
    /\ cover.pc = "work"
    /\ cover.workers = 0
    /\ cover' = [cover EXCEPT !.pc = "check"]
    /\ UNCHANGED <<main, dirs, worker, queue, save, tags, tally, ctx, tx, panic>>

CovererChecks ==
    /\ cover.pc = "check"
    /\ cover' = [cover EXCEPT !.pc = IF cover.flag THEN "post" ELSE "close"]
    /\ UNCHANGED <<main, dirs, worker, queue, save, tags, tally, ctx, tx, panic>>

CovererCloses ==
    /\ cover.pc = "close"
    /\ IF cover.closed THEN Dies("cover closed twice") /\ UNCHANGED cover
       ELSE /\ cover' = [cover EXCEPT !.flag = TRUE, !.closed = TRUE, !.pc = "post"]
            /\ UNCHANGED panic
    /\ UNCHANGED <<main, dirs, worker, queue, save, tags, tally, ctx, tx>>

\* setAlbumCovers <- err, then cancelCtx.
CovererPosts ==
    /\ cover.pc = "post"
    /\ cover' = [cover EXCEPT !.done = cover.err, !.pc = "cancel"]
    /\ UNCHANGED <<main, dirs, worker, queue, save, tags, tally, ctx, tx, panic>>

CovererCancels ==
    /\ cover.pc = "cancel"
    /\ ctx' = IF cover.err = "no" THEN ctx ELSE "cancelled"
    /\ cover' = [cover EXCEPT !.pc = "gone"]
    /\ UNCHANGED <<main, dirs, worker, queue, save, tags, tally, tx, panic>>

-----------------------------------------------------------------------------

MainStep ==
    /\ Alive
    /\ \/ WalkCheck \/ WalkSend \/ WalkFails \/ WalkDone \/ AwaitWorkers
       \/ CloseQueue \/ FlagQueue \/ AwaitSave \/ AwaitCover \/ Finish
       \/ DeferRollback \/ DeferCheck \/ DeferCloseCover

WorkerStep(w) ==
    /\ Alive
    /\ \/ WorkerReceives(w) \/ WorkerDirDone(w) \/ WorkerFails(w)
       \/ WorkerFile(w) \/ WorkerPuts(w)

SaveStep ==
    /\ Alive
    /\ \/ SaveReceives \/ SaveDrained \/ SaveFails \/ SaveDies \/ SaveSong
       \/ SaveSendsCover \/ SaveWrites \/ SaveTags \/ SaveTagged \/ SaveLinks
       \/ SaveEnds \/ SavePosts \/ SaveChecks \/ SaveClosesCover \/ SaveCancels

CoverStep ==
    /\ Alive
    /\ \/ CovererStarts \/ CovererStep \/ CovererReturns \/ CovererChecks
       \/ CovererCloses \/ CovererPosts \/ CovererCancels

Next ==
    MainStep \/ SaveStep \/ TaggerStep \/ CoverStep \/ \E w \in Workers : WorkerStep(w)

Spec == Init /\ [][Next]_vars

\* The Go scheduler runs every goroutine that can run.
Fairness ==
    /\ WF_vars(MainStep)
    /\ WF_vars(SaveStep)
    /\ WF_vars(TaggerStep)
    /\ WF_vars(CoverStep)
    /\ \A w \in Workers : WF_vars(WorkerStep(w))

FairSpec == Spec /\ Fairness

-----------------------------------------------------------------------------
(* Properties *)

Errors == {"no", "cancelled", "failed"}

Walking == {"walk", "send", "wait"}
Returning == {"check", "closecover", "returned"}      \* after DeferRollback
Looping == {"recv", "store", "cover", "tag", "link"}  \* inside runSaveSongsLoop
Saved == {"check", "close", "cancel", "gone"}         \* after SavePosts

MainType ==
    [pc : Walking \cup Returning \cup
          {"closequeue", "flagqueue", "awaitsave", "awaitcover", "finish", "rollback"},
     err : Errors, committed : BOOLEAN]
DirsType == [len : Int, closed : BOOLEAN, left : Int, err : Errors]
WorkerType == [pc : {"recv", "file", "put", "gone"}, files : Int]
QueueType == [len : Int, closed : BOOLEAN, flag : BOOLEAN]
SaveType ==
    [pc : Looping \cup Saved \cup {"closetags", "post"}, batch : Int, todo : Int,
     last : BOOLEAN, err : Errors, done : Errors \cup {"none"}]
TagsType == [len : Int, closed : BOOLEAN, idle : Nat, busy : Nat, err : Errors]
CoverType ==
    [len : Int, closed : BOOLEAN, flag : BOOLEAN, workers : Nat, err : Errors,
     pc : {"start", "work", "check", "close", "post", "cancel", "gone"},
     done : Errors \cup {"none"}]
TallyType == [saved : Int, skipped : Int]
PanicType == {"no", "send on closed songQueue", "scan state is gone",
              "send on closed setAlbumCover", "cover closed twice"}

Shape ==
    /\ main \in MainType
    /\ dirs \in DirsType
    /\ worker \in [Workers -> WorkerType]
    /\ queue \in QueueType
    /\ save \in SaveType
    /\ tags \in TagsType
    /\ cover \in CoverType
    /\ tally \in TallyType
    /\ ctx \in {"live", "cancelled"}
    /\ tx \in {"set", "nil"}
    /\ panic \in PanicType

\* Every variable has its shape, channels hold no more than their capacity, a batch
\* no more than Batch files, and no file is counted twice.
TypeOK ==
    /\ Shape
    /\ dirs.len \in 0 .. Cardinality(Workers) /\ dirs.left \in 0 .. Dirs
    /\ \A w \in Workers : worker[w].files \in 0 .. Files
    /\ queue.len \in 0 .. Batch
    /\ save.batch \in 0 .. Batch /\ save.todo \in 0 .. save.batch
    /\ cover.len \in 0 .. CoverWorkers /\ cover.workers <= CoverWorkers
    /\ tags.len \in 0 .. TagWorkers /\ tags.idle + tags.busy <= TagWorkers
    /\ tally.saved + tally.skipped \in 0 .. Dirs * Files

(***************************************************************************)
(* A scan commits only after every file of every directory was skipped as  *)
(* unchanged or saved.  Otherwise the clean-up before the commit, which    *)
(* deletes the songs the scan has not seen, would delete songs that exist. *)
(***************************************************************************)
CommitsWhole ==
    main.committed => /\ tally.saved + tally.skipped = Dirs * Files
                      /\ tags.err = "no"
                      /\ cover.err = "no"

(***************************************************************************)
(* A scan that commits has outlived its goroutines: nobody is left who     *)
(* could touch its channels, its transaction or its maps, which the next   *)
(* scan replaces, and nobody has panicked.                                 *)
(***************************************************************************)
CommitsLast ==
    main.committed => /\ Alive
                      /\ \A w \in Workers : worker[w].pc = "gone"
                      /\ save.pc \in {"cancel", "gone"}
                      /\ tags.idle + tags.busy = 0
                      /\ cover.pc \in {"cancel", "gone"}
                      /\ <<queue.len, cover.len, tags.len>> = <<0, 0, 0>>

(***************************************************************************)
(* Why CommitsLast holds: who has stopped tells what the others found.     *)
(***************************************************************************)
AllGone == \A w \in Workers : worker[w].pc = "gone"

\* Scan waits for its workers before it waits for anybody else.
MainFacts ==
    /\ main.pc \in {"awaitsave", "awaitcover", "finish"} => AllGone
    /\ main.pc \in {"closequeue", "flagqueue"} /\ main.err # "failed" => AllGone
    /\ main.pc \in {"awaitcover", "finish"} => save.done = "no"
    /\ main.pc = "finish" => cover.done = "no"
    /\ main.committed => main.pc \in {"rollback", "check", "returned"}

\* A save loop that reports no error has drained the queue and seen its writers off.
SaveFacts ==
    /\ save.done = IF save.pc \in Saved THEN save.err ELSE "none"
    /\ save.pc \in Looping \cup {"closetags"} => save.err = "no"
    /\ save.last => queue.closed /\ queue.len = 0
    /\ save.pc = "closetags" /\ tags.err = "no" => save.last
    /\ save.pc \in Saved \cup {"post"} /\ save.err = "no" =>
          tags.err = "no" /\ tags.idle + tags.busy = 0 /\ tags.len = 0 /\ save.last

TagFacts ==
    /\ tags.closed => save.pc \notin Looping
    /\ tags.err = "no" /\ tags.idle + tags.busy # TagWorkers => tags.closed /\ tags.len = 0

\* Nothing has cancelled the scan, and nothing is about to.
Unharmed == save.err = "no" /\ cover.err = "no" /\ main.pc \notin Returning

\* In a scan that goes well the coverers stop last, at the save loop's close.
CoverFacts ==
    /\ cover.done = IF cover.pc \in {"cancel", "gone"} THEN cover.err ELSE "none"
    /\ cover.flag = cover.closed
    /\ cover.pc \notin {"start", "work"} => cover.workers = 0
    /\ Unharmed => /\ ctx = "live"
                   /\ cover.pc # "close"
                   /\ cover.workers # CoverWorkers => cover.closed /\ cover.len = 0
                   /\ cover.closed => save.pc \in {"cancel", "gone"}
    /\ main.committed => cover.flag

CommitInv ==
    Shape /\ MainFacts /\ SaveFacts /\ TagFacts /\ CoverFacts /\ CommitsLast

(***************************************************************************)
(* The ways a scan can hang after a failure: the walk sends a directory to *)
(* workers that are gone; a worker sends a file to a save loop that is     *)
(* gone; the save loop sends a song to id writers that are gone.           *)
(***************************************************************************)
WalkHangs ==
    main.pc = "send" /\ dirs.len = Cardinality(Workers) /\ AllGone

WorkerHangs ==
    /\ queue.len = Batch /\ ~queue.closed
    /\ save.pc \notin Looping
    /\ \E w \in Workers : worker[w].pc = "put"

SaveHangs == save.pc = "tag" /\ tags.idle + tags.busy = 0 /\ tags.len = TagWorkers

Failed == "failed" \in {main.err, dirs.err, save.err, tags.err, cover.err}

(***************************************************************************)
(* Scan returns if nothing fails.  If something does, in the end it has    *)
(* returned, or the server is dead of a panic, or the scan hangs for good  *)
(* in one of these three ways, holding the lock that makes later scans     *)
(* fail; there is no other outcome.                                        *)
(***************************************************************************)
ScanEnds ==
    <>[](\/ main.pc = "returned"
         \/ Failed /\ (~Alive \/ WalkHangs \/ WorkerHangs \/ SaveHangs))

(***************************************************************************)
(* What each panic takes.  A send to the closed songQueue: the walk failed *)
(* and Scan did not wait for its workers.  A use of the scan's state after *)
(* its end: walking or reading failed and Scan did not wait for the save   *)
(* loop.  A send to the closed setAlbumCover: a cover failed, or Scan is   *)
(* returning early.  A second close of it: any of these, or a failed save. *)
(* A scan in which nothing fails therefore never brings the server down.   *)
(***************************************************************************)
PanicsExplained ==
    /\ panic = "send on closed songQueue" =>
          main.err = "failed" /\ \E w \in Workers : worker[w].pc # "gone"
    /\ panic = "scan state is gone" => main.err = "failed" /\ save.done = "none"
    /\ panic = "send on closed setAlbumCover" => "failed" \in {cover.err, main.err}
    /\ panic = "cover closed twice" => "failed" \in {save.err, cover.err, main.err}

=============================================================================
