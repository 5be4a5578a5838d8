-------------------------- MODULE ScanPipelineProofs --------------------------
(***************************************************************************)
(* The scan pipeline for any number of workers, directories, files, batch  *)
(* and channel sizes and any set of failures.                              *)
(*                                                                         *)
(* CommitsLast: when Scan commits, every goroutine it started is done; the *)
(* inductive invariant is CommitInv of ScanPipeline.  First come the steps *)
(* that write several fields of a record at once, each reduced to what     *)
(* becomes of every field; then Shape and the facts, one step per action.  *)
(* PanicsExplained: a panic has the causes the definition lists.           *)
(* CommitsWhole: the committed counters are those of the whole library.    *)
(* Conserved is the argument: while nothing has failed, every file is at   *)
(* one place, so what is done, what the workers hold, what the channels    *)
(* hold and what is still to be walked add up to Dirs * Files.             *)
(***************************************************************************)
EXTENDS ScanPipeline, FiniteSetTheorems, TLAPS

\* What a goroutine that writes ids does to updateSongFiles and to the number of
\* those left.
LEMMA TaggerSteps ==
    ASSUME tags \in TagsType, TaggerStep
    PROVE  /\ tags' \in TagsType
           /\ tags'.closed = tags.closed
           /\ \/ /\ tags.len > 0
                 /\ tags'.len = tags.len - 1 /\ tags'.err = tags.err
                 /\ tags'.idle + tags'.busy = tags.idle + tags.busy
              \/ /\ tags'.len = tags.len /\ tags'.err = tags.err
                 /\ tags'.idle + tags'.busy = tags.idle + tags.busy
              \/ /\ tags'.len = tags.len /\ tags'.err = "failed"
                 /\ tags'.idle + tags'.busy = tags.idle + tags.busy - 1
              \/ /\ tags.len = 0 /\ tags.closed
                 /\ tags'.len = tags.len /\ tags'.err = tags.err
                 /\ tags'.idle + tags'.busy = tags.idle + tags.busy - 1
<1>1. tags.len \in Int /\ tags.idle \in Nat /\ tags.busy \in Nat
  BY DEF TagsType
<1>2. CASE /\ tags.idle > 0 /\ tags.len > 0
           /\ tags' = [tags EXCEPT !.len = tags.len - 1, !.idle = tags.idle - 1,
                                   !.busy = tags.busy + 1]
  <2>0. PICK l \in Int, i \in Nat, b \in Nat :
          l = tags.len - 1 /\ i = tags.idle - 1 /\ b = tags.busy + 1
    BY <1>1, <1>2
  <2>1. tags' = [tags EXCEPT !.len = l, !.idle = i, !.busy = b]
    BY <1>2, <2>0, Zenon
  <2>2. /\ tags' \in TagsType /\ tags'.len = l /\ tags'.closed = tags.closed
        /\ tags'.idle = i /\ tags'.busy = b /\ tags'.err = tags.err
    BY <2>1 DEF TagsType
  <2> QED BY <1>1, <1>2, <2>0, <2>2
<1>3. CASE tags.busy > 0 /\ tags' = [tags EXCEPT !.busy = tags.busy - 1, !.idle = tags.idle + 1]
  <2>0. PICK i \in Nat, b \in Nat : i = tags.idle + 1 /\ b = tags.busy - 1
    BY <1>1, <1>3
  <2>1. tags' = [tags EXCEPT !.busy = b, !.idle = i]
    BY <1>3, <2>0, Zenon
  <2>2. /\ tags' \in TagsType /\ tags'.len = tags.len /\ tags'.closed = tags.closed
        /\ tags'.idle = i /\ tags'.busy = b /\ tags'.err = tags.err
    BY <2>1 DEF TagsType
  <2> QED BY <1>1, <1>3, <2>0, <2>2
<1>4. CASE tags.busy > 0 /\ tags' = [tags EXCEPT !.busy = tags.busy - 1, !.err = "failed"]
  <2>0. PICK b \in Nat : b = tags.busy - 1
    BY <1>1, <1>4
  <2>1. tags' = [tags EXCEPT !.busy = b, !.err = "failed"]
    BY <1>4, <2>0, Zenon
  <2>2. /\ tags' \in TagsType /\ tags'.len = tags.len /\ tags'.closed = tags.closed
        /\ tags'.idle = tags.idle /\ tags'.busy = b /\ tags'.err = "failed"
    BY <2>1 DEF TagsType, Errors
  <2>3. tags'.idle + tags'.busy = tags.idle + tags.busy - 1
    BY <1>1, <2>0, <2>2
  <2> QED BY <2>2, <2>3, Zenon
<1>5. CASE /\ tags.idle > 0 /\ tags.len = 0 /\ tags.closed
           /\ tags' = [tags EXCEPT !.idle = tags.idle - 1]
  <2>1. tags.idle - 1 \in Nat
    BY <1>1, <1>5
  <2>2. /\ tags' \in TagsType /\ tags'.len = tags.len /\ tags'.closed = tags.closed
        /\ tags'.idle = tags.idle - 1 /\ tags'.busy = tags.busy /\ tags'.err = tags.err
    BY <1>5, <2>1 DEF TagsType
  <2>3. tags'.idle + tags'.busy = tags.idle + tags.busy - 1
    BY <1>1, <2>2
  <2> QED BY <1>5, <2>2, <2>3, Zenon
<1> QED BY <1>2, <1>3, <1>4, <1>5, Zenon DEF TaggerStep

\* A cover worker leaves only after a failure, a cancellation, or when the channel
\* is closed and empty.
LEMMA CovererSteps ==
    ASSUME cover \in CoverType, CovererStep
    PROVE  /\ cover' \in CoverType
           /\ cover'.closed = cover.closed /\ cover'.flag = cover.flag
           /\ cover'.pc = cover.pc /\ cover'.done = cover.done
           /\ \/ /\ ctx = "cancelled" \/ cover.err # "no"
                 /\ cover'.err = cover.err
              \/ /\ cover.len > 0 /\ ctx = "live" /\ cover.err = "no"
                 /\ cover'.workers = cover.workers /\ cover'.err = "no"
              \/ cover'.err = "failed"
              \/ cover.len = 0 /\ cover.closed /\ cover'.len = 0 /\ cover'.err = cover.err
<1>1. cover.len - 1 \in Int /\ cover.workers - 1 \in Nat
  BY DEF CoverType, CovererStep
<1>2. PICK l \in Int, n \in Nat : l = cover.len - 1 /\ n = cover.workers - 1
  BY <1>1
<1>3. CASE /\ ctx = "cancelled" \/ cover.err # "no"
           /\ cover' = [cover EXCEPT !.len = @ - 1, !.workers = @ - 1]
  <2>1. cover' = [cover EXCEPT !.len = l, !.workers = n]
    BY <1>2, <1>3, Zenon
  <2> QED BY <1>3, <2>1 DEF CoverType
<1>4. CASE /\ cover.len > 0 /\ ctx = "live" /\ cover.err = "no"
           /\ cover' = [cover EXCEPT !.len = @ - 1]
  <2>1. cover' = [cover EXCEPT !.len = l]
    BY <1>2, <1>4, Zenon
  <2> QED BY <1>4, <2>1 DEF CoverType
<1>5. CASE cover' = [cover EXCEPT !.len = @ - 1, !.workers = @ - 1, !.err = "failed"]
  <2>1. cover' = [cover EXCEPT !.len = l, !.workers = n, !.err = "failed"]
    BY <1>2, <1>5, Zenon
  <2> QED BY <2>1 DEF CoverType, Errors
<1>6. CASE cover.len = 0 /\ cover.closed /\ cover' = [cover EXCEPT !.workers = @ - 1]
  <2>1. cover' = [cover EXCEPT !.workers = n]
    BY <1>2, <1>6, Zenon
  <2> QED BY <1>6, <2>1 DEF CoverType
<1> QED BY <1>3, <1>4, <1>5, <1>6, Zenon DEF CovererStep

\* close(s.setAlbumCover) panics or sets the flag and closes; the rest stays.
LEMMA CoverCloses ==
    ASSUME cover \in CoverType, CloseCover
    PROVE  \/ cover.closed /\ panic' = "cover closed twice" /\ cover' = cover
           \/ /\ ~cover.closed /\ panic' = panic
              /\ cover' \in CoverType
              /\ cover'.closed = TRUE /\ cover'.flag = TRUE
              /\ cover'.len = cover.len /\ cover'.workers = cover.workers
              /\ cover'.pc = cover.pc /\ cover'.err = cover.err /\ cover'.done = cover.done
<1>1. CASE ~cover.closed
  <2>1. cover' = [cover EXCEPT !.flag = TRUE, !.closed = TRUE] /\ panic' = panic
    BY <1>1 DEF CloseCover
  <2> QED BY <1>1, <2>1 DEF CoverType
<1> QED BY <1>1 DEF CloseCover, Dies, CoverType

\* The same for the close by the cover loop, which goes on to report.
LEMMA CovererClosed ==
    ASSUME cover \in CoverType, CovererCloses
    PROVE  \/ cover.closed /\ panic' = "cover closed twice" /\ cover' = cover
           \/ /\ ~cover.closed /\ panic' = panic
              /\ cover' \in CoverType
              /\ cover'.closed = TRUE /\ cover'.flag = TRUE
              /\ cover'.len = cover.len /\ cover'.workers = cover.workers
              /\ cover'.pc = "post" /\ cover'.err = cover.err /\ cover'.done = cover.done
<1>1. CASE ~cover.closed
  <2>1. /\ cover' = [cover EXCEPT !.flag = TRUE, !.closed = TRUE, !.pc = "post"]
        /\ panic' = panic
    BY <1>1 DEF CovererCloses
  <2> QED BY <1>1, <2>1 DEF CoverType
<1> QED BY <1>1 DEF CovererCloses, Dies, CoverType

\* createCoverDir succeeds, or fails and leaves no cover worker.
LEMMA CovererStarted ==
    ASSUME cover \in CoverType, CovererStarts
    PROVE  /\ cover' \in CoverType
           /\ cover'.closed = cover.closed /\ cover'.flag = cover.flag
           /\ cover'.len = cover.len /\ cover'.done = cover.done
           /\ \/ cover'.pc = "work" /\ cover'.workers = cover.workers /\ cover'.err = cover.err
              \/ cover'.pc = "check" /\ cover'.workers = 0 /\ cover'.err = "failed"
<1>1. CASE cover' = [cover EXCEPT !.pc = "work"]
  BY <1>1 DEF CoverType
<1>2. CASE cover' = [cover EXCEPT !.pc = "check", !.workers = 0, !.err = "failed"]
  BY <1>2 DEF CoverType, Errors
<1> QED BY <1>1, <1>2 DEF CovererStarts

\* A send to setAlbumCover panics or adds an album; the save loop goes on.
LEMMA CoverSent ==
    ASSUME cover \in CoverType, save \in SaveType, SaveSendsCover
    PROVE  \/ cover.closed /\ panic' = "send on closed setAlbumCover" /\ save' = save /\ cover' = cover
           \/ /\ ~cover.closed /\ panic' = panic
              /\ cover' \in CoverType
              /\ cover'.closed = cover.closed /\ cover'.flag = cover.flag
              /\ cover'.len = cover.len + 1 /\ cover'.workers = cover.workers
              /\ cover'.pc = cover.pc /\ cover'.err = cover.err /\ cover'.done = cover.done
              /\ save' \in SaveType
              /\ save'.pc = "store" /\ save'.batch = save.batch /\ save'.last = save.last
              /\ save'.err = save.err /\ save'.done = save.done
<1>1. CASE ~cover.closed
  <2>1. PICK l \in Int, t \in Int : l = cover.len + 1 /\ t = save.todo - 1
    BY DEF CoverType, SaveType
  <2>2. /\ cover' = [cover EXCEPT !.len = l]
        /\ save' = [save EXCEPT !.pc = "store", !.todo = t]
        /\ panic' = panic
    BY <1>1, <2>1 DEF SaveSendsCover
  <2>3. /\ cover' \in CoverType
        /\ cover'.closed = cover.closed /\ cover'.flag = cover.flag
        /\ cover'.len = l /\ cover'.workers = cover.workers
        /\ cover'.pc = cover.pc /\ cover'.err = cover.err /\ cover'.done = cover.done
    BY <2>2 DEF CoverType
  <2>4. /\ save' \in SaveType
        /\ save'.pc = "store" /\ save'.batch = save.batch /\ save'.last = save.last
        /\ save'.err = save.err /\ save'.done = save.done
    BY <2>2 DEF SaveType, Looping
  <2> QED BY <1>1, <2>1, <2>2, <2>3, <2>4, Zenon
<1>2. CASE cover.closed
  BY <1>2 DEF SaveSendsCover, Dies
<1> QED BY <1>1, <1>2

\* Sending a directory keeps the shape of dirs.
LEMMA WalkSent ==
    ASSUME dirs \in DirsType, WalkSend
    PROVE  dirs' \in DirsType
<1>1. PICK l \in Int, k \in Int : l = dirs.len + 1 /\ k = dirs.left - 1
  BY DEF DirsType
<1>2. dirs' = [dirs EXCEPT !.len = l, !.left = k]
  BY <1>1, Zenon DEF WalkSend
<1> QED BY <1>2 DEF DirsType

\* Sending a file to songQueue keeps the shapes, or panics.
LEMMA WorkerPut ==
    ASSUME NEW w \in Workers, queue \in QueueType, worker \in [Workers -> WorkerType], WorkerPuts(w)
    PROVE  /\ queue' \in QueueType
           /\ worker' \in [Workers -> WorkerType]
           /\ panic' \in {panic, "send on closed songQueue"}
<1>1. CASE queue.closed
  BY <1>1 DEF WorkerPuts, Dies
<1>2. CASE ~queue.closed
  <2>1. PICK l \in Int : l = queue.len + 1
    BY DEF QueueType
  <2>2. /\ queue' = [queue EXCEPT !.len = l]
        /\ worker' = [worker EXCEPT ![w].pc = "file"]
        /\ panic' = panic
    BY <1>2, <2>1 DEF WorkerPuts
  <2>3. queue' \in QueueType
    BY <2>2 DEF QueueType
  <2>4. worker' \in [Workers -> WorkerType]
    BY <2>2 DEF WorkerType
  <2> QED BY <2>2, <2>3, <2>4
<1> QED BY <1>1, <1>2

\* Receiving a file keeps the shapes of songQueue and of the save loop.
LEMMA Received ==
    ASSUME queue \in QueueType, save \in SaveType, SaveReceives
    PROVE  queue' \in QueueType /\ save' \in SaveType
<1>1. PICK l \in Int, b \in Int : l = queue.len - 1 /\ b = save.batch + 1
  BY DEF QueueType, SaveType
<1>2. queue' = [queue EXCEPT !.len = l]
  BY <1>1, Zenon DEF SaveReceives
<1>3. queue' \in QueueType
  BY <1>2 DEF QueueType
<1>4. \/ save' = [save EXCEPT !.pc = "closetags"]
      \/ save' = [save EXCEPT !.pc = "store", !.batch = Batch, !.todo = Batch]
      \/ save' = [save EXCEPT !.batch = b]
  BY <1>1 DEF SaveReceives, Storing
<1>5. Batch \in Int
  BY PipelineAssumption
<1>6. CASE save' = [save EXCEPT !.pc = "closetags"]
  BY <1>3, <1>6 DEF SaveType
<1>7. CASE save' = [save EXCEPT !.pc = "store", !.batch = Batch, !.todo = Batch]
  BY <1>3, <1>5, <1>7 DEF SaveType, Looping
<1>8. CASE save' = [save EXCEPT !.batch = b]
  BY <1>3, <1>8 DEF SaveType
<1> QED BY <1>4, <1>6, <1>7, <1>8

\* The end of a batch keeps the shapes of the save loop and of the tally.
LEMMA Linked ==
    ASSUME save \in SaveType, tally \in TallyType, SaveLinks
    PROVE  save' \in SaveType /\ tally' \in TallyType
<1>1. PICK n \in Int, z \in Int : n = tally.saved + save.batch /\ z = 0
  BY DEF TallyType, SaveType
<1>2. tally' = [tally EXCEPT !.saved = n]
  BY <1>1, Zenon DEF SaveLinks
<1>3. tally' \in TallyType
  BY <1>2 DEF TallyType
<1>4. \/ save' = [save EXCEPT !.batch = z, !.pc = "closetags"]
      \/ save' = [save EXCEPT !.batch = z, !.pc = "recv"]
  BY <1>1 DEF SaveLinks
<1>5. CASE save' = [save EXCEPT !.batch = z, !.pc = "closetags"]
  BY <1>3, <1>5 DEF SaveType
<1>6. CASE save' = [save EXCEPT !.batch = z, !.pc = "recv"]
  BY <1>3, <1>6 DEF SaveType, Looping
<1> QED BY <1>4, <1>5, <1>6

\* Every step keeps the shape of every variable.
LEMMA ShapeStep ==
    ASSUME Shape, Next
    PROVE  Shape'
<1> USE PipelineAssumption DEF Shape, Errors
<1>1. CASE WalkCheck
  BY <1>1 DEF WalkCheck, MainType, Walking, Returning, DirsType
<1>2. CASE WalkSend
  <2>1. main' \in MainType
    BY <1>2 DEF WalkSend, MainType, Walking
  <2> QED BY <1>2, <2>1, WalkSent DEF WalkSend
<1>3. CASE WalkFails
  BY <1>3 DEF WalkFails, MainType, Walking, Returning, DirsType
<1>4. CASE WalkDone
  BY <1>4 DEF WalkDone, MainType, Walking, Returning, DirsType
<1>5. CASE AwaitWorkers
  BY <1>5 DEF AwaitWorkers, MainType, Walking, Returning, DirsType
<1>6. CASE CloseQueue
  BY <1>6 DEF CloseQueue, MainType, Walking, Returning, QueueType
<1>7. CASE FlagQueue
  BY <1>7 DEF FlagQueue, MainType, Walking, Returning, QueueType
<1>8. CASE AwaitSave
  <2>1. PICK e \in Errors : e = save.done
    BY <1>8 DEF AwaitSave, SaveType
  <2>2. \/ main' = [main EXCEPT !.pc = "awaitcover", !.err = e]
        \/ main' = [main EXCEPT !.pc = "rollback", !.err = e]
    BY <1>8, <2>1, Zenon DEF AwaitSave
  <2>3. main' \in MainType
    BY <2>2 DEF MainType, Walking, Returning
  <2> QED BY <1>8, <2>3 DEF AwaitSave
<1>9. CASE AwaitCover
  <2>1. PICK e \in Errors : e = cover.done
    BY <1>9 DEF AwaitCover, CoverType
  <2>2. \/ main' = [main EXCEPT !.pc = "finish", !.err = e]
        \/ main' = [main EXCEPT !.pc = "rollback", !.err = e]
    BY <1>9, <2>1, Zenon DEF AwaitCover
  <2>3. main' \in MainType
    BY <2>2 DEF MainType, Walking, Returning
  <2> QED BY <1>9, <2>3 DEF AwaitCover
<1>10. CASE Finish
  BY <1>10 DEF Finish, MainType, Walking, Returning
<1>11. CASE DeferRollback
  BY <1>11 DEF DeferRollback, MainType, Walking, Returning
<1>12. CASE DeferCheck
  BY <1>12 DEF DeferCheck, MainType, Walking, Returning
<1>13. CASE DeferCloseCover
  <2>1. main' \in MainType
    BY <1>13 DEF DeferCloseCover, MainType, Returning
  <2>2. panic' \in PanicType /\ cover' \in CoverType
    BY <1>13, CoverCloses DEF DeferCloseCover, PanicType
  <2> QED BY <1>13, <2>1, <2>2 DEF DeferCloseCover
<1>14. ASSUME NEW w \in Workers, WorkerReceives(w) PROVE Shape'
  BY <1>14 DEF WorkerReceives, DirsType, WorkerType
<1>15. ASSUME NEW w \in Workers, WorkerDirDone(w) PROVE Shape'
  BY <1>15 DEF WorkerDirDone, WorkerType
<1>16. ASSUME NEW w \in Workers, WorkerFails(w) PROVE Shape'
  BY <1>16 DEF WorkerFails, WorkerGivesUp, DirsType, WorkerType
<1>17. ASSUME NEW w \in Workers, WorkerFile(w) PROVE Shape'
  BY <1>17 DEF WorkerFile, WorkerGivesUp, DirsType, WorkerType, TallyType
<1>18. ASSUME NEW w \in Workers, WorkerPuts(w) PROVE Shape'
  <2>1. panic' \in PanicType
    BY <1>18, WorkerPut DEF PanicType
  <2> QED BY <1>18, <2>1, WorkerPut DEF WorkerPuts
<1>19. CASE SaveReceives
  BY <1>19, Received DEF SaveReceives
<1>20. CASE SaveDrained
  BY <1>20 DEF SaveDrained, Storing, SaveType, Looping, Saved
<1>21. CASE SaveFails
  BY <1>21 DEF SaveFails, SaveType, Looping, Saved
<1>22. CASE SaveDies
  BY <1>22 DEF SaveDies, Dies, PanicType
<1>23. CASE SaveSong
  BY <1>23 DEF SaveSong, SaveType, Looping, Saved
<1>24. CASE SaveSendsCover
  <2>1. panic' \in PanicType
    BY <1>24, CoverSent DEF PanicType
  <2> QED BY <1>24, <2>1, CoverSent DEF SaveSendsCover
<1>25. CASE SaveWrites
  BY <1>25 DEF SaveWrites, SaveType, Looping, Saved
<1>26. CASE SaveTags
  BY <1>26 DEF SaveTags, SaveType, Looping, Saved, TagsType
<1>27. CASE SaveTagged
  BY <1>27 DEF SaveTagged, SaveType, Looping, Saved
<1>28. CASE SaveLinks
  BY <1>28, Linked DEF SaveLinks
<1>29. CASE SaveEnds
  <2>1. CASE tags.closed
    <3>1. PICK e \in Errors : e = tags.err
      BY DEF TagsType
    <3>2. save' = [save EXCEPT !.pc = "post", !.err = e]
      BY <1>29, <2>1, <3>1, Zenon DEF SaveEnds
    <3>3. save' \in SaveType
      BY <3>2 DEF SaveType
    <3> QED BY <1>29, <2>1, <3>3 DEF SaveEnds
  <2>2. CASE ~tags.closed
    <3>1. tags' \in TagsType
      BY <1>29, <2>2 DEF SaveEnds, TagsType
    <3> QED BY <1>29, <2>2, <3>1 DEF SaveEnds
  <2> QED BY <2>1, <2>2
<1>30. CASE SavePosts
  BY <1>30 DEF SavePosts, SaveType, Looping, Saved
<1>31. CASE SaveChecks
  BY <1>31 DEF SaveChecks, SaveType, Looping, Saved
<1>32. CASE SaveClosesCover
  <2>1. save' \in SaveType
    BY <1>32 DEF SaveClosesCover, SaveType, Saved
  <2>2. panic' \in PanicType /\ cover' \in CoverType
    BY <1>32, CoverCloses DEF SaveClosesCover, PanicType
  <2> QED BY <1>32, <2>1, <2>2 DEF SaveClosesCover
<1>33. CASE SaveCancels
  BY <1>33 DEF SaveCancels, SaveType, Looping, Saved
<1>34. CASE TaggerStep
  BY <1>34, TaggerSteps DEF TaggerStep
<1>35. CASE CovererStarts
  BY <1>35, CovererStarted DEF CovererStarts
<1>36. CASE CovererStep
  BY <1>36, CovererSteps DEF CovererStep
<1>37. CASE CovererReturns
  BY <1>37 DEF CovererReturns, CoverType
<1>38. CASE CovererChecks
  BY <1>38 DEF CovererChecks, CoverType
<1>39. CASE CovererCloses
  <2>1. panic' \in PanicType /\ cover' \in CoverType
    BY <1>39, CovererClosed DEF PanicType
  <2> QED BY <1>39, <2>1 DEF CovererCloses
<1>40. CASE CovererPosts
  BY <1>40 DEF CovererPosts, CoverType
<1>41. CASE CovererCancels
  BY <1>41 DEF CovererCancels, CoverType
<1> HIDE PipelineAssumption DEF Shape, Errors
<1> QED BY <1>1, <1>2, <1>3, <1>4, <1>5, <1>6, <1>7, <1>8, <1>9, <1>10, <1>11, <1>12,
    <1>13, <1>14, <1>15, <1>16, <1>17, <1>18, <1>19, <1>20, <1>21, <1>22, <1>23, <1>24,
    <1>25, <1>26, <1>27, <1>28, <1>29, <1>30, <1>31, <1>32, <1>33, <1>34, <1>35, <1>36,
    <1>37, <1>38, <1>39, <1>40, <1>41 DEF Next, MainStep, SaveStep, CoverStep, WorkerStep

\* CommitInv without the shapes.
Facts == MainFacts /\ SaveFacts /\ TagFacts /\ CoverFacts /\ CommitsLast

\* A tagger's step keeps the facts: while the save loop runs and nothing failed all
\* of them are there, and a save loop that has ended well has waited for them.
LEMMA TaggerFacts ==
    ASSUME CommitInv, TaggerStep
    PROVE  Facts'
<1>1. UNCHANGED <<main, worker, queue, save, cover, ctx, panic>>
  BY DEF TaggerStep
<1>2. /\ tags.len \in Int /\ tags.idle \in Nat /\ tags.busy \in Nat /\ tags.err \in Errors
      /\ tags'.len \in Int /\ tags'.idle \in Nat /\ tags'.busy \in Nat
  BY TaggerSteps DEF CommitInv, Shape, TagsType
<1>3. tags.closed' = tags.closed
  BY TaggerSteps DEF CommitInv, Shape
<1>4. \/ tags.err' = "failed" /\ tags.len' = tags.len
      \/ /\ tags.err' = tags.err
         /\ \/ tags.len' = tags.len
            \/ tags.len > 0 /\ tags.len' = tags.len - 1
         /\ \/ tags.idle' + tags.busy' = tags.idle + tags.busy
            \/ /\ tags.len = 0 /\ tags.len' = 0 /\ tags.closed
               /\ tags.idle' + tags.busy' = tags.idle + tags.busy - 1
  BY TaggerSteps DEF CommitInv, Shape
<1>5. tags.idle + tags.busy > 0
  BY <1>2 DEF TaggerStep
<1>6. MainFacts'
  BY <1>1 DEF CommitInv, MainFacts, AllGone
<1>7. SaveFacts'
  BY <1>1, <1>2, <1>3, <1>4, <1>5 DEF CommitInv, SaveFacts, Looping, Saved
<1>8. TagFacts'
  BY <1>1, <1>2, <1>3, <1>4, <1>5 DEF CommitInv, TagFacts
<1>9. CoverFacts'
  BY <1>1 DEF CommitInv, CoverFacts, Unharmed
<1>10. CommitsLast'
  BY <1>1, <1>2, <1>5 DEF CommitInv, CommitsLast, Alive
<1> QED BY <1>6, <1>7, <1>8, <1>9, <1>10 DEF Facts

\* A cover worker's step keeps the facts: in a scan that goes well none of them
\* leaves before the channel is closed and empty.
LEMMA CovererFacts ==
    ASSUME CommitInv, CovererStep
    PROVE  Facts'
<1>1. UNCHANGED <<main, worker, queue, save, tags, ctx, panic>>
  BY DEF CovererStep
<1>2. cover \in CoverType /\ cover' \in CoverType
  BY CovererSteps DEF CommitInv, Shape
<1>3. cover.pc = "work" /\ cover.pc' = "work"
  BY <1>2, CovererSteps DEF CovererStep
<1>4. cover.closed' = cover.closed /\ cover.flag' = cover.flag /\ cover.done' = cover.done
  BY <1>2, CovererSteps
<1>5. MainFacts'
  BY <1>1, <1>4 DEF CommitInv, MainFacts, AllGone
<1>6. SaveFacts' /\ TagFacts'
  BY <1>1 DEF CommitInv, SaveFacts, TagFacts
<1>7. CoverFacts'
  <2>1. cover.err' # "failed" /\ ctx = "live" /\ cover.err = "no" =>
          \/ cover.len > 0 /\ cover.workers' = cover.workers
          \/ cover.len = 0 /\ cover.closed /\ cover.len' = 0
    BY <1>2, CovererSteps
  <2>2. cover.err' = cover.err \/ cover.err' = "failed"
    BY <1>2, CovererSteps
  <2>3. cover.len \in Int /\ cover.len' \in Int
    BY <1>2 DEF CoverType
  <2>4. CASE cover.err' = "failed"
    BY <1>1, <1>3, <1>4, <2>4 DEF CommitInv, CoverFacts, Unharmed
  <2>5. CASE cover.err' # "failed"
    BY <1>1, <1>3, <1>4, <2>1, <2>2, <2>3, <2>5 DEF CommitInv, CoverFacts, Unharmed
  <2> QED BY <2>4, <2>5
<1>8. CommitsLast'
  BY <1>1, <1>3 DEF CommitInv, CommitsLast, Alive
<1> QED BY <1>5, <1>6, <1>7, <1>8 DEF Facts

\* The start of the cover loop keeps the facts.
LEMMA CovererStartFacts ==
    ASSUME CommitInv, CovererStarts
    PROVE  Facts'
<1>1. UNCHANGED <<main, worker, queue, save, tags, ctx, panic>> /\ cover.pc = "start"
  BY DEF CovererStarts
<1>2. cover \in CoverType /\ cover' \in CoverType
  BY CovererStarted DEF CommitInv, Shape
<1>3. /\ cover.closed' = cover.closed /\ cover.flag' = cover.flag
      /\ cover.done' = cover.done /\ cover.len' = cover.len
  BY <1>2, CovererStarted
<1>4. \/ cover.pc' = "work" /\ cover.workers' = cover.workers /\ cover.err' = cover.err
      \/ cover.pc' = "check" /\ cover.workers' = 0 /\ cover.err' = "failed"
  BY <1>2, CovererStarted
<1>5. MainFacts'
  BY <1>1, <1>3 DEF CommitInv, MainFacts, AllGone
<1>6. SaveFacts' /\ TagFacts'
  BY <1>1 DEF CommitInv, SaveFacts, TagFacts
<1>7. CoverFacts'
  BY <1>1, <1>3, <1>4 DEF CommitInv, CoverFacts, Unharmed
<1>8. CommitsLast'
  BY <1>1 DEF CommitInv, CommitsLast, Alive
<1> QED BY <1>5, <1>6, <1>7, <1>8 DEF Facts

\* The cover loop closes its channel itself only in a scan that has failed.
LEMMA CovererCloseFacts ==
    ASSUME CommitInv, CovererCloses
    PROVE  Facts'
<1>1. UNCHANGED <<main, worker, queue, save, tags, ctx>> /\ cover.pc = "close"
  BY DEF CovererCloses
<1>2. cover \in CoverType
  BY DEF CommitInv, Shape
<1>3. \/ cover' = cover
      \/ /\ cover.closed' = TRUE /\ cover.flag' = TRUE /\ cover.pc' = "post"
         /\ cover.workers' = cover.workers /\ cover.err' = cover.err /\ cover.done' = cover.done
  BY <1>2, CovererClosed
<1>4. ~main.committed /\ ~Unharmed /\ ~Unharmed'
  BY <1>1, <1>3 DEF CommitInv, CommitsLast, CoverFacts, Unharmed
<1>5. MainFacts'
  BY <1>1, <1>3 DEF CommitInv, MainFacts, AllGone
<1>6. SaveFacts' /\ TagFacts'
  BY <1>1 DEF CommitInv, SaveFacts, TagFacts
<1>7. CoverFacts'
  BY <1>1, <1>3, <1>4 DEF CommitInv, CoverFacts
<1>8. CommitsLast'
  BY <1>1, <1>4 DEF CommitsLast
<1> QED BY <1>5, <1>6, <1>7, <1>8 DEF Facts

\* The save loop's close of setAlbumCover keeps the facts.
LEMMA SaveCloseFacts ==
    ASSUME CommitInv, SaveClosesCover
    PROVE  Facts'
<1>1. UNCHANGED <<main, worker, queue, tags, ctx>> /\ save.pc = "close" /\ CloseCover
  BY DEF SaveClosesCover
<1>2. /\ save.pc' = "cancel" /\ save.err' = save.err
      /\ save.done' = save.done /\ save.last' = save.last
  BY DEF SaveClosesCover, CommitInv, Shape, SaveType
<1>3. cover \in CoverType
  BY DEF CommitInv, Shape
<1>4. \/ cover' = cover
      \/ /\ ~cover.closed
         /\ cover.closed' = TRUE /\ cover.flag' = TRUE /\ cover.len' = cover.len
         /\ cover.workers' = cover.workers /\ cover.pc' = cover.pc
         /\ cover.err' = cover.err /\ cover.done' = cover.done
  BY <1>1, <1>3, CoverCloses
<1>5. ~main.committed
  BY <1>1 DEF CommitInv, CommitsLast
<1>6. MainFacts'
  BY <1>1, <1>2, <1>4 DEF CommitInv, MainFacts, AllGone
<1>7. SaveFacts'
  BY <1>1, <1>2 DEF CommitInv, SaveFacts, Looping, Saved
<1>8. TagFacts'
  BY <1>1, <1>2 DEF CommitInv, TagFacts, Looping
<1>9. CoverFacts'
  BY <1>1, <1>2, <1>4, <1>5 DEF CommitInv, CoverFacts, Unharmed
<1>10. CommitsLast'
  BY <1>1, <1>5 DEF CommitsLast
<1> QED BY <1>6, <1>7, <1>8, <1>9, <1>10 DEF Facts

\* Scan's own close of setAlbumCover happens only in a scan that does not commit.
LEMMA DeferCloseFacts ==
    ASSUME CommitInv, DeferCloseCover
    PROVE  Facts'
<1>1. UNCHANGED <<worker, queue, save, tags, ctx>> /\ main.pc = "closecover" /\ CloseCover
  BY DEF DeferCloseCover
<1>2. main.pc' = "returned" /\ main.err' = main.err /\ main.committed' = main.committed
  BY DEF DeferCloseCover, CommitInv, Shape, MainType
<1>3. cover \in CoverType
  BY DEF CommitInv, Shape
<1>4. \/ cover' = cover
      \/ /\ cover.closed' = TRUE /\ cover.flag' = TRUE
         /\ cover.workers' = cover.workers /\ cover.pc' = cover.pc
         /\ cover.err' = cover.err /\ cover.done' = cover.done
  BY <1>1, <1>3, CoverCloses
<1>5. ~main.committed /\ ~main.committed' /\ ~Unharmed'
  BY <1>1, <1>2 DEF CommitInv, MainFacts, Unharmed, Returning
<1>6. MainFacts'
  BY <1>2, <1>5 DEF MainFacts
<1>7. SaveFacts' /\ TagFacts'
  BY <1>1 DEF CommitInv, SaveFacts, TagFacts
<1>8. CoverFacts'
  BY <1>4, <1>5 DEF CommitInv, CoverFacts
<1>9. CommitsLast'
  BY <1>5 DEF CommitsLast
<1> QED BY <1>6, <1>7, <1>8, <1>9 DEF Facts

\* Handing an album to the cover loop keeps the facts.
LEMMA CoverSendFacts ==
    ASSUME CommitInv, SaveSendsCover
    PROVE  Facts'
<1>1. UNCHANGED <<main, worker, queue, tags, ctx>> /\ save.pc = "cover"
  BY DEF SaveSendsCover
<1>2. cover \in CoverType /\ save \in SaveType
  BY DEF CommitInv, Shape
<1>3. ~main.committed
  BY <1>1 DEF CommitInv, CommitsLast
<1>4. CASE save' = save /\ cover' = cover
  BY <1>1, <1>3, <1>4
  DEF CommitInv, Facts, MainFacts, AllGone, SaveFacts, TagFacts, CoverFacts, Unharmed, CommitsLast
<1>5. CASE /\ ~cover.closed
           /\ cover.closed' = cover.closed /\ cover.flag' = cover.flag
           /\ cover.workers' = cover.workers /\ cover.pc' = cover.pc
           /\ cover.err' = cover.err /\ cover.done' = cover.done
           /\ save.pc' = "store" /\ save.last' = save.last
           /\ save.err' = save.err /\ save.done' = save.done
  <2>1. MainFacts'
    BY <1>1, <1>5 DEF CommitInv, MainFacts, AllGone
  <2>2. SaveFacts'
    BY <1>1, <1>5 DEF CommitInv, SaveFacts, Looping, Saved
  <2>3. TagFacts'
    BY <1>1, <1>5 DEF CommitInv, TagFacts, Looping
  <2>4. CoverFacts'
    BY <1>1, <1>3, <1>5 DEF CommitInv, CoverFacts, Unharmed
  <2>5. CommitsLast'
    BY <1>1, <1>3 DEF CommitsLast
  <2> QED BY <2>1, <2>2, <2>3, <2>4, <2>5 DEF Facts
<1> QED BY <1>2, <1>4, <1>5, CoverSent

\* The save loop's end keeps the facts: without an error, closed and all workers
\* gone means that updateSongFiles is empty.
LEMMA SaveEndFacts ==
    ASSUME CommitInv, SaveEnds
    PROVE  Facts'
<1>1. UNCHANGED <<main, worker, queue, cover, ctx, panic>> /\ save.pc = "closetags"
  BY DEF SaveEnds
<1>2. ~main.committed /\ save.err = "no"
  BY <1>1 DEF CommitInv, CommitsLast, SaveFacts
<1>3. MainFacts'
  BY <1>1, <1>2 DEF SaveEnds, CommitInv, Shape, SaveType, MainFacts, AllGone
<1>4. CommitsLast'
  BY <1>1, <1>2 DEF CommitsLast
<1>5. CASE tags.closed
  <2>1. tags' = tags /\ tags.idle + tags.busy = 0
    BY <1>5 DEF SaveEnds
  <2>2. /\ save.pc' = "post" /\ save.err' = tags.err
        /\ save.done' = save.done /\ save.last' = save.last
    BY <1>5 DEF SaveEnds, CommitInv, Shape, SaveType
  <2>3. tags.err = "no" => tags.len = 0
    <3>1. tags.idle + tags.busy # TagWorkers
      BY <2>1, PipelineAssumption
    <3> QED BY <3>1 DEF CommitInv, TagFacts
  <2>4. SaveFacts'
    BY <1>1, <2>1, <2>2, <2>3 DEF CommitInv, SaveFacts, Looping, Saved
  <2>5. TagFacts'
    BY <2>1, <2>2 DEF CommitInv, TagFacts, Looping
  <2>6. CoverFacts'
    BY <1>1, <1>2, <2>2 DEF CommitInv, CoverFacts, Unharmed
  <2> QED BY <1>3, <1>4, <2>4, <2>5, <2>6 DEF Facts
<1>6. CASE ~tags.closed
  <2>1. save' = save
    BY <1>6 DEF SaveEnds
  <2>2. /\ tags.closed' = TRUE /\ tags.len' = tags.len /\ tags.idle' = tags.idle
        /\ tags.busy' = tags.busy /\ tags.err' = tags.err
    BY <1>6 DEF SaveEnds, CommitInv, Shape, TagsType
  <2>3. SaveFacts'
    BY <1>1, <2>1, <2>2 DEF CommitInv, SaveFacts
  <2>4. TagFacts'
    BY <1>1, <1>6, <2>1, <2>2 DEF CommitInv, TagFacts, Looping
  <2>5. CoverFacts'
    BY <1>1, <2>1 DEF CommitInv, CoverFacts, Unharmed
  <2> QED BY <1>3, <1>4, <2>3, <2>4, <2>5 DEF Facts
<1> QED BY <1>5, <1>6

\* A directory worker's step keeps the facts: it is not gone, so Scan still waits or
\* has failed, and it fills songQueue only while that is open.
LEMMA WorkerFacts ==
    ASSUME CommitInv, NEW w \in Workers,
           UNCHANGED <<main, save, tags, cover, ctx>>,
           worker[w].pc # "gone",
           queue.closed' = queue.closed,
           queue.len' = queue.len \/ ~queue.closed
    PROVE  Facts'
<1>1. ~AllGone
  BY DEF AllGone
<1>2. ~main.committed
  BY <1>1 DEF CommitInv, CommitsLast, AllGone
<1>3. MainFacts'
  BY <1>1 DEF CommitInv, MainFacts
<1>4. SaveFacts'
  BY DEF CommitInv, SaveFacts
<1>5. TagFacts'
  BY DEF CommitInv, TagFacts
<1>6. CoverFacts'
  BY DEF CommitInv, CoverFacts, Unharmed
<1>7. CommitsLast'
  BY <1>2 DEF CommitsLast
<1> QED BY <1>3, <1>4, <1>5, <1>6, <1>7 DEF Facts

\* A send to songQueue leaves what WorkerFacts asks for, also when it panics.
LEMMA WorkerPutFacts ==
    ASSUME CommitInv, NEW w \in Workers, WorkerPuts(w)
    PROVE  Facts'
<1>1. UNCHANGED <<main, save, tags, cover, ctx>> /\ worker[w].pc # "gone"
  BY DEF WorkerPuts
<1>2. queue.closed' = queue.closed /\ (queue.len' = queue.len \/ ~queue.closed)
  BY DEF WorkerPuts, CommitInv, Shape, QueueType
<1> QED BY <1>1, <1>2, WorkerFacts

\* The end of Scan keeps the facts: with all others reported well, everybody is gone.
LEMMA FinishFacts ==
    ASSUME CommitInv, Alive, Finish
    PROVE  Facts'
<1>1. UNCHANGED <<worker, queue, save, tags, cover, ctx, panic>> /\ main.pc = "finish"
  BY DEF Finish
<1>2. main.pc' = "rollback"
  BY DEF Finish, CommitInv, Shape, MainType
<1>3. AllGone /\ save.done = "no" /\ cover.done = "no" /\ ~main.committed
  BY <1>1 DEF CommitInv, MainFacts
<1>4. save.pc \in Saved /\ save.err = "no"
  BY <1>3 DEF CommitInv, SaveFacts
<1>5. /\ tags.err = "no" /\ tags.idle + tags.busy = 0 /\ tags.len = 0
      /\ save.last /\ queue.len = 0
  BY <1>4 DEF CommitInv, SaveFacts
<1>6. cover.pc \in {"cancel", "gone"} /\ cover.err = "no" /\ cover.workers = 0
  BY <1>3 DEF CommitInv, CoverFacts
<1>7. cover.closed /\ cover.len = 0 /\ cover.flag /\ save.pc \in {"cancel", "gone"}
  <2>1. Unharmed
    BY <1>1, <1>4, <1>6 DEF Unharmed, Returning
  <2>2. cover.workers # CoverWorkers
    BY <1>6, PipelineAssumption
  <2> QED BY <2>1, <2>2 DEF CommitInv, CoverFacts
<1>8. MainFacts'
  BY <1>2 DEF MainFacts
<1>9. SaveFacts' /\ TagFacts'
  BY <1>1 DEF CommitInv, SaveFacts, TagFacts
<1>10. CoverFacts'
  BY <1>1, <1>2, <1>7 DEF CommitInv, CoverFacts, Unharmed, Returning
<1>11. CommitsLast'
  BY <1>1, <1>3, <1>5, <1>6, <1>7 DEF CommitsLast, AllGone, Alive
<1> QED BY <1>8, <1>9, <1>10, <1>11 DEF Facts

\* The save loop dies of the missing transaction only before the scan commits.
LEMMA SaveDeathFacts ==
    ASSUME CommitInv, SaveDies
    PROVE  Facts'
<1>1. UNCHANGED <<main, worker, queue, save, tags, cover, ctx>>
  BY DEF SaveDies
<1>2. ~main.committed
  BY DEF SaveDies, CommitInv, CommitsLast
<1>3. MainFacts' /\ SaveFacts' /\ TagFacts'
  BY <1>1 DEF CommitInv, MainFacts, SaveFacts, TagFacts, AllGone
<1>4. CoverFacts'
  BY <1>1 DEF CommitInv, CoverFacts, Unharmed
<1>5. CommitsLast'
  BY <1>1, <1>2 DEF CommitsLast
<1> QED BY <1>3, <1>4, <1>5 DEF Facts

\* Every step keeps the facts about who has stopped and what the others found.
LEMMA FactsStep ==
    ASSUME CommitInv, Alive, Next
    PROVE  Facts'
<1> USE PipelineAssumption
    DEF Facts, CommitInv, MainFacts, SaveFacts, TagFacts, CoverFacts, CommitsLast, Unharmed,
        AllGone, Alive, Shape, MainType, DirsType, WorkerType, QueueType, SaveType, TagsType,
        CoverType, Errors, Walking, Returning, Looping, Saved
<1>1. CASE WalkCheck
  BY <1>1 DEF WalkCheck
<1>2. CASE WalkSend
  BY <1>2 DEF WalkSend
<1>3. CASE WalkFails
  BY <1>3 DEF WalkFails
<1>4. CASE WalkDone
  BY <1>4 DEF WalkDone
<1>5. CASE AwaitWorkers
  BY <1>5 DEF AwaitWorkers
<1>6. CASE CloseQueue
  BY <1>6 DEF CloseQueue
<1>7. CASE FlagQueue
  BY <1>7 DEF FlagQueue
<1>8. CASE AwaitSave
  BY <1>8 DEF AwaitSave
<1>9. CASE AwaitCover
  BY <1>9 DEF AwaitCover
<1>10. CASE Finish
  BY <1>10, FinishFacts
<1>11. CASE DeferRollback
  BY <1>11 DEF DeferRollback
<1>12. CASE DeferCheck
  BY <1>12 DEF DeferCheck
<1>13. CASE DeferCloseCover
  BY <1>13, DeferCloseFacts
<1>14. ASSUME NEW w \in Workers, WorkerReceives(w) PROVE Facts'
  BY <1>14 DEF WorkerReceives
<1>15. ASSUME NEW w \in Workers, WorkerDirDone(w) PROVE Facts'
  BY <1>15 DEF WorkerDirDone
<1>16. ASSUME NEW w \in Workers, WorkerFails(w) PROVE Facts'
  BY <1>16 DEF WorkerFails, WorkerGivesUp
<1>17. ASSUME NEW w \in Workers, WorkerFile(w) PROVE Facts'
  BY <1>17 DEF WorkerFile, WorkerGivesUp
<1>18. ASSUME NEW w \in Workers, WorkerPuts(w) PROVE Facts'
  BY <1>18, WorkerPutFacts
<1>19. CASE SaveReceives
  BY <1>19 DEF SaveReceives, Storing
<1>20. CASE SaveDrained
  BY <1>20 DEF SaveDrained, Storing
<1>21. CASE SaveFails
  BY <1>21 DEF SaveFails
<1>22. CASE SaveDies
  BY <1>22, SaveDeathFacts
<1>23. CASE SaveSong
  BY <1>23 DEF SaveSong
<1>24. CASE SaveSendsCover
  BY <1>24, CoverSendFacts
<1>25. CASE SaveWrites
  BY <1>25 DEF SaveWrites
<1>26. CASE SaveTags
  BY <1>26 DEF SaveTags
<1>27. CASE SaveTagged
  BY <1>27 DEF SaveTagged
<1>28. CASE SaveLinks
  BY <1>28 DEF SaveLinks
<1>29. CASE SaveEnds
  BY <1>29, SaveEndFacts
<1>30. CASE SavePosts
  BY <1>30 DEF SavePosts
<1>31. CASE SaveChecks
  BY <1>31 DEF SaveChecks
<1>32. CASE SaveClosesCover
  BY <1>32, SaveCloseFacts
<1>33. CASE SaveCancels
  BY <1>33 DEF SaveCancels
<1>34. CASE TaggerStep
  BY <1>34, TaggerFacts
<1>35. CASE CovererStarts
  BY <1>35, CovererStartFacts
<1>36. CASE CovererStep
  BY <1>36, CovererFacts
<1>37. CASE CovererReturns
  BY <1>37 DEF CovererReturns
<1>38. CASE CovererChecks
  BY <1>38 DEF CovererChecks
<1>39. CASE CovererCloses
  BY <1>39, CovererCloseFacts
<1>40. CASE CovererPosts
  BY <1>40 DEF CovererPosts
<1>41. CASE CovererCancels
  BY <1>41 DEF CovererCancels
<1> HIDE PipelineAssumption
    DEF Facts, CommitInv, MainFacts, SaveFacts, TagFacts, CoverFacts, CommitsLast, Unharmed,
        AllGone, Alive, Shape, MainType, DirsType, WorkerType, QueueType, SaveType, TagsType,
        CoverType, Errors, Walking, Returning, Looping, Saved
<1> QED BY <1>1, <1>2, <1>3, <1>4, <1>5, <1>6, <1>7, <1>8, <1>9, <1>10, <1>11, <1>12,
    <1>13, <1>14, <1>15, <1>16, <1>17, <1>18, <1>19, <1>20, <1>21, <1>22, <1>23, <1>24,
    <1>25, <1>26, <1>27, <1>28, <1>29, <1>30, <1>31, <1>32, <1>33, <1>34, <1>35, <1>36,
    <1>37, <1>38, <1>39, <1>40, <1>41 DEF Next, MainStep, SaveStep, CoverStep, WorkerStep

\* The facts hold when Scan has made its channels.
LEMMA CommitInit ==
    ASSUME Init
    PROVE  CommitInv
<1> USE PipelineAssumption DEF Init
<1>1. Shape
  BY DEF Shape, MainType, DirsType, WorkerType, QueueType, SaveType, TagsType, CoverType,
         TallyType, PanicType, Errors, Walking, Looping
<1>2. MainFacts
  BY DEF MainFacts
<1>3. SaveFacts
  BY DEF SaveFacts, Looping, Saved
<1>4. TagFacts
  BY DEF TagFacts, Looping
<1>5. CoverFacts
  BY DEF CoverFacts, Unharmed, Returning
<1>6. CommitsLast
  BY DEF CommitsLast
<1> QED BY <1>1, <1>2, <1>3, <1>4, <1>5, <1>6 DEF CommitInv

-----------------------------------------------------------------------------

(***************************************************************************)
(* CommitInv, which says for every point of Scan, of the save loop and of  *)
(* the cover loop what the other goroutines have done by then, holds in    *)
(* every reachable state.                                                  *)
(***************************************************************************)
THEOREM CommitInvInvariant == Spec => []CommitInv
<1>1. Init => CommitInv
  BY CommitInit
<1>2. CommitInv /\ [Next]_vars => CommitInv'
  <2> SUFFICES ASSUME CommitInv, [Next]_vars
               PROVE  CommitInv'
    OBVIOUS
  <2>1. CASE Next
    <3>1. Alive
      BY <2>1 DEF Next, MainStep, SaveStep, TaggerStep, CoverStep, WorkerStep
    <3>2. Shape'
      BY <2>1, ShapeStep DEF CommitInv
    <3>3. Facts'
      BY <2>1, <3>1, FactsStep
    <3> QED BY <3>2, <3>3 DEF CommitInv, Facts
  <2>2. CASE UNCHANGED vars
    BY <2>2 DEF vars, CommitInv, Shape, MainFacts, SaveFacts, TagFacts, CoverFacts, CommitsLast,
                AllGone, Unharmed, Alive
  <2> QED BY <2>1, <2>2
<1> QED BY <1>1, <1>2, PTL DEF Spec

(***************************************************************************)
(* When Scan commits its transaction no worker, save loop, id writer or    *)
(* cover worker is left and every channel is empty, whatever failed before *)
(* and however the goroutines were interleaved.                            *)
(***************************************************************************)
THEOREM CommitsLastInvariant == Spec => []CommitsLast
<1>1. CommitInv => CommitsLast
  BY DEF CommitInv
<1> QED BY <1>1, CommitInvInvariant, PTL

-----------------------------------------------------------------------------
(* Panics *)

\* What the remaining errors are, who closes songQueue and when the state is gone.
PanicFacts ==
    /\ {save.err, cover.err, tags.err} \subseteq {"no", "failed"}
    /\ main.pc \in Returning \cup {"rollback"} => main.committed \/ main.err = "failed"
    /\ main.pc \notin Walking => AllGone \/ main.err = "failed"
    /\ queue.closed \/ queue.flag => main.pc \notin Walking
    /\ tx = "nil" => main.pc \in Returning


\* Every step keeps what the panics are explained by.
LEMMA PanicFactsStep ==
    ASSUME CommitInv, PanicFacts, Next
    PROVE  PanicFacts'
<1> USE PipelineAssumption
    DEF PanicFacts, CommitInv, MainFacts, AllGone, Shape, MainType, WorkerType, QueueType,
        SaveType, TagsType, CoverType, Errors, Walking, Returning
<1>1. CASE WalkCheck
  BY <1>1 DEF WalkCheck
<1>2. CASE WalkSend
  BY <1>2 DEF WalkSend
<1>3. CASE WalkFails
  BY <1>3 DEF WalkFails
<1>4. CASE WalkDone
  BY <1>4 DEF WalkDone
<1>5. CASE AwaitWorkers
  BY <1>5 DEF AwaitWorkers
<1>6. CASE CloseQueue
  BY <1>6 DEF CloseQueue
<1>7. CASE FlagQueue
  BY <1>7 DEF FlagQueue
<1>8. CASE AwaitSave
  <2>1. /\ main.pc = "awaitsave" /\ save.done \in {"no", "failed"}
        /\ main' = [main EXCEPT !.pc = IF save.done = "no" THEN "awaitcover" ELSE "rollback",
                                !.err = save.done]
    BY <1>8 DEF AwaitSave, SaveFacts
  <2>2. CASE save.done = "no"
    BY <1>8, <2>1, <2>2 DEF AwaitSave
  <2>3. CASE save.done = "failed"
    BY <1>8, <2>1, <2>3 DEF AwaitSave
  <2> QED BY <2>1, <2>2, <2>3
<1>9. CASE AwaitCover
  <2>1. /\ main.pc = "awaitcover" /\ cover.done \in {"no", "failed"}
        /\ main' = [main EXCEPT !.pc = IF cover.done = "no" THEN "finish" ELSE "rollback",
                                !.err = cover.done]
    BY <1>9 DEF AwaitCover, CoverFacts
  <2>2. CASE cover.done = "no"
    BY <1>9, <2>1, <2>2 DEF AwaitCover
  <2>3. CASE cover.done = "failed"
    BY <1>9, <2>1, <2>3 DEF AwaitCover
  <2> QED BY <2>1, <2>2, <2>3
<1>10. CASE Finish
  BY <1>10, ZenonT(30) DEF Finish
<1>11. CASE DeferRollback
  BY <1>11 DEF DeferRollback
<1>12. CASE DeferCheck
  BY <1>12 DEF DeferCheck
<1>13. CASE DeferCloseCover
  <2>1. UNCHANGED <<worker, queue, save, tags, tx>>
    BY <1>13 DEF DeferCloseCover
  <2>2. main'.pc = "returned" /\ main'.err = main.err /\ main'.committed = main.committed
    BY <1>13 DEF DeferCloseCover
  <2>3. cover'.err = cover.err
    BY <1>13, CoverCloses DEF DeferCloseCover
  <2> QED BY <1>13, <2>1, <2>2, <2>3 DEF DeferCloseCover
<1>14. ASSUME NEW w \in Workers, WorkerReceives(w) PROVE PanicFacts'
  BY <1>14 DEF WorkerReceives
<1>15. ASSUME NEW w \in Workers, WorkerDirDone(w) PROVE PanicFacts'
  BY <1>15 DEF WorkerDirDone
<1>16. ASSUME NEW w \in Workers, WorkerFails(w) PROVE PanicFacts'
  BY <1>16 DEF WorkerFails, WorkerGivesUp
<1>17. ASSUME NEW w \in Workers, WorkerFile(w) PROVE PanicFacts'
  BY <1>17 DEF WorkerFile, WorkerGivesUp
<1>18. ASSUME NEW w \in Workers, WorkerPuts(w) PROVE PanicFacts'
  BY <1>18 DEF WorkerPuts
<1>19. CASE SaveReceives
  BY <1>19 DEF SaveReceives, Storing
<1>20. CASE SaveDrained
  BY <1>20 DEF SaveDrained, Storing
<1>21. CASE SaveFails
  BY <1>21 DEF SaveFails
<1>22. CASE SaveDies
  BY <1>22 DEF SaveDies
<1>23. CASE SaveSong
  BY <1>23 DEF SaveSong
<1>24. CASE SaveSendsCover
  <2>1. cover'.err = cover.err /\ save'.err = save.err
    BY <1>24, CoverSent
  <2>2. UNCHANGED <<main, worker, queue, tags, tx>>
    BY <1>24 DEF SaveSendsCover
  <2> QED BY <2>1, <2>2
<1>25. CASE SaveWrites
  BY <1>25 DEF SaveWrites
<1>26. CASE SaveTags
  BY <1>26 DEF SaveTags
<1>27. CASE SaveTagged
  BY <1>27 DEF SaveTagged
<1>28. CASE SaveLinks
  BY <1>28 DEF SaveLinks
<1>29. CASE SaveEnds
  <2>1. UNCHANGED <<main, worker, queue, cover, tx>>
    BY <1>29 DEF SaveEnds
  <2>2. save'.err \in {save.err, tags.err} /\ tags'.err = tags.err
    BY <1>29 DEF SaveEnds
  <2> QED BY <2>1, <2>2
<1>30. CASE SavePosts
  BY <1>30 DEF SavePosts
<1>31. CASE SaveChecks
  BY <1>31 DEF SaveChecks
<1>32. CASE SaveClosesCover
  <2>1. cover'.err = cover.err
    BY <1>32, CoverCloses DEF SaveClosesCover
  <2> QED BY <1>32, <2>1 DEF SaveClosesCover
<1>33. CASE SaveCancels
  BY <1>33 DEF SaveCancels
<1>34. CASE TaggerStep
  <2>1. tags'.err \in {tags.err, "failed"}
    BY <1>34, TaggerSteps
  <2> QED BY <1>34, <2>1 DEF TaggerStep
<1>35. CASE CovererStarts
  <2>1. cover'.err \in {cover.err, "failed"}
    BY <1>35, CovererStarted
  <2> QED BY <1>35, <2>1 DEF CovererStarts
<1>36. CASE CovererStep
  <2>1. cover'.err \in {cover.err, "no", "failed"}
    BY <1>36, CovererSteps
  <2> QED BY <1>36, <2>1 DEF CovererStep
<1>37. CASE CovererReturns
  BY <1>37 DEF CovererReturns
<1>38. CASE CovererChecks
  BY <1>38 DEF CovererChecks
<1>39. CASE CovererCloses
  <2>1. cover'.err = cover.err
    BY <1>39, CovererClosed
  <2>2. UNCHANGED <<main, worker, queue, save, tags, tx>>
    BY <1>39 DEF CovererCloses
  <2> QED BY <2>1, <2>2
<1>40. CASE CovererPosts
  BY <1>40 DEF CovererPosts
<1>41. CASE CovererCancels
  BY <1>41 DEF CovererCancels
<1> HIDE PipelineAssumption
    DEF PanicFacts, CommitInv, MainFacts, AllGone, Shape, MainType, WorkerType, QueueType,
        SaveType, TagsType, CoverType, Errors, Walking, Returning
<1> QED BY <1>1, <1>2, <1>3, <1>4, <1>5, <1>6, <1>7, <1>8, <1>9, <1>10, <1>11, <1>12,
    <1>13, <1>14, <1>15, <1>16, <1>17, <1>18, <1>19, <1>20, <1>21, <1>22, <1>23, <1>24,
    <1>25, <1>26, <1>27, <1>28, <1>29, <1>30, <1>31, <1>32, <1>33, <1>34, <1>35, <1>36,
    <1>37, <1>38, <1>39, <1>40, <1>41 DEF Next, MainStep, SaveStep, CoverStep, WorkerStep

\* A goroutine that panics finds the state that explains it, and none moves after it.
LEMMA PanicStep ==
    ASSUME CommitInv, PanicFacts, PanicsExplained, Alive, Next
    PROVE  PanicsExplained'
<1>1. CASE panic' = "no"
  BY <1>1 DEF PanicsExplained
<1>2. ASSUME NEW w \in Workers, WorkerPuts(w), panic' # "no" PROVE PanicsExplained'
  <2>1. /\ UNCHANGED <<main, worker>> /\ queue.closed /\ worker[w].pc = "put"
        /\ panic' = "send on closed songQueue"
    BY <1>2 DEF WorkerPuts, Dies, Alive
  <2>2. main.err = "failed"
    BY <2>1 DEF PanicFacts, AllGone
  <2> QED BY <2>1, <2>2 DEF PanicsExplained
<1>3. CASE SaveDies
  <2>1. /\ UNCHANGED <<main, save>> /\ save.pc \in {"store", "link"} /\ tx = "nil"
        /\ panic' = "scan state is gone"
    BY <1>3 DEF SaveDies, Dies
  <2>2. save.done = "none" /\ ~main.committed
    BY <2>1 DEF CommitInv, SaveFacts, Saved, CommitsLast
  <2>3. main.err = "failed"
    BY <2>1, <2>2 DEF PanicFacts
  <2> QED BY <2>1, <2>2, <2>3 DEF PanicsExplained
<1>4. ASSUME SaveSendsCover, panic' # "no" PROVE PanicsExplained'
  <2>1. /\ UNCHANGED <<main, save, cover>> /\ save.pc = "cover" /\ cover.closed
        /\ panic' = "send on closed setAlbumCover"
    BY <1>4 DEF SaveSendsCover, Dies, Alive
  <2>2. ~main.committed /\ save.err = "no"
    BY <2>1 DEF CommitInv, SaveFacts, Looping, CommitsLast
  <2>3. ~Unharmed
    BY <2>1 DEF CommitInv, CoverFacts
  <2>4. cover.err = "failed" \/ main.err = "failed"
    BY <2>2, <2>3 DEF Unharmed, PanicFacts
  <2> QED BY <2>1, <2>4 DEF PanicsExplained
<1>5. ASSUME \/ SaveClosesCover
             \/ DeferCloseCover
             \/ CovererCloses,
             panic' # "no"
      PROVE  PanicsExplained'
  <2>1. /\ cover.closed /\ cover' = cover /\ panic' = "cover closed twice"
        /\ save.err' = save.err /\ main.err' = main.err
    BY <1>5 DEF SaveClosesCover, DeferCloseCover, CovererCloses, CloseCover, Dies, Alive,
                CommitInv, Shape, SaveType, MainType
  <2>2. CASE SaveClosesCover \/ CovererCloses
    <3>1. ~main.committed /\ ~Unharmed
      BY <2>1, <2>2 DEF SaveClosesCover, CovererCloses, CommitInv, CommitsLast, CoverFacts
    <3> QED BY <2>1, <3>1 DEF Unharmed, PanicFacts, PanicsExplained
  <2>3. CASE DeferCloseCover
    <3>1. main.pc = "closecover" /\ ~main.committed
      BY <2>3 DEF DeferCloseCover, CommitInv, MainFacts
    <3>2. main.err = "failed"
      BY <3>1 DEF PanicFacts, Returning
    <3> QED BY <2>1, <3>2 DEF PanicsExplained
  <2> QED BY <1>5, <2>2, <2>3
<1>6. CASE panic' = panic
  BY <1>6 DEF Alive, PanicsExplained
<1> QED
  BY <1>1, <1>2, <1>3, <1>4, <1>5, <1>6
  DEF Next, MainStep, SaveStep, TaggerStep, CoverStep, WorkerStep, WalkCheck, WalkSend, WalkFails,
      WalkDone, AwaitWorkers, CloseQueue, FlagQueue, AwaitSave, AwaitCover, Finish, DeferRollback,
      DeferCheck, WorkerReceives, WorkerDirDone, WorkerFails, WorkerFile, SaveReceives,
      SaveDrained, SaveFails, SaveSong, SaveWrites, SaveTags, SaveTagged, SaveLinks, SaveEnds,
      SavePosts, SaveChecks, SaveCancels, CovererStarts, CovererStep, CovererReturns,
      CovererChecks, CovererPosts, CovererCancels

\* Nothing has failed and nothing is closed when Scan has made its channels.
LEMMA PanicInit ==
    ASSUME Init
    PROVE  PanicFacts /\ PanicsExplained
<1>1. PanicFacts
  BY DEF Init, PanicFacts, Returning, Walking
<1> QED BY <1>1 DEF Init, PanicsExplained

\* PanicFacts, and with it what the panics say, holds in every reachable state.
LEMMA PanicFactsInvariant == Spec => [](PanicFacts /\ PanicsExplained)
<1> DEFINE I == PanicFacts /\ PanicsExplained
<1>1. Init => I
  BY PanicInit
<1>2. CommitInv /\ I /\ [Next]_vars => I'
  <2> SUFFICES ASSUME CommitInv, I, [Next]_vars
               PROVE  I'
    OBVIOUS
  <2>1. CASE Next
    <3>1. Alive
      BY <2>1 DEF Next, MainStep, SaveStep, TaggerStep, CoverStep, WorkerStep
    <3> QED BY <2>1, <3>1, PanicFactsStep, PanicStep
  <2>2. CASE UNCHANGED vars
    BY <2>2 DEF vars, PanicFacts, PanicsExplained, AllGone
  <2> QED BY <2>1, <2>2
<1> QED BY <1>1, <1>2, CommitInvInvariant, PTL DEF Spec

\* A goroutine of a scan panics only for the reasons PanicsExplained lists: whatever the
\* number of goroutines and files, a scan in which nothing fails brings no server down.
THEOREM PanicsExplainedInvariant == Spec => []PanicsExplained
  BY PanicFactsInvariant, PTL

-----------------------------------------------------------------------------
(* Sizes and counters *)

\* Channels and batches within their sizes, and where the counters stand at each point.
DirBounds ==
    /\ dirs.len \in 0 .. Cardinality(Workers)
    /\ dirs.left \in 0 .. Dirs
    /\ main.pc = "send" => dirs.left > 0

WorkerBounds ==
    \A w \in Workers : /\ worker[w].files \in 0 .. Files
                       /\ worker[w].pc \in {"recv", "gone"} => worker[w].files = 0
                       /\ worker[w].pc = "put" => worker[w].files < Files

QueueBounds == queue.len \in 0 .. Batch

SaveBounds ==
    /\ save.batch \in 0 .. Batch /\ save.todo \in 0 .. save.batch
    /\ save.pc = "recv" => save.batch < Batch
    /\ save.pc \in {"recv", "link"} => save.todo = 0
    /\ save.pc = "cover" => save.todo > 0

CoverBounds == cover.len \in 0 .. CoverWorkers /\ cover.workers <= CoverWorkers

TagBounds == tags.len \in 0 .. TagWorkers /\ tags.idle + tags.busy <= TagWorkers

Bounds ==
    DirBounds /\ WorkerBounds /\ QueueBounds /\ SaveBounds /\ CoverBounds /\ TagBounds

\* The files each worker has before it, the one it is sending included.
Held == [w \in Workers |-> worker[w].files + IF worker[w].pc = "put" THEN 1 ELSE 0]

\* As many pairs as there are files in the hands of the workers.
Pairs(f) == UNION {{w} \X (1 .. f[w]) : w \in Workers}

\* All files: saved, skipped, collected or queued; in the hands of a worker; in a
\* directory that no worker has taken yet.
Done == tally.saved + tally.skipped + save.batch + queue.len
InHands == Cardinality(Pairs(Held))
InDirs == (dirs.left + dirs.len) * Files
Accounted == Done + InHands + InDirs

\* Nothing has happened that makes somebody drop files.
Intact == dirs.err = "no" /\ ctx = "live" /\ tags.err = "no" /\ main.err # "failed"

\* No file is counted twice, and without a failure none is lost.
Conserved ==
    /\ tally.saved >= 0 /\ tally.skipped >= 0
    /\ Accounted <= Dirs * Files
    /\ Intact => Accounted = Dirs * Files

\* What main and the save loop know of the files when they go on.
WalkFacts ==
    /\ dirs.closed <=> main.pc \notin {"walk", "send"}
    /\ main.pc \in Walking => main.err = "no"
    /\ main.pc = "wait" => dirs.left = 0
    /\ main.pc \notin Walking /\ main.err # "failed" => dirs.left = 0
    /\ dirs.err = "cancelled" => ctx = "cancelled"
    /\ dirs.err = "no" /\ (\E w \in Workers : worker[w].pc = "gone") =>
          dirs.closed /\ dirs.len = 0
    /\ main.pc \in {"closequeue", "flagqueue"} /\ main.err # "failed" => dirs.err # "failed"
    /\ main.pc \in {"awaitsave", "awaitcover", "finish"} =>
          dirs.err # "failed" /\ main.err # "failed"
    /\ save.last => save.pc # "recv"
    /\ save.last /\ save.pc \notin Looping /\ save.err = "no" => save.batch = 0

CountInv == CommitInv /\ PanicFacts /\ Bounds /\ WalkFacts /\ Conserved /\ CommitsWhole


\* The save loop's end leaves what it has collected.
LEMMA SaveEnded ==
    ASSUME save \in SaveType, SaveEnds
    PROVE  /\ save'.pc \in {"closetags", "post"}
           /\ save'.batch = save.batch /\ save'.last = save.last
  BY DEF SaveEnds, SaveType

\* What the end of Scan does to its error.
LEMMA FinishEnds ==
    ASSUME main \in MainType, Finish
    PROVE  main'.pc = "rollback" /\ main'.err \in {main.err, "failed"}
<1>1. CASE main' = [main EXCEPT !.pc = "rollback", !.committed = TRUE]
  BY <1>1 DEF MainType
<1>2. CASE main' = [main EXCEPT !.pc = "rollback", !.err = "failed"]
  BY <1>2 DEF MainType
<1> QED BY <1>1, <1>2 DEF Finish

\* A step of others leaves what main, the walk and the save loop know.
LEMMA WalkFactsKept ==
    ASSUME WalkFacts, UNCHANGED <<main, dirs, worker, save, ctx>>
    PROVE  WalkFacts'
  BY DEF WalkFacts

\* Every step keeps what the walk and the save loop know of the files.
LEMMA WalkFactsStep ==
    ASSUME CommitInv, PanicFacts, WalkFacts, Next
    PROVE  WalkFacts'
<1> USE PipelineAssumption
    DEF WalkFacts, CommitInv, MainFacts, AllGone, Shape, MainType, DirsType, WorkerType,
        QueueType, SaveType, TagsType, CoverType, Errors, Walking, Looping
<1>1. CASE WalkCheck
  BY <1>1 DEF WalkCheck
<1>2. CASE WalkSend
  BY <1>2 DEF WalkSend
<1>3. CASE WalkFails
  BY <1>3 DEF WalkFails
<1>4. CASE WalkDone
  BY <1>4 DEF WalkDone
<1>5. CASE AwaitWorkers
  BY <1>5 DEF AwaitWorkers
<1>6. CASE CloseQueue
  BY <1>6 DEF CloseQueue
<1>7. CASE FlagQueue
  BY <1>7 DEF FlagQueue
<1>8. CASE AwaitSave
  BY <1>8 DEF AwaitSave
<1>9. CASE AwaitCover
  BY <1>9 DEF AwaitCover
<1>10. CASE Finish
  <2>1. /\ UNCHANGED <<dirs, worker, save, ctx>> /\ main.pc = "finish"
    BY <1>10 DEF Finish
  <2>2. main'.pc = "rollback" /\ main'.err \in {main.err, "failed"}
    BY <1>10, FinishEnds
  <2> QED BY <2>1, <2>2
<1>11. CASE DeferRollback
  BY <1>11 DEF DeferRollback
<1>12. CASE DeferCheck
  BY <1>12 DEF DeferCheck
<1>13. CASE DeferCloseCover
  BY <1>13 DEF DeferCloseCover
<1>14. ASSUME NEW w \in Workers, WorkerReceives(w) PROVE WalkFacts'
  BY <1>14, SMTT(30) DEF WorkerReceives
<1>15. ASSUME NEW w \in Workers, WorkerDirDone(w) PROVE WalkFacts'
  BY <1>15 DEF WorkerDirDone
<1>16. ASSUME NEW w \in Workers, WorkerFails(w) PROVE WalkFacts'
  BY <1>16 DEF WorkerFails, WorkerGivesUp
<1>17. ASSUME NEW w \in Workers, WorkerFile(w) PROVE WalkFacts'
  BY <1>17 DEF WorkerFile, WorkerGivesUp
<1>18. ASSUME NEW w \in Workers, WorkerPuts(w) PROVE WalkFacts'
  <2>1. UNCHANGED <<main, dirs, save, ctx>> /\ worker[w].pc = "put"
    BY <1>18 DEF WorkerPuts
  <2>2. worker' \in {worker, [worker EXCEPT ![w].pc = "file"]}
    BY <1>18 DEF WorkerPuts
  <2>3. (\E v \in Workers : worker'[v].pc = "gone") => \E v \in Workers : worker[v].pc = "gone"
    BY <2>1, <2>2
  <2> QED BY <2>1, <2>3
<1>19. CASE SaveReceives
  BY <1>19 DEF SaveReceives, Storing
<1>20. CASE SaveDrained
  BY <1>20 DEF SaveDrained, Storing
<1>21. CASE SaveFails
  BY <1>21 DEF SaveFails
<1>22. CASE SaveDies
  BY <1>22, ZenonT(30) DEF SaveDies
<1>23. CASE SaveSong
  BY <1>23 DEF SaveSong
<1>24. CASE SaveSendsCover
  <2>1. UNCHANGED <<main, dirs, worker, ctx>> /\ save.pc = "cover"
    BY <1>24 DEF SaveSendsCover
  <2>2. save'.pc \in {"cover", "store"}
    BY <1>24 DEF SaveSendsCover
  <2> QED BY <2>1, <2>2
<1>25. CASE SaveWrites
  BY <1>25 DEF SaveWrites
<1>26. CASE SaveTags
  BY <1>26 DEF SaveTags
<1>27. CASE SaveTagged
  BY <1>27 DEF SaveTagged
<1>28. CASE SaveLinks
  BY <1>28 DEF SaveLinks
<1>29. CASE SaveEnds
  <2>1. UNCHANGED <<main, dirs, worker, ctx>> /\ save.pc = "closetags" /\ save.err = "no"
    BY <1>29 DEF SaveEnds, SaveFacts
  <2>2. save'.pc \in {"closetags", "post"} /\ save'.batch = save.batch /\ save'.last = save.last
    BY <1>29, SaveEnded
  <2> QED BY <2>1, <2>2
<1>30. CASE SavePosts
  BY <1>30 DEF SavePosts
<1>31. CASE SaveChecks
  BY <1>31 DEF SaveChecks
<1>32. CASE SaveClosesCover
  BY <1>32 DEF SaveClosesCover
<1>33. CASE SaveCancels
  BY <1>33 DEF SaveCancels
<1>34. CASE TaggerStep
  BY <1>34, WalkFactsKept DEF TaggerStep
<1>35. CASE CovererStarts
  BY <1>35, WalkFactsKept DEF CovererStarts
<1>36. CASE CovererStep
  BY <1>36, WalkFactsKept DEF CovererStep
<1>37. CASE CovererReturns
  BY <1>37, WalkFactsKept DEF CovererReturns
<1>38. CASE CovererChecks
  BY <1>38, WalkFactsKept DEF CovererChecks
<1>39. CASE CovererCloses
  BY <1>39, WalkFactsKept DEF CovererCloses
<1>40. CASE CovererPosts
  BY <1>40, WalkFactsKept DEF CovererPosts
<1>41. CASE CovererCancels
  BY <1>41 DEF CovererCancels
<1> HIDE PipelineAssumption
    DEF WalkFacts, CommitInv, MainFacts, AllGone, Shape, MainType, DirsType, WorkerType,
        QueueType, SaveType, TagsType, CoverType, Errors, Walking, Looping
<1> QED BY <1>1, <1>2, <1>3, <1>4, <1>5, <1>6, <1>7, <1>8, <1>9, <1>10, <1>11, <1>12,
    <1>13, <1>14, <1>15, <1>16, <1>17, <1>18, <1>19, <1>20, <1>21, <1>22, <1>23, <1>24,
    <1>25, <1>26, <1>27, <1>28, <1>29, <1>30, <1>31, <1>32, <1>33, <1>34, <1>35, <1>36,
    <1>37, <1>38, <1>39, <1>40, <1>41 DEF Next, MainStep, SaveStep, CoverStep, WorkerStep

-----------------------------------------------------------------------------
(* The bounds, one component at a time *)

\* Every step keeps the channel of directories within its capacity.
LEMMA DirBoundsStep ==
    ASSUME Shape, DirBounds, Next
    PROVE  DirBounds'
<1>1. main \in MainType /\ dirs \in DirsType /\ Cardinality(Workers) \in Nat /\ Dirs \in Nat
  BY PipelineAssumption, FS_CardinalityType DEF Shape
<1>2. CASE WalkCheck
  <2>1. CASE ctx = "cancelled" \/ dirs.err # "no"
    <3>1. main' = main /\ main.pc = "walk" /\ dirs'.len = dirs.len /\ dirs'.left = 0
      BY <1>1, <1>2, <2>1 DEF WalkCheck, DirsType
    <3> QED BY <1>1, <3>1 DEF DirBounds
  <2>2. CASE ~(ctx = "cancelled" \/ dirs.err # "no")
    BY <1>1, <1>2, <2>2 DEF WalkCheck, DirBounds
  <2> QED BY <2>1, <2>2
<1>3. CASE WalkSend
  <2>1. PICK l \in Int, k \in Int : l = dirs.len + 1 /\ k = dirs.left - 1
    BY <1>1 DEF DirsType
  <2>2. dirs' = [dirs EXCEPT !.len = l, !.left = k]
    BY <1>3, <2>1, Zenon DEF WalkSend
  <2>3. dirs'.len = l /\ dirs'.left = k
    BY <1>1, <2>2 DEF DirsType
  <2>4. main'.pc = "walk" /\ main.pc = "send" /\ dirs.len < Cardinality(Workers)
    BY <1>1, <1>3 DEF WalkSend, MainType
  <2> QED BY <1>1, <2>1, <2>3, <2>4 DEF DirBounds
<1>4. ASSUME NEW w \in Workers, WorkerReceives(w) PROVE DirBounds'
  <2>1. CASE dirs' = dirs
    BY <1>4, <2>1 DEF WorkerReceives, DirBounds
  <2>2. CASE dirs.len > 0 /\ dirs' = [dirs EXCEPT !.len = @ - 1]
    <3>1. PICK l \in Int : l = dirs.len - 1
      BY <1>1 DEF DirsType
    <3>2. dirs' = [dirs EXCEPT !.len = l]
      BY <2>2, <3>1, Zenon
    <3>3. dirs'.len = l /\ dirs'.left = dirs.left
      BY <1>1, <3>2 DEF DirsType
    <3>4. main' = main
      BY <1>4 DEF WorkerReceives
    <3> QED BY <1>1, <2>2, <3>1, <3>3, <3>4 DEF DirBounds
  <2> QED BY <1>4, <2>1, <2>2 DEF WorkerReceives
<1>5. CASE /\ dirs'.len = dirs.len /\ dirs'.left = dirs.left
           /\ main' = main \/ main'.pc # "send"
  BY <1>5 DEF DirBounds
<1>6. ASSUME NEW w \in Workers, WorkerFails(w) \/ WorkerFile(w) PROVE DirBounds'
  BY <1>1, <1>5, <1>6 DEF WorkerFails, WorkerFile, WorkerGivesUp, DirsType
<1>7. CASE WalkFails \/ WalkDone
  BY <1>1, <1>5, <1>7 DEF WalkFails, WalkDone, DirsType, MainType
<1>8. CASE \/ AwaitWorkers \/ CloseQueue \/ FlagQueue \/ AwaitSave \/ AwaitCover
           \/ DeferRollback \/ DeferCheck \/ DeferCloseCover
  BY <1>1, <1>5, <1>8
  DEF AwaitWorkers, CloseQueue, FlagQueue, AwaitSave, AwaitCover, DeferRollback, DeferCheck,
      DeferCloseCover, MainType
<1>9. CASE Finish
  BY <1>1, <1>5, <1>9, FinishEnds DEF Finish
<1>10. CASE SaveStep \/ TaggerStep \/ CoverStep
  BY <1>5, <1>10
  DEF SaveStep, TaggerStep, CoverStep, SaveReceives, SaveDrained, SaveFails, SaveDies, SaveSong,
      SaveSendsCover, SaveWrites, SaveTags, SaveTagged, SaveLinks, SaveEnds, SavePosts, SaveChecks,
      SaveClosesCover, SaveCancels, CovererStarts, CovererStep, CovererReturns, CovererChecks,
      CovererCloses, CovererPosts, CovererCancels
<1>11. ASSUME NEW w \in Workers, WorkerDirDone(w) \/ WorkerPuts(w) PROVE DirBounds'
  BY <1>5, <1>11 DEF WorkerDirDone, WorkerPuts
<1> QED
  BY <1>2, <1>3, <1>4, <1>6, <1>7, <1>8, <1>9, <1>10, <1>11 DEF Next, MainStep, WorkerStep

\* What a worker's step makes of its files: the directory it takes, the file it has
\* dealt with, none when it gives up.
LEMMA WorkerMoves ==
    ASSUME Shape, NEW w \in Workers, WorkerStep(w)
    PROVE  /\ \A v \in Workers \ {w} : worker'[v] = worker[v]
           /\ \/ /\ worker[w].pc = "recv"
                 /\ worker'[w].pc = "file" /\ worker'[w].files = Files
              \/ /\ worker[w].pc = "recv"
                 /\ worker'[w].pc = "gone" /\ worker'[w].files = worker[w].files
              \/ /\ worker[w].pc = "file" /\ worker[w].files = 0
                 /\ worker'[w].pc = "recv" /\ worker'[w].files = 0
              \/ worker'[w].pc = "gone" /\ worker'[w].files = 0
              \/ /\ worker[w].pc = "file" /\ worker[w].files > 0
                 /\ worker'[w].pc \in {"file", "put"}
                 /\ worker'[w].files = worker[w].files - 1
              \/ /\ worker[w].pc = "put"
                 /\ worker'[w].pc = "file" /\ worker'[w].files = worker[w].files
              \/ worker' = worker
<1>0. worker \in [Workers -> WorkerType] /\ worker[w].files \in Int
  BY DEF Shape, WorkerType
<1>1. CASE WorkerReceives(w)
  BY <1>0, <1>1 DEF WorkerReceives, WorkerType
<1>2. CASE WorkerDirDone(w)
  BY <1>0, <1>2 DEF WorkerDirDone, WorkerType
<1>3. CASE WorkerFails(w)
  BY <1>0, <1>3 DEF WorkerFails, WorkerGivesUp, WorkerType
<1>4. CASE WorkerFile(w)
  BY <1>0, <1>4 DEF WorkerFile, WorkerGivesUp, WorkerType
<1>5. CASE WorkerPuts(w)
  BY <1>0, <1>5 DEF WorkerPuts, WorkerType
<1> QED BY <1>1, <1>2, <1>3, <1>4, <1>5 DEF WorkerStep

\* Only a worker's own steps change its files.
LEMMA OthersKeepWorkers ==
    ASSUME MainStep \/ SaveStep \/ TaggerStep \/ CoverStep
    PROVE  worker' = worker
  BY DEF MainStep, SaveStep, TaggerStep, CoverStep, WalkCheck, WalkSend, WalkFails,
      WalkDone, AwaitWorkers, CloseQueue, FlagQueue, AwaitSave, AwaitCover, Finish, DeferRollback,
      DeferCheck, DeferCloseCover, SaveReceives, SaveDrained, SaveFails, SaveDies, SaveSong,
      SaveSendsCover, SaveWrites, SaveTags, SaveTagged, SaveLinks, SaveEnds,
      SavePosts, SaveChecks, SaveClosesCover, SaveCancels, CovererStarts, CovererStep,
      CovererReturns, CovererChecks, CovererCloses, CovererPosts, CovererCancels

\* A worker has at most the files of one directory before it, none between directories.
LEMMA WorkerBoundsStep ==
    ASSUME Shape, WorkerBounds, Next
    PROVE  WorkerBounds'
<1>1. CASE MainStep \/ SaveStep \/ TaggerStep \/ CoverStep
  BY <1>1, OthersKeepWorkers DEF WorkerBounds
<1>2. ASSUME NEW w \in Workers, WorkerStep(w) PROVE WorkerBounds'
  BY <1>2, WorkerMoves, PipelineAssumption DEF WorkerBounds
<1> QED BY <1>1, <1>2 DEF Next

\* What each step makes of songQueue: one file more, one less, or the closed flag.
LEMMA QueueMoves ==
    ASSUME queue \in QueueType, Next
    PROVE  \/ queue'.len = queue.len
           \/ queue.len < Batch /\ queue'.len = queue.len + 1
           \/ queue.len > 0 /\ queue'.len = queue.len - 1
<1>1. ASSUME NEW w \in Workers, WorkerPuts(w)
      PROVE  queue'.len = queue.len \/ (queue.len < Batch /\ queue'.len = queue.len + 1)
  BY <1>1 DEF WorkerPuts, QueueType
<1>2. CASE SaveReceives
  BY <1>2 DEF SaveReceives, QueueType
<1>3. CASE CloseQueue \/ FlagQueue
  BY <1>3 DEF CloseQueue, FlagQueue, QueueType
<1>4. CASE queue' = queue
  BY <1>4
<1> QED
  BY <1>1, <1>2, <1>3, <1>4
  DEF Next, MainStep, SaveStep, TaggerStep, CoverStep, WorkerStep, WalkCheck, WalkSend, WalkFails,
      WalkDone, AwaitWorkers, AwaitSave, AwaitCover, Finish, DeferRollback, DeferCheck,
      DeferCloseCover, WorkerReceives, WorkerDirDone, WorkerFails, WorkerFile, SaveDrained,
      SaveFails, SaveDies, SaveSong, SaveSendsCover, SaveWrites, SaveTags, SaveTagged, SaveLinks,
      SaveEnds, SavePosts, SaveChecks, SaveClosesCover, SaveCancels, CovererStarts, CovererStep,
      CovererReturns, CovererChecks, CovererCloses, CovererPosts, CovererCancels

\* Every step keeps songQueue within its capacity.
LEMMA QueueBoundsStep ==
    ASSUME Shape, QueueBounds, Next
    PROVE  QueueBounds'
<1>1. queue \in QueueType
  BY DEF Shape
<1> QED BY <1>1, QueueMoves, PipelineAssumption DEF QueueBounds

\* A batch that is handed on for storing keeps its other fields.
LEMMA StoringFields ==
    ASSUME save \in SaveType, NEW n \in Int
    PROVE  /\ Storing(n).pc = "store" /\ Storing(n).batch = n /\ Storing(n).todo = n
           /\ Storing(n).last = save.last
           /\ [Storing(n) EXCEPT !.last = TRUE].pc = "store"
           /\ [Storing(n) EXCEPT !.last = TRUE].batch = n
           /\ [Storing(n) EXCEPT !.last = TRUE].todo = n
  BY DEF Storing, SaveType

\* The batch the save loop collects, the steps that change it.
LEMMA BatchMoves ==
    ASSUME save \in SaveType, SaveBounds
    PROVE  /\ SaveReceives =>
                \/ tags.err # "no" /\ save'.pc = "closetags" /\ save'.batch = save.batch
                                   /\ save'.todo = save.todo
                \/ /\ tags.err = "no" /\ save'.batch = save.batch + 1
                   /\ \/ save'.pc = "store" /\ save'.batch = Batch /\ save'.todo = Batch
                      \/ save'.pc = "recv" /\ save'.batch # Batch /\ save'.todo = save.todo
           /\ SaveDrained => /\ save'.batch = save.batch
                             /\ \/ save'.pc = "store" /\ save'.todo = save.batch
                                \/ save'.pc = "closetags" /\ save'.todo = save.todo
           /\ SaveLinks => /\ save'.batch = 0 /\ save'.todo = save.todo
                           /\ save'.pc \in {"closetags", "recv"}
<1>1. save.batch \in Int /\ save.todo \in Int /\ Batch \in Int
  BY PipelineAssumption DEF SaveType
<1>2. ASSUME SaveReceives
      PROVE  \/ tags.err # "no" /\ save'.pc = "closetags" /\ save'.batch = save.batch
                                /\ save'.todo = save.todo
             \/ /\ tags.err = "no" /\ save'.batch = save.batch + 1
                /\ \/ save'.pc = "store" /\ save'.batch = Batch /\ save'.todo = Batch
                   \/ save'.pc = "recv" /\ save'.batch # Batch /\ save'.todo = save.todo
  <2>1. CASE tags.err # "no"
    <3>1. save' = [save EXCEPT !.pc = "closetags"]
      BY <1>2, <2>1 DEF SaveReceives
    <3> QED BY <2>1, <3>1 DEF SaveType
  <2>2. CASE tags.err = "no" /\ save.batch + 1 = Batch
    <3>1. save' = Storing(Batch)
      BY <1>2, <2>2 DEF SaveReceives
    <3> QED BY <1>1, <2>2, <3>1, StoringFields
  <2>3. CASE tags.err = "no" /\ save.batch + 1 # Batch
    <3>1. PICK b \in Int : b = save.batch + 1
      BY <1>1
    <3>2. save' = [save EXCEPT !.batch = b] /\ save.pc = "recv"
      BY <1>2, <2>3, <3>1 DEF SaveReceives
    <3>3. save'.batch = b /\ save'.pc = "recv" /\ save'.todo = save.todo
      BY <3>2 DEF SaveType
    <3> QED BY <2>3, <3>1, <3>3
  <2> QED BY <2>1, <2>2, <2>3
<1>3. ASSUME SaveDrained
      PROVE  /\ save'.batch = save.batch
             /\ \/ save'.pc = "store" /\ save'.todo = save.batch
                \/ save'.pc = "closetags" /\ save'.todo = save.todo
  <2>1. CASE tags.err = "no"
    <3>1. save' = [Storing(save.batch) EXCEPT !.last = TRUE]
      BY <1>3, <2>1 DEF SaveDrained
    <3> QED BY <1>1, <3>1, StoringFields
  <2>2. CASE tags.err # "no"
    BY <1>3, <2>2 DEF SaveDrained, SaveType
  <2> QED BY <2>1, <2>2
<1>4. ASSUME SaveLinks
      PROVE  /\ save'.batch = 0 /\ save'.todo = save.todo
             /\ save'.pc \in {"closetags", "recv"}
  BY <1>4 DEF SaveLinks, SaveType
<1> QED BY <1>2, <1>3, <1>4

\* The steps that leave the batch as it is.
LEMMA BatchKept ==
    ASSUME save \in SaveType, Next, ~SaveReceives, ~SaveLinks, ~SaveDrained
    PROVE  /\ save'.batch = save.batch
           /\ \/ save' = save
              \/ save'.todo = save.todo /\ save'.pc \notin {"recv", "link", "cover"}
              \/ save.pc = "store" /\ save.todo > 0 /\ save'.pc = "cover" /\ save'.todo = save.todo
              \/ save.todo > 0 /\ save'.todo = save.todo - 1 /\ save'.pc \in {"store", "tag"}
              \/ save.pc = "cover" /\ save'.todo = save.todo - 1 /\ save'.pc = "store"
              \/ save'.pc = "tag" /\ save'.todo = save.batch
              \/ save.todo = 0 /\ save'.todo = 0 /\ save'.pc = "link"
<1>1. save.todo - 1 \in Int
  BY DEF SaveType
<1>2. CASE SaveFails \/ SaveEnds \/ SavePosts \/ SaveChecks \/ SaveClosesCover \/ SaveCancels
  BY <1>2 DEF SaveFails, SaveEnds, SavePosts, SaveChecks, SaveClosesCover, SaveCancels, SaveType
<1>3. CASE SaveSong
  BY <1>1, <1>3 DEF SaveSong, SaveType
<1>4. CASE SaveSendsCover
  BY <1>1, <1>4 DEF SaveSendsCover, SaveType
<1>5. CASE SaveWrites
  BY <1>5 DEF SaveWrites, SaveType
<1>6. CASE SaveTags
  BY <1>1, <1>6 DEF SaveTags, SaveType
<1>7. CASE SaveTagged
  BY <1>7 DEF SaveTagged, SaveType
<1>8. CASE save' = save
  BY <1>8
<1> QED
  BY <1>2, <1>3, <1>4, <1>5, <1>6, <1>7, <1>8
  DEF Next, MainStep, SaveStep, TaggerStep, CoverStep, WorkerStep, WalkCheck, WalkSend, WalkFails,
      WalkDone, AwaitWorkers, CloseQueue, FlagQueue, AwaitSave, AwaitCover, Finish, DeferRollback,
      DeferCheck, DeferCloseCover, WorkerReceives, WorkerDirDone, WorkerFails, WorkerFile,
      WorkerPuts, SaveDies, CovererStarts, CovererStep, CovererReturns, CovererChecks,
      CovererCloses, CovererPosts, CovererCancels

\* Every step keeps the batch within its size and a loop over it within the batch.
LEMMA SaveBoundsStep ==
    ASSUME Shape, SaveBounds, Next
    PROVE  SaveBounds'
<1>1. /\ save \in SaveType /\ save.batch \in 0 .. Batch /\ save.todo \in 0 .. save.batch
      /\ Batch \in Nat
  BY PipelineAssumption DEF Shape, SaveBounds
<1>2. CASE SaveReceives
  <2>1. save.pc = "recv" /\ save.batch < Batch /\ save.todo = 0
    BY <1>2 DEF SaveReceives, SaveBounds
  <2> QED BY <1>1, <1>2, <2>1, BatchMoves DEF SaveBounds
<1>3. CASE SaveDrained
  BY <1>1, <1>3, BatchMoves DEF SaveBounds
<1>4. CASE SaveLinks
  <2>1. save.todo = 0 /\ Batch > 0
    BY <1>4, PipelineAssumption DEF SaveLinks, SaveBounds
  <2> QED BY <1>1, <1>4, <2>1, BatchMoves DEF SaveBounds
<1>5. CASE ~SaveReceives /\ ~SaveLinks /\ ~SaveDrained
  BY <1>1, <1>5, BatchKept DEF SaveBounds
<1> QED BY <1>2, <1>3, <1>4, <1>5

\* A cover worker takes an album if there is one, and leaves or stays.
LEMMA CovererTakes ==
    ASSUME cover \in CoverType, CovererStep
    PROVE  /\ cover'.len = cover.len \/ (cover.len > 0 /\ cover'.len = cover.len - 1)
           /\ cover'.workers <= cover.workers
<1>1. PICK l \in Int, n \in Nat : l = cover.len - 1 /\ n = cover.workers - 1
  BY DEF CoverType, CovererStep
<1>2. cover.workers \in Nat /\ n <= cover.workers
  BY <1>1 DEF CoverType
<1>3. \/ cover.len > 0 /\ cover' = [cover EXCEPT !.len = l, !.workers = n]
      \/ cover.len > 0 /\ cover' = [cover EXCEPT !.len = l]
      \/ cover.len > 0 /\ cover' = [cover EXCEPT !.len = l, !.workers = n, !.err = "failed"]
      \/ cover' = [cover EXCEPT !.workers = n]
  BY <1>1, Zenon DEF CovererStep
<1>4. CASE cover.len > 0 /\ cover' = [cover EXCEPT !.len = l, !.workers = n]
  BY <1>1, <1>2, <1>4 DEF CoverType
<1>5. CASE cover.len > 0 /\ cover' = [cover EXCEPT !.len = l]
  BY <1>1, <1>2, <1>5 DEF CoverType
<1>6. CASE cover.len > 0 /\ cover' = [cover EXCEPT !.len = l, !.workers = n, !.err = "failed"]
  BY <1>1, <1>2, <1>6 DEF CoverType
<1>7. CASE cover' = [cover EXCEPT !.workers = n]
  BY <1>1, <1>2, <1>7 DEF CoverType
<1> QED BY <1>3, <1>4, <1>5, <1>6, <1>7

\* Every step keeps setAlbumCover within its capacity and starts no cover worker.
LEMMA CoverBoundsStep ==
    ASSUME Shape, CoverBounds, Next
    PROVE  CoverBounds'
<1>1. /\ cover \in CoverType /\ save \in SaveType /\ cover.len \in Int /\ cover.workers \in Nat
      /\ CoverWorkers \in Nat \ {0}
  BY PipelineAssumption DEF Shape, CoverType
<1>2. CASE CovererStep
  <2>1. cover'.workers \in Nat
    BY <1>1, <1>2, CovererSteps DEF CoverType
  <2> QED BY <1>1, <1>2, <2>1, CovererTakes DEF CoverBounds
<1>3. CASE SaveSendsCover
  <2>1. \/ cover' = cover
        \/ cover.len < CoverWorkers /\ cover'.len = cover.len + 1 /\ cover'.workers = cover.workers
    BY <1>1, <1>3, CoverSent DEF SaveSendsCover
  <2> QED BY <1>1, <2>1 DEF CoverBounds
<1>4. CASE CovererStarts
  BY <1>1, <1>4, CovererStarted DEF CoverBounds
<1>5. CASE cover'.len = cover.len /\ cover'.workers = cover.workers
  BY <1>5 DEF CoverBounds
<1>6. CASE DeferCloseCover \/ SaveClosesCover
  BY <1>1, <1>5, <1>6, CoverCloses DEF DeferCloseCover, SaveClosesCover
<1>7. CASE CovererCloses
  BY <1>1, <1>5, <1>7, CovererClosed
<1>8. CASE CovererReturns \/ CovererChecks \/ CovererPosts \/ CovererCancels
  BY <1>1, <1>5, <1>8 DEF CovererReturns, CovererChecks, CovererPosts, CovererCancels, CoverType
<1>9. CASE cover' = cover
  BY <1>5, <1>9
<1> QED
  BY <1>2, <1>3, <1>4, <1>6, <1>7, <1>8, <1>9
  DEF Next, MainStep, SaveStep, TaggerStep, CoverStep, WorkerStep, WalkCheck, WalkSend, WalkFails,
      WalkDone, AwaitWorkers, CloseQueue, FlagQueue, AwaitSave, AwaitCover, Finish, DeferRollback,
      DeferCheck, WorkerReceives, WorkerDirDone, WorkerFails, WorkerFile, WorkerPuts, SaveReceives,
      SaveDrained, SaveFails, SaveDies, SaveSong, SaveWrites, SaveTags, SaveTagged, SaveLinks,
      SaveEnds, SavePosts, SaveChecks, SaveCancels

\* Every step keeps updateSongFiles within its capacity and starts no writer of ids.
LEMMA TagBoundsStep ==
    ASSUME Shape, TagBounds, Next
    PROVE  TagBounds'
<1>1. /\ tags \in TagsType /\ TagWorkers \in Nat
      /\ tags.len \in Int /\ tags.idle \in Nat /\ tags.busy \in Nat
  BY PipelineAssumption DEF Shape, TagsType
<1>2. CASE TaggerStep
  <2>1. tags'.idle \in Nat /\ tags'.busy \in Nat
    BY <1>1, <1>2, TaggerSteps DEF TagsType
  <2>2. /\ tags'.len = tags.len \/ (tags.len > 0 /\ tags'.len = tags.len - 1)
        /\ \/ tags'.idle + tags'.busy = tags.idle + tags.busy
           \/ tags'.idle + tags'.busy = tags.idle + tags.busy - 1
    BY <1>1, <1>2, TaggerSteps
  <2> QED BY <1>1, <2>1, <2>2 DEF TagBounds
<1>3. CASE SaveTags
  <2>1. \/ tags' = tags
        \/ /\ tags.len < TagWorkers /\ tags'.len = tags.len + 1
           /\ tags'.idle = tags.idle /\ tags'.busy = tags.busy
    BY <1>1, <1>3 DEF SaveTags, TagsType
  <2> QED BY <1>1, <2>1 DEF TagBounds
<1>4. CASE SaveEnds
  <2>1. tags'.len = tags.len /\ tags'.idle = tags.idle /\ tags'.busy = tags.busy
    BY <1>1, <1>4 DEF SaveEnds, TagsType
  <2> QED BY <2>1 DEF TagBounds
<1>5. CASE tags' = tags
  BY <1>5 DEF TagBounds
<1> QED
  BY <1>2, <1>3, <1>4, <1>5
  DEF Next, MainStep, SaveStep, CoverStep, WorkerStep, WalkCheck, WalkSend, WalkFails,
      WalkDone, AwaitWorkers, CloseQueue, FlagQueue, AwaitSave, AwaitCover, Finish, DeferRollback,
      DeferCheck, DeferCloseCover, WorkerReceives, WorkerDirDone, WorkerFails, WorkerFile,
      WorkerPuts, SaveReceives, SaveDrained, SaveFails, SaveDies, SaveSong, SaveSendsCover,
      SaveWrites, SaveTagged, SaveLinks, SavePosts, SaveChecks, SaveClosesCover, SaveCancels,
      CovererStarts, CovererStep, CovererReturns, CovererChecks, CovererCloses, CovererPosts,
      CovererCancels

\* Every step keeps all bounds.
LEMMA BoundsStep ==
    ASSUME Shape, Bounds, Next
    PROVE  Bounds'
  BY DirBoundsStep, WorkerBoundsStep, QueueBoundsStep, SaveBoundsStep, CoverBoundsStep,
     TagBoundsStep DEF Bounds

-----------------------------------------------------------------------------
(* Conservation of files *)

\* What has happened to a scan stays: a later step does not make it intact again.
LEMMA IntactBefore ==
    ASSUME Shape, WalkFacts, Next, Intact'
    PROVE  Intact
<1> USE PipelineAssumption
    DEF Intact, WalkFacts, Shape, MainType, DirsType, TagsType, SaveType, CoverType, Errors,
        Walking
<1>1. CASE WalkCheck
  BY <1>1 DEF WalkCheck
<1>2. CASE WalkSend
  BY <1>2 DEF WalkSend
<1>3. CASE WalkFails
  BY <1>3 DEF WalkFails
<1>4. CASE WalkDone
  BY <1>4 DEF WalkDone
<1>5. CASE AwaitWorkers
  BY <1>5 DEF AwaitWorkers
<1>6. CASE CloseQueue
  BY <1>6 DEF CloseQueue
<1>7. CASE FlagQueue
  BY <1>7 DEF FlagQueue
<1>8. CASE AwaitSave
  BY <1>8 DEF AwaitSave
<1>9. CASE AwaitCover
  BY <1>9 DEF AwaitCover
<1>10. CASE Finish
  <2>1. main.pc = "finish"
    BY <1>10 DEF Finish
  <2> QED BY <1>10, <2>1 DEF Finish
<1>11. CASE DeferRollback
  BY <1>11 DEF DeferRollback
<1>12. CASE DeferCheck
  BY <1>12 DEF DeferCheck
<1>13. CASE DeferCloseCover
  BY <1>13 DEF DeferCloseCover
<1>14. ASSUME NEW w \in Workers, WorkerReceives(w) PROVE Intact
  BY <1>14 DEF WorkerReceives
<1>15. ASSUME NEW w \in Workers, WorkerDirDone(w) PROVE Intact
  BY <1>15 DEF WorkerDirDone
<1>16. ASSUME NEW w \in Workers, WorkerFails(w) PROVE Intact
  BY <1>16 DEF WorkerFails, WorkerGivesUp
<1>17. ASSUME NEW w \in Workers, WorkerFile(w) PROVE Intact
  BY <1>17 DEF WorkerFile, WorkerGivesUp
<1>18. ASSUME NEW w \in Workers, WorkerPuts(w) PROVE Intact
  BY <1>18 DEF WorkerPuts
<1>19. CASE SaveReceives
  BY <1>19 DEF SaveReceives, Storing
<1>20. CASE SaveDrained
  BY <1>20 DEF SaveDrained, Storing
<1>21. CASE SaveFails
  BY <1>21 DEF SaveFails
<1>22. CASE SaveDies
  BY <1>22 DEF SaveDies
<1>23. CASE SaveSong
  BY <1>23 DEF SaveSong
<1>24. CASE SaveSendsCover
  BY <1>24 DEF SaveSendsCover
<1>25. CASE SaveWrites
  BY <1>25 DEF SaveWrites
<1>26. CASE SaveTags
  BY <1>26 DEF SaveTags
<1>27. CASE SaveTagged
  BY <1>27 DEF SaveTagged
<1>28. CASE SaveLinks
  BY <1>28 DEF SaveLinks
<1>29. CASE SaveEnds
  BY <1>29 DEF SaveEnds
<1>30. CASE SavePosts
  BY <1>30 DEF SavePosts
<1>31. CASE SaveChecks
  BY <1>31 DEF SaveChecks
<1>32. CASE SaveClosesCover
  BY <1>32 DEF SaveClosesCover
<1>33. CASE SaveCancels
  BY <1>33 DEF SaveCancels
<1>34. CASE TaggerStep
  <2>1. tags'.err = "no" => tags.err = "no"
    BY <1>34, TaggerSteps
  <2> QED BY <1>34, <2>1 DEF TaggerStep
<1>35. CASE CovererStarts
  BY <1>35 DEF CovererStarts
<1>36. CASE CovererStep
  BY <1>36 DEF CovererStep
<1>37. CASE CovererReturns
  BY <1>37 DEF CovererReturns
<1>38. CASE CovererChecks
  BY <1>38 DEF CovererChecks
<1>39. CASE CovererCloses
  BY <1>39 DEF CovererCloses
<1>40. CASE CovererPosts
  BY <1>40 DEF CovererPosts
<1>41. CASE CovererCancels
  BY <1>41 DEF CovererCancels
<1> HIDE PipelineAssumption
    DEF Intact, WalkFacts, Shape, MainType, DirsType, TagsType, SaveType, CoverType, Errors,
        Walking
<1> QED BY <1>1, <1>2, <1>3, <1>4, <1>5, <1>6, <1>7, <1>8, <1>9, <1>10, <1>11, <1>12,
    <1>13, <1>14, <1>15, <1>16, <1>17, <1>18, <1>19, <1>20, <1>21, <1>22, <1>23, <1>24,
    <1>25, <1>26, <1>27, <1>28, <1>29, <1>30, <1>31, <1>32, <1>33, <1>34, <1>35, <1>36,
    <1>37, <1>38, <1>39, <1>40, <1>41 DEF Next, MainStep, SaveStep, CoverStep, WorkerStep

\* The files in the hands of all workers but one.
OtherPairs(f, w) == UNION {{v} \X (1 .. f[v]) : v \in Workers \ {w}}

\* The files in the hands of one worker count apart from the others'.
LEMMA PairsSplit ==
    ASSUME NEW f \in [Workers -> 0 .. Files], NEW w \in Workers
    PROVE  /\ Cardinality(OtherPairs(f, w)) \in Nat
           /\ Cardinality(Pairs(f)) = Cardinality(OtherPairs(f, w)) + f[w]
<1> DEFINE own == {w} \X (1 .. f[w])
<1>0. IsFiniteSet(Workers) /\ Files \in Nat /\ f[w] \in Nat
  BY PipelineAssumption
<1>1. IsFiniteSet(OtherPairs(f, w)) /\ Cardinality(OtherPairs(f, w)) \in Nat
  <2>1. IsFiniteSet(Workers \X (1 .. Files))
    <3>1. IsFiniteSet(1 .. Files)
      BY <1>0, FS_Interval
    <3> QED BY <1>0, <3>1, FS_Product
  <2>2. OtherPairs(f, w) \subseteq Workers \X (1 .. Files)
    BY <1>0 DEF OtherPairs
  <2> QED BY <2>1, <2>2, FS_Subset, FS_CardinalityType
<1>2. IsFiniteSet(own) /\ Cardinality(own) = f[w]
  <2>1. IsFiniteSet(1 .. f[w]) /\ Cardinality(1 .. f[w]) = f[w]
    BY <1>0, FS_Interval
  <2>2. IsFiniteSet({w}) /\ Cardinality({w}) = 1
    BY FS_Singleton
  <2>3. IsFiniteSet(own) /\ Cardinality(own) = Cardinality({w}) * Cardinality(1 .. f[w])
    BY <2>1, <2>2, FS_Product, Zenon
  <2>4. \A k \in Nat : 1 * k = k
    OBVIOUS
  <2> QED BY <1>0, <2>1, <2>2, <2>3, <2>4
<1>3. Pairs(f) = OtherPairs(f, w) \cup own /\ OtherPairs(f, w) \cap own = {}
  BY DEF Pairs, OtherPairs
<1> HIDE DEF own
<1>4. Cardinality(OtherPairs(f, w) \cup own) =
        Cardinality(OtherPairs(f, w)) + Cardinality(own) - Cardinality(OtherPairs(f, w) \cap own)
  BY <1>1, <1>2, FS_Union
<1>5. Cardinality(OtherPairs(f, w) \cap own) = 0
  BY <1>3, FS_EmptySet, Zenon
<1>6. Cardinality(OtherPairs(f, w) \cup own) = Cardinality(OtherPairs(f, w)) + f[w]
  BY <1>0, <1>1, <1>2, <1>4, <1>5
<1> QED BY <1>1, <1>3, <1>6, Zenon

\* Nobody has more than a directory in hand.
LEMMA HeldType ==
    ASSUME Shape, WorkerBounds
    PROVE  /\ Held \in [Workers -> 0 .. Files]
           /\ \A w \in Workers :
                Held[w] = worker[w].files + IF worker[w].pc = "put" THEN 1 ELSE 0
           /\ InHands \in Nat
<1>1. Files \in Nat
  BY PipelineAssumption
<1>2. \A w \in Workers : worker[w].files + (IF worker[w].pc = "put" THEN 1 ELSE 0) \in 0 .. Files
  BY <1>1 DEF WorkerBounds
<1>3. Held \in [Workers -> 0 .. Files]
  BY <1>2 DEF Held
<1>4. PICK w \in Workers : TRUE
  BY PipelineAssumption
<1>5. InHands \in Nat
  BY <1>3, <1>4, PairsSplit DEF InHands
<1> QED BY <1>3, <1>5 DEF Held

\* When one worker's share changes, the number of files in hands changes by as much.
LEMMA HandsMove ==
    ASSUME Shape, WorkerBounds, Shape', WorkerBounds', NEW w \in Workers,
           \A v \in Workers \ {w} : worker'[v] = worker[v]
    PROVE  /\ InHands' = InHands - Held[w] + Held'[w]
           /\ InHands \in Nat /\ InHands' \in Nat
           /\ Held[w] \in Nat /\ Held'[w] \in Nat
<1>1. /\ Held \in [Workers -> 0 .. Files]
      /\ \A v \in Workers :
           Held[v] = worker[v].files + IF worker[v].pc = "put" THEN 1 ELSE 0
      /\ InHands \in Nat
  BY HeldType
<1>2. /\ Held' \in [Workers -> 0 .. Files]
      /\ \A v \in Workers :
           Held'[v] = worker'[v].files + IF worker'[v].pc = "put" THEN 1 ELSE 0
      /\ InHands' \in Nat
  <2>1. ASSUME Shape', WorkerBounds'
        PROVE  /\ Held' \in [Workers -> 0 .. Files]
               /\ \A v \in Workers :
                    Held'[v] = worker'[v].files + IF worker'[v].pc = "put" THEN 1 ELSE 0
               /\ InHands' \in Nat
    <3>1. Files \in Nat
      BY PipelineAssumption
    <3>2. \A v \in Workers :
            worker'[v].files + (IF worker'[v].pc = "put" THEN 1 ELSE 0) \in 0 .. Files
      BY <3>1 DEF WorkerBounds
    <3>3. Held' \in [Workers -> 0 .. Files]
      BY <3>2 DEF Held
    <3>4. InHands' \in Nat
      BY <3>3, PairsSplit DEF InHands
    <3> QED BY <3>3, <3>4 DEF Held
  <2> QED BY <2>1
<1>3. \A v \in Workers \ {w} : Held'[v] = Held[v]
  BY <1>1, <1>2
<1>4. OtherPairs(Held', w) = OtherPairs(Held, w)
  BY <1>3 DEF OtherPairs
<1>5. /\ InHands = Cardinality(OtherPairs(Held, w)) + Held[w]
      /\ Cardinality(OtherPairs(Held, w)) \in Nat
  BY <1>1, PairsSplit DEF InHands
<1>6. InHands' = Cardinality(OtherPairs(Held', w)) + Held'[w]
  BY <1>2, PairsSplit DEF InHands
<1>7. Held[w] \in Nat /\ Held'[w] \in Nat
  BY <1>1, <1>2, PipelineAssumption
<1>8. InHands' = Cardinality(OtherPairs(Held, w)) + Held'[w]
  BY <1>4, <1>6, Zenon
<1> QED BY <1>1, <1>2, <1>5, <1>7, <1>8

\* A step that leaves the tally, the batch and the queue leaves what is done.
LEMMA DoneKept ==
    ASSUME tally' = tally, save'.batch = save.batch, queue'.len = queue.len
    PROVE  Done' = Done
  BY DEF Done

\* A step that no worker takes leaves what is in their hands.
LEMMA HandsKept ==
    ASSUME worker' = worker
    PROVE  InHands' = InHands
  BY DEF InHands, Held

\* The three parts are numbers.
LEMMA PartTypes ==
    ASSUME Shape, Bounds
    PROVE  /\ Done \in Int /\ InHands \in Int /\ InDirs \in Int
           /\ dirs.left \in Nat /\ dirs.len \in Nat /\ Files \in Nat
           /\ tally.saved \in Int /\ tally.skipped \in Int /\ save.batch \in Nat
           /\ queue.len \in Nat
<1>1. /\ tally.saved \in Int /\ tally.skipped \in Int /\ save.batch \in Nat /\ queue.len \in Nat
      /\ Files \in Nat
  BY PipelineAssumption DEF Shape, TallyType, Bounds, SaveBounds, QueueBounds
<1>2. dirs.left \in Nat /\ dirs.len \in Nat
  BY PipelineAssumption, FS_CardinalityType DEF Bounds, DirBounds
<1>3. \A d, k \in Nat : d * k \in Int
  OBVIOUS
<1>4. dirs.left + dirs.len \in Nat
  BY <1>2
<1>5. InDirs \in Int
  BY <1>1, <1>3, <1>4 DEF InDirs
<1>6. InHands \in Int
  BY HeldType DEF Bounds
<1> QED BY <1>1, <1>2, <1>5, <1>6 DEF Done

\* Sending a directory moves it from the walk to the channel.
LEMMA SendKeepsDirs ==
    ASSUME Shape, Bounds, WalkSend
    PROVE  InDirs' = InDirs
<1>1. dirs \in DirsType /\ dirs.left \in Nat /\ dirs.len \in Nat
  BY PartTypes DEF Shape
<1>2. PICK l \in Int, k \in Int : l = dirs.len + 1 /\ k = dirs.left - 1
  BY <1>1
<1>3. dirs' = [dirs EXCEPT !.len = l, !.left = k]
  BY <1>2, Zenon DEF WalkSend
<1>4. dirs'.len = l /\ dirs'.left = k
  BY <1>1, <1>3 DEF DirsType
<1>5. dirs'.left + dirs'.len = dirs.left + dirs.len
  BY <1>1, <1>2, <1>4
<1> QED BY <1>5 DEF InDirs

\* A walk that is cut short drops what it has not sent, in a scan that is not intact.
LEMMA CheckDropsDirs ==
    ASSUME Shape, Bounds, WalkCheck
    PROVE  InDirs' <= InDirs /\ (Intact' => InDirs' = InDirs)
<1>1. dirs \in DirsType /\ dirs.left \in Nat /\ dirs.len \in Nat /\ Files \in Nat /\ InDirs \in Int
  BY PartTypes DEF Shape
<1>2. CASE dirs' = dirs
  <2>1. InDirs' = InDirs
    BY <1>2 DEF InDirs
  <2> QED BY <1>1, <2>1
<1>3. CASE dirs' # dirs
  <2>1. dirs' = [dirs EXCEPT !.left = 0] /\ (ctx = "cancelled" \/ dirs.err # "no") /\ ctx' = ctx
    BY <1>3 DEF WalkCheck
  <2>2. dirs'.left = 0 /\ dirs'.len = dirs.len /\ dirs'.err = dirs.err
    BY <1>1, <2>1 DEF DirsType
  <2>3. \A a, b, k \in Nat : b * k <= (a + b) * k
    OBVIOUS
  <2>4. InDirs' <= InDirs
    BY <1>1, <2>2, <2>3 DEF InDirs
  <2> QED BY <2>1, <2>2, <2>4 DEF Intact
<1> QED BY <1>2, <1>3

\* A worker takes a directory.
LEMMA DirTaken ==
    ASSUME Shape, Bounds, NEW w \in Workers, WorkerReceives(w), dirs' # dirs
    PROVE  /\ InDirs' = InDirs - Files
           /\ worker'[w].pc = "file" /\ worker'[w].files = Files
<1>1. /\ dirs \in DirsType /\ dirs.left \in Nat /\ dirs.len \in Nat /\ Files \in Nat
      /\ worker \in [Workers -> WorkerType]
  BY PartTypes DEF Shape
<1>2. PICK l \in Int : l = dirs.len - 1
  BY <1>1
<1>3. /\ dirs' = [dirs EXCEPT !.len = l]
      /\ worker' = [worker EXCEPT ![w] = [pc |-> "file", files |-> Files]]
  BY <1>2 DEF WorkerReceives
<1>4. dirs'.len = l /\ dirs'.left = dirs.left
  BY <1>1, <1>3 DEF DirsType
<1>5. worker'[w].pc = "file" /\ worker'[w].files = Files
  BY <1>1, <1>3
<1>6. \A a, b \in Nat, k \in Nat : (a + (b - 1)) * k = (a + b) * k - k
  OBVIOUS
<1>7. InDirs' = InDirs - Files
  BY <1>1, <1>2, <1>4, <1>6 DEF InDirs
<1> QED BY <1>5, <1>7

\* The save loop takes a file from the queue into the batch, and drops it only after an
\* id could not be written.
LEMMA ReceiveDone ==
    ASSUME Shape, Bounds, SaveReceives
    PROVE  Done' <= Done /\ (Intact' => Done' = Done)
<1>1. /\ queue \in QueueType /\ save \in SaveType /\ SaveBounds
      /\ tally.saved \in Int /\ tally.skipped \in Int /\ save.batch \in Nat /\ queue.len \in Nat
  BY PartTypes DEF Shape, Bounds
<1>2. tally' = tally /\ tags' = tags /\ queue'.len = queue.len - 1
  BY <1>1 DEF SaveReceives, QueueType
<1>3. CASE tags.err # "no"
  <2>1. save'.batch = save.batch
    BY <1>1, <1>3, BatchMoves
  <2>2. Done' = tally.saved + tally.skipped + save.batch + (queue.len - 1)
    BY <1>2, <2>1 DEF Done
  <2>3. Done' <= Done
    BY <1>1, <2>2 DEF Done
  <2> QED BY <1>2, <1>3, <2>3 DEF Intact
<1>4. CASE tags.err = "no"
  <2>1. save'.batch = save.batch + 1
    BY <1>1, <1>4, BatchMoves
  <2>2. Done' = Done /\ Done \in Int
    BY <1>1, <1>2, <2>1 DEF Done
  <2> QED BY <2>2
<1> QED BY <1>3, <1>4

\* The end of a batch moves its files to those saved.
LEMMA LinksDone ==
    ASSUME Shape, Bounds, SaveLinks
    PROVE  /\ Done' = Done
           /\ tally'.saved = tally.saved + save.batch /\ tally'.skipped = tally.skipped
<1>1. /\ tally \in TallyType /\ save \in SaveType /\ SaveBounds
      /\ tally.saved \in Int /\ tally.skipped \in Int /\ save.batch \in Nat /\ queue.len \in Nat
  BY PartTypes DEF Shape, Bounds
<1>2. queue' = queue /\ save'.batch = 0
  BY <1>1, BatchMoves DEF SaveLinks
<1>3. PICK n \in Int : n = tally.saved + save.batch
  BY <1>1
<1>4. tally' = [tally EXCEPT !.saved = n]
  BY <1>3, Zenon DEF SaveLinks
<1>5. tally'.saved = n /\ tally'.skipped = tally.skipped
  BY <1>1, <1>4 DEF TallyType
<1>6. Done' = Done
  BY <1>1, <1>2, <1>3, <1>5 DEF Done
<1> QED BY <1>3, <1>5, <1>6

\* What a step may do to the account: keep it, or drop files and say so.
Balanced ==
    /\ Accounted' <= Accounted
    /\ Intact' => Accounted' = Accounted
    /\ tally'.saved >= tally.saved /\ tally'.skipped >= tally.skipped

\* No step of main, the save loop, the id writers or the coverers loses a file silently.
LEMMA OthersBalance ==
    ASSUME Shape, Bounds, Next, MainStep \/ SaveStep \/ TaggerStep \/ CoverStep
    PROVE  Balanced
<1>0. /\ Done \in Int /\ InHands \in Int /\ InDirs \in Int
      /\ tally.saved \in Int /\ tally.skipped \in Int /\ save.batch \in Nat
      /\ save \in SaveType /\ queue \in QueueType /\ dirs \in DirsType /\ SaveBounds
  BY PartTypes DEF Shape, Bounds
<1>1. InHands' = InHands
  BY HandsKept, OthersKeepWorkers
<1>2. ASSUME Done' = Done, InDirs' = InDirs, tally' = tally PROVE Balanced
  BY <1>0, <1>1, <1>2 DEF Balanced, Accounted
<1>3. CASE WalkCheck
  <2>1. tally' = tally /\ Done' = Done
    BY <1>3, DoneKept DEF WalkCheck
  <2>2. InDirs' <= InDirs /\ (Intact' => InDirs' = InDirs) /\ InDirs' \in Int
    <3>1. InDirs' <= InDirs /\ (Intact' => InDirs' = InDirs)
      BY <1>3, CheckDropsDirs
    <3>2. Shape' /\ Bounds'
      BY ShapeStep, BoundsStep
    <3>3. InDirs' \in Int
      <4>1. dirs'.left \in Nat /\ dirs'.len \in Nat /\ Files \in Nat
        BY <3>2, PipelineAssumption, FS_CardinalityType DEF Bounds, DirBounds
      <4>2. \A d, k \in Nat : d * k \in Int
        OBVIOUS
      <4>3. dirs'.left + dirs'.len \in Nat
        BY <4>1
      <4> QED BY <4>1, <4>2, <4>3 DEF InDirs
    <3> QED BY <3>1, <3>3
  <2>3. InDirs' <= InDirs /\ InDirs' \in Int
    BY <2>2
  <2>4. Accounted' <= Accounted
    <3>1. PICK a \in Int, b \in Int, c \in Int, d \in Int :
            a = Done /\ b = InHands /\ c = InDirs /\ d = InDirs'
      BY <1>0, <2>3
    <3>2. d <= c
      BY <2>3, <3>1
    <3>3. Accounted = a + b + c /\ Accounted' = a + b + d
      BY <1>1, <2>1, <3>1, Zenon DEF Accounted
    <3>4. a + b + d <= a + b + c
      BY <3>2
    <3> QED BY <3>3, <3>4
  <2>5. ASSUME Intact' PROVE Accounted' = Accounted
    <3>1. InDirs' = InDirs
      BY <2>2, <2>5
    <3> QED BY <1>1, <2>1, <3>1 DEF Accounted
  <2> QED BY <1>0, <2>1, <2>4, <2>5 DEF Balanced
<1>4. CASE WalkSend
  BY <1>2, <1>4, DoneKept, SendKeepsDirs DEF WalkSend
<1>5. CASE WalkFails \/ WalkDone
  <2>1. dirs'.left = dirs.left /\ dirs'.len = dirs.len
    BY <1>0, <1>5 DEF WalkFails, WalkDone, DirsType
  <2>2. InDirs' = InDirs
    BY <2>1 DEF InDirs
  <2> QED BY <1>2, <1>5, <2>2, DoneKept DEF WalkFails, WalkDone
<1>6. CASE SaveReceives
  <2>1. InDirs' = InDirs /\ tally' = tally
    BY <1>6 DEF SaveReceives, InDirs
  <2>2. Done' <= Done /\ (Intact' => Done' = Done)
    BY <1>6, ReceiveDone
  <2>3. Done' \in Int
    <3>1. save'.batch \in Int /\ queue'.len \in Int
      BY ShapeStep DEF Shape, SaveType, QueueType
    <3> QED BY <1>0, <2>1, <3>1 DEF Done
  <2>4. Accounted' <= Accounted
    <3>1. PICK a \in Int, b \in Int, c \in Int, d \in Int :
            a = Done /\ b = InHands /\ c = InDirs /\ d = Done'
      BY <1>0, <2>3
    <3>2. d <= a
      BY <2>2, <3>1
    <3>3. Accounted = a + b + c /\ Accounted' = d + b + c
      BY <1>1, <2>1, <3>1, Zenon DEF Accounted
    <3>4. d + b + c <= a + b + c
      BY <3>2
    <3> QED BY <3>3, <3>4
  <2>5. ASSUME Intact' PROVE Accounted' = Accounted
    <3>1. Done' = Done
      BY <2>2, <2>5
    <3> QED BY <1>1, <2>1, <3>1 DEF Accounted
  <2> QED BY <1>0, <2>1, <2>4, <2>5 DEF Balanced
<1>7. CASE SaveLinks
  <2>1. InDirs' = InDirs
    BY <1>7 DEF SaveLinks, InDirs
  <2> QED BY <1>0, <1>1, <1>7, <2>1, LinksDone DEF Balanced, Accounted
<1>8. CASE SaveDrained
  <2>1. tally' = tally /\ queue' = queue /\ dirs' = dirs /\ save'.batch = save.batch
    BY <1>0, <1>8, BatchMoves DEF SaveDrained
  <2> QED BY <1>2, <2>1, DoneKept DEF InDirs
<1>9. CASE CloseQueue \/ FlagQueue
  <2>1. tally' = tally /\ queue'.len = queue.len /\ save' = save /\ dirs' = dirs
    BY <1>0, <1>9 DEF CloseQueue, FlagQueue, QueueType
  <2> QED BY <1>2, <2>1, DoneKept DEF InDirs
<1>10. CASE /\ ~SaveReceives /\ ~SaveLinks /\ ~SaveDrained
            /\ tally' = tally /\ queue' = queue /\ dirs' = dirs
  BY <1>0, <1>2, <1>10, BatchKept, DoneKept DEF InDirs
<1> QED
  BY <1>3, <1>4, <1>5, <1>6, <1>7, <1>8, <1>9, <1>10
  DEF MainStep, SaveStep, TaggerStep, CoverStep, AwaitWorkers, AwaitSave, AwaitCover, Finish,
      DeferRollback, DeferCheck, DeferCloseCover, SaveFails, SaveDies, SaveSong, SaveSendsCover,
      SaveWrites, SaveTags, SaveTagged, SaveEnds, SavePosts, SaveChecks, SaveClosesCover,
      SaveCancels, CovererStarts, CovererStep, CovererReturns, CovererChecks, CovererCloses,
      CovererPosts, CovererCancels

\* How the parts of the account add up.
LEMMA Weigh ==
    ASSUME Done \in Int, InHands \in Int, InDirs \in Int,
           NEW x \in Int, NEW y \in Int, NEW z \in Int,
           Done' = Done + x, InHands' = InHands + y, InDirs' = InDirs + z,
           x + y + z <= 0, Intact' => x + y + z = 0,
           tally'.saved >= tally.saved, tally'.skipped >= tally.skipped
    PROVE  Balanced
<1>1. PICK a \in Int, b \in Int, c \in Int : a = Done /\ b = InHands /\ c = InDirs
  OBVIOUS
<1>2. Accounted = a + b + c /\ Accounted' = (a + x) + (b + y) + (c + z)
  BY <1>1, Zenon DEF Accounted
<1>3. (a + x) + (b + y) + (c + z) <= a + b + c
  OBVIOUS
<1>4. ASSUME Intact' PROVE Accounted' = Accounted
  <2>1. x + y + z = 0
    BY <1>4
  <2>2. (a + x) + (b + y) + (c + z) = a + b + c
    BY <2>1
  <2> QED BY <1>2, <2>2, Zenon
<1>5. Accounted' <= Accounted
  BY <1>2, <1>3
<1> QED BY <1>4, <1>5 DEF Balanced

\* The account when what one part loses another gains.
LEMMA Even ==
    ASSUME Done \in Int, InHands \in Int, InDirs \in Int,
           NEW x \in Int, NEW y \in Int, NEW z \in Int,
           Done' = Done + x, InHands' = InHands + y, InDirs' = InDirs + z, x + y + z = 0,
           tally'.saved >= tally.saved, tally'.skipped >= tally.skipped
    PROVE  Balanced
<1>1. x + y + z <= 0
  OBVIOUS
<1> QED BY <1>1, Weigh

\* No step of a worker loses a file silently: one that gives up leaves an error, and one
\* that finds songQueue closed runs after a failed walk.
LEMMA WorkerBalance ==
    ASSUME CommitInv, PanicFacts, Bounds, Next, NEW w \in Workers, WorkerStep(w)
    PROVE  Balanced
<1>0. /\ Done \in Int /\ InHands \in Int /\ InDirs \in Int /\ Files \in Nat
      /\ tally.saved \in Int /\ tally.skipped \in Int
      /\ queue \in QueueType /\ dirs \in DirsType /\ tally \in TallyType
      /\ worker \in [Workers -> WorkerType] /\ queue.len \in Int /\ save.batch \in Int
  BY PartTypes DEF CommitInv, Shape, QueueType
<1>1. Shape' /\ Bounds' /\ Shape
  BY ShapeStep, BoundsStep DEF CommitInv
<1>2. \A v \in Workers \ {w} : worker'[v] = worker[v]
  BY <1>1, WorkerMoves
<1>3. /\ InHands' = InHands - Held[w] + Held'[w]
      /\ Held[w] \in Nat /\ Held'[w] \in Nat /\ InHands' \in Nat
  BY <1>1, <1>2, HandsMove DEF Bounds
<1>4. /\ Held[w] = worker[w].files + IF worker[w].pc = "put" THEN 1 ELSE 0
      /\ Held'[w] = worker'[w].files + IF worker'[w].pc = "put" THEN 1 ELSE 0
  BY DEF Held
<1>5. PICK h \in Int, k \in Int : h = Held[w] /\ k = Held'[w] /\ InHands' = InHands + (k - h)
  <2>1. PICK h \in Int, k \in Int, b \in Int : h = Held[w] /\ k = Held'[w] /\ b = InHands
    BY <1>0, <1>3
  <2>2. InHands' = b - h + k
    BY <1>3, <2>1, Zenon
  <2>3. b - h + k = b + (k - h)
    OBVIOUS
  <2> QED BY <2>1, <2>2, <2>3
<1>6. ASSUME Done' = Done + 0, InDirs' = InDirs + 0, tally' = tally, k <= h, Intact' => k = h
      PROVE  Balanced
  <2>1. PICK d \in Int : d = k - h
    OBVIOUS
  <2>2. 0 + d + 0 <= 0 /\ (Intact' => 0 + d + 0 = 0) /\ 0 \in Int
    BY <1>6, <2>1
  <2>3. tally'.saved >= tally.saved /\ tally'.skipped >= tally.skipped
    BY <1>0, <1>6
  <2>4. InHands' = InHands + d
    BY <1>5, <2>1
  <2> QED BY <1>0, <1>6, <2>2, <2>3, <2>4, Weigh
<1>7. ASSUME dirs'.left = dirs.left, dirs'.len = dirs.len PROVE InDirs' = InDirs + 0
  <2>1. InDirs' = InDirs
    BY <1>7 DEF InDirs
  <2> QED BY <1>0, <2>1
<1>8. ASSUME tally' = tally, save' = save, queue'.len = queue.len PROVE Done' = Done + 0
  <2>1. Done' = Done
    BY <1>8, DoneKept
  <2> QED BY <1>0, <2>1
<1>9. CASE WorkerReceives(w)
  <2>1. tally' = tally /\ save' = save /\ queue' = queue /\ worker[w].pc = "recv"
    BY <1>9 DEF WorkerReceives
  <2>2. worker[w].files = 0 /\ h = 0
    BY <1>4, <1>5, <2>1 DEF Bounds, WorkerBounds
  <2>3. CASE dirs' = dirs
    <3>1. worker'[w].pc = "gone" /\ worker'[w].files = 0
      BY <1>0, <1>9, <2>2, <2>3 DEF WorkerReceives, DirsType, WorkerType
    <3>2. k = 0
      BY <1>4, <1>5, <3>1
    <3> QED BY <1>6, <1>7, <1>8, <2>1, <2>2, <2>3, <3>2
  <2>4. CASE dirs' # dirs
    <3>1. InDirs' = InDirs - Files /\ worker'[w].pc = "file" /\ worker'[w].files = Files
      BY <1>1, <1>9, <2>4, DirTaken
    <3>2. k = Files
      BY <1>0, <1>4, <1>5, <3>1
    <3>3. InDirs' = InDirs + (-Files) /\ -Files \in Int
      BY <1>0, <3>1
    <3>4. 0 + (k - h) + (-Files) = 0
      BY <1>0, <2>2, <3>2
    <3>5. Done' = Done + 0
      BY <1>8, <2>1
    <3>6. k - h \in Int /\ tally'.saved >= tally.saved /\ tally'.skipped >= tally.skipped
      BY <1>0, <2>1
    <3> QED BY <1>0, <1>5, <3>3, <3>4, <3>5, <3>6, Even
  <2> QED BY <2>3, <2>4
<1>10. CASE WorkerDirDone(w)
  <2>1. /\ tally' = tally /\ save' = save /\ queue' = queue /\ dirs' = dirs
        /\ worker[w].pc = "file" /\ worker[w].files = 0
        /\ worker'[w].pc = "recv" /\ worker'[w].files = 0
    BY <1>0, <1>10 DEF WorkerDirDone, WorkerType
  <2>2. h = 0 /\ k = 0
    BY <1>4, <1>5, <2>1
  <2> QED BY <1>6, <1>7, <1>8, <2>1, <2>2
<1>11. ASSUME NEW e \in {"failed", "cancelled"}, WorkerGivesUp(w, e),
              UNCHANGED <<tally, save, queue>>
       PROVE  Balanced
  <2>1. /\ dirs'.left = dirs.left /\ dirs'.len = dirs.len /\ dirs'.err # "no"
        /\ worker'[w].pc = "gone" /\ worker'[w].files = 0
    BY <1>0, <1>11 DEF WorkerGivesUp, DirsType
  <2>2. k = 0 /\ h >= 0
    BY <1>3, <1>4, <1>5, <2>1
  <2>3. ~Intact'
    BY <2>1 DEF Intact
  <2> QED BY <1>6, <1>7, <1>8, <1>11, <2>1, <2>2, <2>3
<1>12. CASE WorkerFails(w)
  BY <1>11, <1>12 DEF WorkerFails
<1>13. CASE WorkerFile(w)
  <2>1. worker[w].pc = "file" /\ worker[w].files > 0 /\ save' = save /\ queue' = queue
    BY <1>13 DEF WorkerFile
  <2>2. h = worker[w].files /\ worker[w].files \in Int
    BY <1>0, <1>4, <1>5, <2>1 DEF WorkerType
  <2>3. CASE WorkerGivesUp(w, "cancelled") /\ tally' = tally
    BY <1>11, <2>1, <2>3
  <2>4. CASE /\ worker' = [worker EXCEPT ![w].files = @ - 1]
             /\ tally' = [tally EXCEPT !.skipped = @ + 1] /\ dirs' = dirs
    <3>1. worker'[w].pc = "file" /\ worker'[w].files = worker[w].files - 1
      BY <1>0, <2>1, <2>4 DEF WorkerType
    <3>2. k = h - 1
      BY <1>4, <1>5, <2>2, <3>1
    <3>3. PICK n \in Int : n = tally.skipped + 1
      BY <1>0
    <3>4. tally' = [tally EXCEPT !.skipped = n]
      BY <2>4, <3>3, Zenon
    <3>5. tally'.saved = tally.saved /\ tally'.skipped = n
      BY <1>0, <3>4 DEF TallyType
    <3>6. Done' = tally.saved + n + save.batch + queue.len
      BY <2>1, <3>5 DEF Done
    <3>7. Done' = Done + 1
      BY <1>0, <3>3, <3>6 DEF Done
    <3>8. InDirs' = InDirs + 0
      BY <1>7, <2>4
    <3>9. k - h \in Int /\ 1 + (k - h) + 0 = 0
      BY <3>2
    <3>10. tally'.saved >= tally.saved /\ tally'.skipped >= tally.skipped
      BY <1>0, <3>3, <3>5
    <3> QED BY <1>0, <1>5, <3>7, <3>8, <3>9, <3>10, Even
  <2>5. CASE /\ worker' = [worker EXCEPT ![w] =
                             [pc |-> IF queue.flag THEN "file" ELSE "put",
                              files |-> worker[w].files - 1]]
             /\ dirs' = dirs /\ tally' = tally
    <3>1. /\ worker'[w].pc = IF queue.flag THEN "file" ELSE "put"
          /\ worker'[w].files = worker[w].files - 1
      BY <1>0, <2>5
    <3>2. CASE ~queue.flag
      <4>1. k = h
        BY <1>4, <1>5, <2>2, <3>1, <3>2
      <4> QED BY <1>6, <1>7, <1>8, <2>1, <2>5, <4>1
    <3>3. CASE queue.flag
      <4>1. k = h - 1
        BY <1>4, <1>5, <2>2, <3>1, <3>3
      <4>2. ~Intact'
        <5>1. main.err = "failed" /\ main' = main
          <6>1. ~AllGone
            BY <2>1 DEF AllGone
          <6>2. main.pc \notin Walking
            BY <3>3 DEF PanicFacts
          <6> QED BY <1>13, <6>1, <6>2 DEF PanicFacts, WorkerFile
        <5> QED BY <5>1 DEF Intact
      <4> QED BY <1>6, <1>7, <1>8, <2>1, <2>5, <4>1, <4>2
    <3> QED BY <3>2, <3>3
  <2> QED BY <1>13, <2>3, <2>4, <2>5 DEF WorkerFile
<1>14. CASE WorkerPuts(w)
  <2>1. tally' = tally /\ save' = save /\ dirs' = dirs /\ worker[w].pc = "put"
    BY <1>14 DEF WorkerPuts
  <2>2. CASE worker' = worker /\ queue' = queue
    <3>1. k = h
      BY <1>4, <1>5, <2>2
    <3> QED BY <1>6, <1>7, <1>8, <2>1, <2>2, <3>1
  <2>3. CASE /\ queue' = [queue EXCEPT !.len = @ + 1]
             /\ worker' = [worker EXCEPT ![w].pc = "file"]
    <3>1. /\ worker'[w].pc = "file" /\ worker'[w].files = worker[w].files
          /\ worker[w].files \in Int
      BY <1>0, <2>3 DEF WorkerType
    <3>2. k = h - 1
      BY <1>4, <1>5, <2>1, <3>1
    <3>3. queue'.len = queue.len + 1
      BY <1>0, <2>3 DEF QueueType
    <3>4. Done' = tally.saved + tally.skipped + save.batch + (queue.len + 1)
      BY <2>1, <3>3 DEF Done
    <3>5. Done' = Done + 1
      BY <1>0, <3>4 DEF Done
    <3>6. InDirs' = InDirs + 0
      BY <1>7, <2>1
    <3>7. k - h \in Int /\ 1 + (k - h) + 0 = 0
      BY <3>2
    <3>8. tally'.saved >= tally.saved /\ tally'.skipped >= tally.skipped
      BY <1>0, <2>1
    <3> QED BY <1>0, <1>5, <3>5, <3>6, <3>7, <3>8, Even
  <2> QED BY <1>14, <2>2, <2>3 DEF WorkerPuts
<1> QED BY <1>9, <1>10, <1>12, <1>13, <1>14 DEF WorkerStep

\* No step counts a file twice, and none loses one while the scan is intact.
LEMMA ConservedStep ==
    ASSUME CommitInv, PanicFacts, Bounds, WalkFacts, Conserved, Next
    PROVE  Conserved'
<1>1. Balanced
  BY OthersBalance, WorkerBalance DEF CommitInv, Next
<1>2. Shape /\ Shape' /\ Bounds'
  BY ShapeStep, BoundsStep DEF CommitInv
<1>3. /\ tally.saved \in Int /\ tally.skipped \in Int
      /\ tally'.saved \in Int /\ tally'.skipped \in Int
  BY <1>2 DEF Shape, TallyType
<1>4. tally'.saved >= 0 /\ tally'.skipped >= 0
  BY <1>1, <1>3 DEF Balanced, Conserved
<1>5. Accounted \in Int /\ Accounted' \in Int
  <2>1. Done \in Int /\ InHands \in Int /\ InDirs \in Int
    BY <1>2, PartTypes
  <2>2. Done' \in Int /\ InHands' \in Int /\ InDirs' \in Int
    <3>1. save'.batch \in Nat /\ queue'.len \in Nat
      BY <1>2, PipelineAssumption DEF Bounds, SaveBounds, QueueBounds
    <3>2. Done' \in Int
      BY <1>3, <3>1 DEF Done
    <3>3. InHands' \in Int
      <4>1. PICK w \in Workers : TRUE
        BY PipelineAssumption
      <4>2. \A v \in Workers :
              worker'[v].files + (IF worker'[v].pc = "put" THEN 1 ELSE 0) \in 0 .. Files
        BY <1>2, PipelineAssumption DEF Bounds, WorkerBounds
      <4>3. Held' \in [Workers -> 0 .. Files]
        BY <4>2 DEF Held
      <4> QED BY <4>1, <4>3, PairsSplit, PipelineAssumption DEF InHands
    <3>4. InDirs' \in Int
      <4>1. dirs'.left \in Nat /\ dirs'.len \in Nat /\ Files \in Nat
        BY <1>2, PipelineAssumption, FS_CardinalityType DEF Bounds, DirBounds
      <4>2. \A d, k \in Nat : d * k \in Int
        OBVIOUS
      <4>3. dirs'.left + dirs'.len \in Nat
        BY <4>1
      <4> QED BY <4>1, <4>2, <4>3 DEF InDirs
    <3> QED BY <3>2, <3>3, <3>4
  <2> QED BY <2>1, <2>2 DEF Accounted
<1>6. PICK n \in Int : n = Dirs * Files
  BY PipelineAssumption
<1>7. Accounted' <= n
  BY <1>1, <1>5, <1>6 DEF Balanced, Conserved
<1>8. ASSUME Intact' PROVE Accounted' = Dirs * Files
  <2>1. Intact
    BY <1>2, <1>8, IntactBefore
  <2> QED BY <1>1, <1>8, <2>1 DEF Balanced, Conserved
<1> QED BY <1>4, <1>6, <1>7, <1>8 DEF Conserved

\* When every worker is gone nothing is in their hands.
LEMMA HandsEmpty ==
    ASSUME WorkerBounds, AllGone
    PROVE  InHands = 0
<1>1. \A w \in Workers : worker[w].pc = "gone" /\ worker[w].files = 0
  BY DEF WorkerBounds, AllGone
<1>2. \A w \in Workers : Held[w] = 0
  BY <1>1 DEF Held
<1>3. Pairs(Held) = {}
  BY <1>2 DEF Pairs
<1> QED BY <1>3, FS_EmptySet DEF InHands

\* Scan commits: by then every file is saved or skipped, and no helper has failed.
LEMMA FinishWhole ==
    ASSUME CommitInv, Bounds, WalkFacts, Conserved, Finish, main'.committed
    PROVE  CommitsWhole'
<1>1. UNCHANGED <<dirs, worker, queue, save, tags, cover, tally, ctx>> /\ main.pc = "finish"
  BY DEF Finish
<1>2. AllGone /\ save.done = "no" /\ cover.done = "no" /\ ~main.committed
  BY <1>1 DEF CommitInv, MainFacts
<1>3. ctx = "live"
  <2>1. CASE main' = [main EXCEPT !.pc = "rollback", !.err = "failed"]
    <3>1. main'.committed = main.committed
      BY <2>1 DEF CommitInv, Shape, MainType
    <3> QED BY <1>2, <3>1
  <2> QED BY <2>1 DEF Finish
<1>4. save.pc \in Saved /\ save.err = "no" /\ cover.err = "no"
  BY <1>2 DEF CommitInv, SaveFacts, CoverFacts
<1>5. tags.err = "no" /\ save.last /\ queue.len = 0
  BY <1>4 DEF CommitInv, SaveFacts
<1>6. save.batch = 0
  BY <1>4, <1>5 DEF WalkFacts, Looping, Saved
<1>7. dirs.err = "no" /\ main.err # "failed" /\ dirs.left = 0
  <2>1. dirs.err \in Errors
    BY DEF CommitInv, Shape, DirsType
  <2> QED BY <1>1, <1>3, <2>1 DEF WalkFacts, Errors, Walking
<1>8. dirs.len = 0
  BY <1>2, <1>7, PipelineAssumption DEF WalkFacts, AllGone
<1>9. Intact
  BY <1>3, <1>5, <1>7 DEF Intact
<1>10. InHands = 0
  BY <1>2, HandsEmpty DEF Bounds
<1>11. InDirs = 0
  <2>1. \A k \in Nat : (0 + 0) * k = 0
    OBVIOUS
  <2> QED BY <1>7, <1>8, <2>1, PipelineAssumption DEF InDirs
<1>12. tally.saved \in Int /\ tally.skipped \in Int
  BY DEF CommitInv, Shape, TallyType
<1>13. Done = tally.saved + tally.skipped
  BY <1>5, <1>6, <1>12 DEF Done
<1>14. Accounted = tally.saved + tally.skipped
  BY <1>10, <1>11, <1>12, <1>13 DEF Accounted
<1>15. tally.saved + tally.skipped = Dirs * Files
  BY <1>9, <1>14 DEF Conserved
<1> QED BY <1>1, <1>4, <1>5, <1>15 DEF CommitsWhole

\* After the commit nobody is left to change what it rests on.
LEMMA WholeKept ==
    ASSUME CommitInv, CommitsWhole, main.committed, Next
    PROVE  CommitsWhole'
<1>1. /\ \A w \in Workers : worker[w].pc = "gone"
      /\ save.pc \in {"cancel", "gone"} /\ cover.pc \in {"cancel", "gone"}
      /\ tags.idle + tags.busy = 0
  BY DEF CommitInv, CommitsLast
<1>2. tags.idle \in Nat /\ tags.busy \in Nat /\ cover \in CoverType
  BY DEF CommitInv, Shape, TagsType
<1>3. ~TaggerStep
  BY <1>1, <1>2 DEF TaggerStep
<1>4. \A w \in Workers : ~WorkerStep(w)
  BY <1>1 DEF WorkerStep, WorkerReceives, WorkerDirDone, WorkerFails, WorkerFile, WorkerPuts
<1>5. CASE MainStep
  <2>1. UNCHANGED <<tally, tags>>
    BY <1>5 DEF MainStep, WalkCheck, WalkSend, WalkFails, WalkDone, AwaitWorkers, CloseQueue,
       FlagQueue, AwaitSave, AwaitCover, Finish, DeferRollback, DeferCheck, DeferCloseCover
  <2>2. cover'.err = cover.err
    <3>1. CASE DeferCloseCover
      BY <1>2, <3>1, CoverCloses DEF DeferCloseCover
    <3>2. CASE cover' = cover
      BY <3>2
    <3> QED
      BY <1>5, <3>1, <3>2 DEF MainStep, WalkCheck, WalkSend, WalkFails, WalkDone, AwaitWorkers,
         CloseQueue, FlagQueue, AwaitSave, AwaitCover, Finish, DeferRollback, DeferCheck
  <2> QED BY <2>1, <2>2 DEF CommitsWhole
<1>6. CASE SaveStep
  <2>1. SaveCancels
    BY <1>1, <1>6
    DEF SaveStep, SaveReceives, SaveDrained, SaveFails, SaveDies, SaveSong, SaveSendsCover,
        SaveWrites, SaveTags, SaveTagged, SaveLinks, SaveEnds, SavePosts, SaveChecks,
        SaveClosesCover
  <2> QED BY <2>1 DEF SaveCancels, CommitsWhole
<1>7. CASE CoverStep
  <2>1. CovererCancels
    BY <1>1, <1>7
    DEF CoverStep, CovererStarts, CovererStep, CovererReturns, CovererChecks, CovererCloses,
        CovererPosts
  <2>2. UNCHANGED <<tally, tags>> /\ cover'.err = cover.err
    BY <1>2, <2>1 DEF CovererCancels, CoverType
  <2> QED BY <2>2 DEF CommitsWhole
<1> QED BY <1>3, <1>4, <1>5, <1>6, <1>7 DEF Next

\* Nobody but the end of Scan commits.
LEMMA OnlyFinishCommits ==
    ASSUME main \in MainType, Next, ~main.committed, main'.committed
    PROVE  Finish
<1>1. CASE MainStep /\ ~Finish
  BY <1>1 DEF MainStep, WalkCheck, WalkSend, WalkFails, WalkDone, AwaitWorkers, CloseQueue,
     FlagQueue, AwaitSave, AwaitCover, DeferRollback, DeferCheck, DeferCloseCover, MainType
<1>2. CASE SaveStep \/ TaggerStep \/ CoverStep
  <2>1. main' = main
    BY <1>2
    DEF SaveStep, TaggerStep, CoverStep, SaveReceives, SaveDrained, SaveFails, SaveDies, SaveSong,
        SaveSendsCover, SaveWrites, SaveTags, SaveTagged, SaveLinks, SaveEnds, SavePosts,
        SaveChecks, SaveClosesCover, SaveCancels, CovererStarts, CovererStep, CovererReturns,
        CovererChecks, CovererCloses, CovererPosts, CovererCancels
  <2> QED BY <2>1
<1>3. ASSUME NEW w \in Workers, WorkerStep(w) PROVE FALSE
  <2>1. main' = main
    BY <1>3 DEF WorkerStep, WorkerReceives, WorkerDirDone, WorkerFails, WorkerFile, WorkerPuts
  <2> QED BY <2>1
<1> QED BY <1>1, <1>2, <1>3 DEF Next

\* All of it holds when Scan has made its channels.
LEMMA CountInit ==
    ASSUME Init
    PROVE  Bounds /\ WalkFacts /\ Conserved /\ CommitsWhole
<1>1. /\ Cardinality(Workers) \in Nat /\ Dirs \in Nat /\ Files \in Nat /\ Batch \in Nat \ {0}
      /\ CoverWorkers \in Nat \ {0} /\ TagWorkers \in Nat \ {0}
  BY PipelineAssumption, FS_CardinalityType
<1>2. Bounds
  BY <1>1 DEF Init, Bounds, DirBounds, WorkerBounds, QueueBounds, SaveBounds, CoverBounds,
     TagBounds
<1>3. WalkFacts
  BY DEF Init, WalkFacts, Walking, Looping
<1>4. CommitsWhole
  BY DEF Init, CommitsWhole
<1>5. InHands = 0
  <2>1. \A w \in Workers : Held[w] = 0
    BY DEF Init, Held
  <2>2. Pairs(Held) = {}
    BY <2>1 DEF Pairs
  <2> QED BY <2>2, FS_EmptySet DEF InHands
<1>6. Done = 0
  BY DEF Init, Done
<1>7. InDirs = Dirs * Files
  <2>1. dirs.left + dirs.len = Dirs
    BY <1>1 DEF Init
  <2> QED BY <2>1 DEF InDirs
<1>8. Accounted = Dirs * Files /\ Dirs * Files \in Int
  <2>1. PICK n \in Int : n = Dirs * Files
    BY <1>1
  <2>2. 0 + 0 + n = n
    OBVIOUS
  <2> QED BY <1>5, <1>6, <1>7, <2>1, <2>2 DEF Accounted
<1>9. Conserved
  BY <1>8 DEF Init, Conserved
<1> QED BY <1>2, <1>3, <1>4, <1>9

\* CountInv, which says where every file is and what main knows of it, holds in every
\* reachable state.
THEOREM CountInvInvariant == Spec => []CountInv
<1>1. Init => CountInv
  BY CommitInit, PanicInit, CountInit DEF CountInv
<1>2. CommitInv' /\ CountInv /\ [Next]_vars => CountInv'
  <2> SUFFICES ASSUME CommitInv', CountInv, [Next]_vars
               PROVE  CountInv'
    OBVIOUS
  <2> USE DEF CountInv
  <2>1. CASE Next
    <3>1. PanicFacts' /\ WalkFacts'
      BY <2>1, PanicFactsStep, WalkFactsStep
    <3>2. Bounds'
      BY <2>1, BoundsStep DEF CommitInv
    <3>3. Conserved'
      BY <2>1, ConservedStep
    <3>4. CommitsWhole'
      <4>1. CASE main.committed
        BY <2>1, <4>1, WholeKept
      <4>2. CASE ~main'.committed
        BY <4>2 DEF CommitsWhole
      <4>3. CASE ~main.committed /\ main'.committed
        <5>1. Finish
          BY <2>1, <4>3, OnlyFinishCommits DEF CommitInv, Shape
        <5> QED BY <4>3, <5>1, FinishWhole
      <4> QED BY <4>1, <4>2, <4>3
    <3> QED BY <3>1, <3>2, <3>3, <3>4
  <2>2. CASE UNCHANGED vars
    <3>1. PanicFacts' /\ WalkFacts' /\ CommitsWhole'
      BY <2>2 DEF vars, PanicFacts, WalkFacts, CommitsWhole, AllGone
    <3>2. Bounds'
      BY <2>2 DEF vars, Bounds, DirBounds, WorkerBounds, QueueBounds, SaveBounds, CoverBounds,
         TagBounds
    <3>3. Conserved'
      BY <2>2 DEF vars, Conserved, Accounted, Done, InHands, Held, InDirs, Intact
    <3> QED BY <3>1, <3>2, <3>3
  <2> QED BY <2>1, <2>2
<1> QED BY <1>1, <1>2, CommitInvInvariant, PTL DEF Spec

\* A scan that commits has saved or skipped every file of every directory, and neither a
\* writer of ids nor a coverer has failed: so the clean-up before the commit deletes no
\* song whose file exists.
THEOREM CommitsWholeInvariant == Spec => []CommitsWhole
<1>1. CountInv => CommitsWhole
  BY DEF CountInv
<1> QED BY <1>1, CountInvInvariant, PTL

\* The variables keep their types, no channel or batch outgrows its size, and no file is
\* counted twice.
THEOREM TypeInvariant == Spec => []TypeOK
<1>1. CountInv => TypeOK
  <2> SUFFICES ASSUME CountInv PROVE TypeOK
    OBVIOUS
  <2>1. Shape /\ Bounds /\ Conserved
    BY DEF CountInv, CommitInv
  <2>2. /\ Done \in Int /\ InHands \in Int /\ InDirs \in Int
        /\ dirs.left \in Nat /\ dirs.len \in Nat /\ Files \in Nat
        /\ tally.saved \in Int /\ tally.skipped \in Int /\ save.batch \in Nat
        /\ queue.len \in Nat
    BY <2>1, PartTypes
  <2>3. InHands >= 0
    BY <2>1, HeldType DEF Bounds
  <2>4. InDirs >= 0
    <3>1. \A d, k \in Nat : d * k >= 0
      OBVIOUS
    <3>2. dirs.left + dirs.len \in Nat
      BY <2>2
    <3> QED BY <2>2, <3>1, <3>2 DEF InDirs
  <2>5. tally.saved + tally.skipped <= Done
    BY <2>2 DEF Done
  <2>6. PICK n \in Int : n = Dirs * Files
    BY PipelineAssumption
  <2>7. tally.saved + tally.skipped <= n /\ tally.saved + tally.skipped >= 0
    <3>1. PICK a \in Int, b \in Int, c \in Int : a = Done /\ b = InHands /\ c = InDirs
      BY <2>2
    <3>2. a + b + c <= n
      BY <2>1, <2>6, <3>1 DEF Conserved, Accounted
    <3>3. tally.saved + tally.skipped <= a /\ b >= 0 /\ c >= 0
      BY <2>3, <2>4, <2>5, <3>1
    <3>4. tally.saved >= 0 /\ tally.skipped >= 0
      BY <2>1 DEF Conserved
    <3> QED BY <2>2, <3>2, <3>3, <3>4
  <2>8. tally.saved + tally.skipped \in 0 .. Dirs * Files
    BY <2>2, <2>6, <2>7
  <2> QED
    BY <2>1, <2>8 DEF TypeOK, Bounds, DirBounds, WorkerBounds, QueueBounds, SaveBounds,
       CoverBounds, TagBounds
<1> QED BY <1>1, CountInvInvariant, PTL

=============================================================================
