------------------------------ MODULE ObjectOps ------------------------------
(***************************************************************************)
(* The operations of cache.Object (cache/object.go) and the wait loop of   *)
(* cacheReader (cache/reader.go) as functions on object records.  Each one *)
(* is what a single critical section of Object.lock does to the fields.    *)
(*                                                                         *)
(*   size         number of bytes written so far                           *)
(*   file         the *os.File: NoFile for nil, otherwise a handle         *)
(*   readerCount  open readers                                             *)
(*   complete     SetComplete was called                                   *)
(*   waiters      the readers that captured the current dataChanged        *)
(*                channel and block on it; closing the channel releases    *)
(*                all of them and the fresh channel has none               *)
(***************************************************************************)
EXTENDS Integers

CONSTANT NoFile            \* the nil *os.File

-----------------------------------------------------------------------------

NewObject(f) ==
    [size |-> 0, file |-> f, readerCount |-> 0, complete |-> FALSE,
     waiters |-> {}]

\* An object found on disk with its marker: complete, its file not opened yet.
LoadedObject(n) ==
    [size |-> n, file |-> NoFile, readerCount |-> 0, complete |-> TRUE,
     waiters |-> {}]

signalDataChanged(o) == [o EXCEPT !.waiters = {}]

\* Mutant: the length asked for is counted, not the length written.
WrittenOvercounted(o, n) == signalDataChanged([o EXCEPT !.size = @ + n + 1])

\* Object.Write, once the guard on complete passed and file.Write took n bytes.
Written(o, n) ==
    LET w == [o EXCEPT !.size = @ + n]
    IN  IF n > 0 THEN signalDataChanged(w) ELSE w

\* Mutant: readers that wait for the rest are not told that there is none.
CompletedSilently(o) == [o EXCEPT !.complete = TRUE]

\* Object.SetComplete, in memory.
Completed(o) == signalDataChanged([o EXCEPT !.complete = TRUE])

\* Mutant: readers blocked on the object do not learn that its file is gone.
ClosedSilently(o) == [o EXCEPT !.file = NoFile]

\* Object.Close and the closing half of closeForEviction.
Closed(o) ==
    IF o.file = NoFile THEN o
    ELSE signalDataChanged([o EXCEPT !.file = NoFile])

\* Mutant: the cleaner closes the file without asking for readers.
EvictableAlways(o) == o.size >= 0

\* The test of closeForEviction.
Evictable(o) == o.readerCount <= 0

\* Mutant: the reader is counted only when it is the one that opens the file.
UsedIfOpened(o, f) ==
    IF o.file = NoFile THEN [o EXCEPT !.file = f, !.readerCount = @ + 1] ELSE o

\* Object.UseFile; f is what os.Open returned, looked at only if file is nil.
Used(o, f) ==
    [o EXCEPT !.file = IF @ = NoFile THEN f ELSE @,
              !.readerCount = @ + 1]

\* Object.ReleaseFile; with no reader counted it only reports an error.
Released(o) ==
    IF o.readerCount <= 0 THEN o
    ELSE [o EXCEPT !.readerCount = @ - 1,
                   !.file = IF o.readerCount - 1 <= 0 /\ o.complete
                            THEN NoFile ELSE @]

\* One turn of the loop of waitForData for a reader at offset off.
WaitForData(o, off) ==
    IF o.size - off <= 0
    THEN IF o.complete THEN "eof"
         ELSE IF o.file = NoFile THEN "closed" ELSE "wait"
    ELSE IF o.file = NoFile THEN "closed" ELSE "data"

\* The reader captures dataChanged under the read lock, then blocks on it.
Waiting(o, r) == [o EXCEPT !.waiters = @ \cup {r}]

=============================================================================
