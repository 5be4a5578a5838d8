----------------------------- MODULE CacheObject -----------------------------
(***************************************************************************)
(* One cache.Object shared by the goroutine that produces its content, the *)
(* requests that read it and whoever closes it (cache/object.go and        *)
(* cache/reader.go).  Every action is one critical section of Object.lock, *)
(* the grain at which goroutines interleave; a reader that waits for data  *)
(* gives the lock up between two actions.                                  *)
(*                                                                         *)
(* The path of the object belongs to the cache directory, not to the       *)
(* object: whether os.Open finds a file there is left open here, and an    *)
(* os.Open that fails leaves the object as it is.                          *)
(***************************************************************************)
EXTENDS ObjectOps, FiniteSets

CONSTANTS Readers,      \* the cacheReaders (one per request)
          Created,      \* the file os.Create opened, readable and writable
          Opened,       \* a file os.Open opened later, read-only
          MaxBytes      \* bound: bytes the producer has to write

ASSUME ReadersAssumption == IsFiniteSet(Readers)
ASSUME FileAssumption ==
    NoFile # Created /\ NoFile # Opened /\ Created # Opened
ASSUME MaxBytesAssumption == MaxBytes \in Nat

VARIABLES obj,       \* the object
          pc,        \* pc[r]: where reader r is
          offset,    \* cacheReader.offset
          done,      \* done[r]: r's context is cancelled
          producer,  \* "running" or "stopped"
          closed     \* history: Close was called since the file was last opened

vars == <<obj, pc, offset, done, producer, closed>>

(***************************************************************************)
(* idle: no reader; open: between two calls of Read; waiting: inside Read, *)
(* in the select of waitForData; ended: Read returned EOF or an error, the *)
(* deferred Close is still to run.                                         *)
(***************************************************************************)
ReaderStates == {"idle", "open", "waiting", "ended"}

Init ==
    /\ obj = NewObject(Created)
    /\ pc = [r \in Readers |-> "idle"]
    /\ offset = [r \in Readers |-> 0]
    /\ done = [r \in Readers |-> FALSE]
    /\ producer = "running"
    /\ closed = FALSE

-----------------------------------------------------------------------------
(* The producer *)

\* A chunk of n bytes; n = 0 is a legal io.Writer call.
Write(n) ==
    /\ producer = "running"
    /\ ~obj.complete
    /\ obj.file = Created
    /\ obj.size + n <= MaxBytes
    /\ obj' = Written(obj, n)
    /\ UNCHANGED <<pc, offset, done, producer, closed>>

\* file.Write reports an error: the file is closed or read-only, or the disk
\* took only the first n bytes.  The producer gives up.
WriteFails(n) ==
    /\ producer = "running"
    /\ ~obj.complete
    /\ n = 0 \/ obj.file = Created
    /\ obj.size + n <= MaxBytes
    /\ obj' = Written(obj, n)
    /\ producer' = "stopped"
    /\ UNCHANGED <<pc, offset, done, closed>>

SetComplete ==
    /\ producer = "running"
    /\ obj' = Completed(obj)
    /\ producer' = "stopped"
    /\ UNCHANGED <<pc, offset, done, closed>>

-----------------------------------------------------------------------------
(* Closing: DeleteObject, Clear and Cache.Close; and the cleaner *)

Close ==
    /\ obj' = Closed(obj)
    /\ closed' = TRUE
    /\ UNCHANGED <<pc, offset, done, producer>>

CloseForEviction ==
    /\ Evictable(obj)
    /\ obj' = Closed(obj)
    /\ UNCHANGED <<pc, offset, done, producer, closed>>

-----------------------------------------------------------------------------
(* Readers *)

\* newCacheReader: UseFile succeeds.
OpenReader(r) ==
    /\ pc[r] = "idle"
    /\ obj' = Used(obj, Opened)
    /\ closed' = (closed /\ obj.file # NoFile)
    /\ pc' = [pc EXCEPT ![r] = "open"]
    /\ offset' = [offset EXCEPT ![r] = 0]
    /\ done' = [done EXCEPT ![r] = FALSE]
    /\ UNCHANGED producer

\* Read with data at hand: k bytes, at most what was written and not yet read.
ReadData(r, k) ==
    /\ WaitForData(obj, offset[r]) = "data"
    /\ k \in 1 .. obj.size - offset[r]
    /\ offset' = [offset EXCEPT ![r] = @ + k]
    /\ pc' = [pc EXCEPT ![r] = "open"]
    /\ UNCHANGED <<obj, done, producer, closed>>

ReadEnds(r) ==
    /\ WaitForData(obj, offset[r]) \in {"eof", "closed"}
    /\ pc' = [pc EXCEPT ![r] = "ended"]
    /\ UNCHANGED <<obj, offset, done, producer, closed>>

ReadBlocks(r) ==
    /\ WaitForData(obj, offset[r]) = "wait"
    /\ obj' = Waiting(obj, r)
    /\ pc' = [pc EXCEPT ![r] = "waiting"]
    /\ UNCHANGED <<offset, done, producer, closed>>

\* One pass through the body of Read or ReadAt, up to the select.
ReadStep(r) ==
    \/ \E k \in 1 .. MaxBytes : ReadData(r, k)
    \/ ReadEnds(r)
    \/ ReadBlocks(r)

\* A fresh call of Read.
Read(r) ==
    /\ pc[r] = "open"
    /\ ReadStep(r)

\* The captured channel was closed: the loop looks at the object again.
Wake(r) ==
    /\ pc[r] = "waiting"
    /\ r \notin obj.waiters
    /\ ReadStep(r)

\* select chose ctx.Done: Read returns the context's error.
Cancelled(r) ==
    /\ pc[r] = "waiting"
    /\ done[r]
    /\ pc' = [pc EXCEPT ![r] = "ended"]
    /\ obj' = [obj EXCEPT !.waiters = @ \ {r}]
    /\ UNCHANGED <<offset, done, producer, closed>>

\* The client goes away: the request's context is cancelled.
Disconnect(r) ==
    /\ pc[r] # "idle"
    /\ ~done[r]
    /\ done' = [done EXCEPT ![r] = TRUE]
    /\ UNCHANGED <<obj, pc, offset, producer, closed>>

\* The copy loop stops for a reason of its own (the client's side failed).
StopReading(r) ==
    /\ pc[r] = "open"
    /\ pc' = [pc EXCEPT ![r] = "ended"]
    /\ UNCHANGED <<obj, offset, done, producer, closed>>

\* Mutant: an object still being written can be sought in.
SeekAlways(r, off) ==
    /\ pc[r] = "open"
    /\ offset' = [offset EXCEPT ![r] = off]
    /\ UNCHANGED <<obj, pc, done, producer, closed>>

\* Seek; only a complete object can be sought in, and past its end too.
Seek(r, off) ==
    /\ pc[r] = "open"
    /\ obj.complete
    /\ offset' = [offset EXCEPT ![r] = off]
    /\ UNCHANGED <<obj, pc, done, producer, closed>>

\* cacheReader.Close: ReleaseFile.
CloseReader(r) ==
    /\ pc[r] = "ended"
    /\ obj' = Released(obj)
    /\ pc' = [pc EXCEPT ![r] = "idle"]
    /\ UNCHANGED <<offset, done, producer, closed>>

-----------------------------------------------------------------------------

Next ==
    \/ \E n \in 0 .. MaxBytes : Write(n) \/ WriteFails(n)
    \/ SetComplete
    \/ Close
    \/ CloseForEviction
    \/ \E r \in Readers :
          \/ OpenReader(r)
          \/ Read(r)
          \/ Wake(r)
          \/ Cancelled(r)
          \/ Disconnect(r)
          \/ StopReading(r)
          \/ \E off \in 0 .. MaxBytes : Seek(r, off)
          \/ CloseReader(r)

Spec == Init /\ [][Next]_vars

-----------------------------------------------------------------------------
(* Properties *)

ObjectType ==
    [size : 0 .. MaxBytes, file : {NoFile, Created, Opened},
     readerCount : Nat, complete : BOOLEAN, waiters : SUBSET Readers]

\* Every variable has its type, and no more is counted than the producer had to write.
TypeOK ==
    /\ obj \in ObjectType
    /\ pc \in [Readers -> ReaderStates]
    /\ offset \in [Readers -> 0 .. MaxBytes]
    /\ done \in [Readers -> BOOLEAN]
    /\ producer \in {"running", "stopped"}
    /\ closed \in BOOLEAN

\* The readers that hold a reference on the object's file.
OpenReaders == {r \in Readers : pc[r] # "idle"}

(***************************************************************************)
(* readerCount counts exactly the readers between UseFile and ReleaseFile, *)
(* so the cleaner's test "no active readers" means what it says and        *)
(* ReleaseFile never reports "file not in use" (object.go, UseFile,        *)
(* ReleaseFile, closeForEviction).                                         *)
(***************************************************************************)
ReaderCountExact == obj.readerCount = Cardinality(OpenReaders)

(***************************************************************************)
(* No lost wakeup: a reader that still blocks on the current dataChanged   *)
(* channel has nothing to do.  All its data is consumed, the object is not *)
(* complete and its file is open, so whatever changes that must signal     *)
(* (object.go, signalDataChanged; reader.go, waitForData).                 *)
(***************************************************************************)
NoLostWakeup ==
    \A r \in obj.waiters :
        /\ pc[r] = "waiting"
        /\ WaitForData(obj, offset[r]) = "wait"

(***************************************************************************)
(* As long as the object is being written a reader is never past the bytes *)
(* written, whatever mix of reads, wakeups and seeks led here: the length  *)
(* obj.size - offset of the slice Read passes to ReadAt is not negative    *)
(* (reader.go, Read, Seek).                                                *)
(***************************************************************************)
OffsetWithinSize ==
    ~obj.complete => \A r \in Readers : offset[r] <= obj.size

(***************************************************************************)
(* The file stays open under the requests that read it.  Only Close, that  *)
(* is DeleteObject, Clear or the shutdown, takes it from them; a reader    *)
(* that leaves and the cleaner do not, whichever readers came and went     *)
(* since (object.go, ReleaseFile, closeForEviction).                       *)
(***************************************************************************)
FileOutlivesReaders == OpenReaders # {} /\ obj.file = NoFile => closed

(***************************************************************************)
(* The inductive invariant.  NoLostWakeup is inductive only together with  *)
(* OffsetWithinSize (a read moves a waiter's offset up to the size and no  *)
(* further), the count only together with the type, and                    *)
(* FileOutlivesReaders only together with the count.                       *)
(***************************************************************************)
Inv ==
    /\ TypeOK
    /\ ReaderCountExact
    /\ NoLostWakeup
    /\ OffsetWithinSize
    /\ FileOutlivesReaders

=============================================================================
