----------------------------- MODULE CacheStore -----------------------------
(***************************************************************************)
(* cache.Cache (cache/cache.go) as the server uses it: requests that look  *)
(* an object up, create it on a miss, start its producer and read it       *)
(* (handlers/subsonic_mediaretrieval.go, handleStream and                  *)
(* handleGetCoverArt); the producers (ffmpeg, the cover encoder) that fill *)
(* it and then complete or delete it; the scanner and the playlist         *)
(* handlers that invalidate keys; the cleaner that evicts; shutdown, crash *)
(* and restart on what the cache directory then holds.                     *)
(*                                                                         *)
(* objectsLock serialises the operations on the map but not those on an    *)
(* object: a request keeps using an object that left the map, its producer *)
(* keeps writing to it, and both address its files by key.  So an          *)
(* operation that holds objectsLock is a sequence of actions, one per file *)
(* system call, that op keeps track of.                                    *)
(***************************************************************************)
EXTENDS ObjectOps, FiniteSets

CONSTANTS Keys,
          Requests,
          Ids,          \* bound: objects, and inodes, that exist at a time
          Total,        \* chunks in the complete output of a producer
          MaxMishaps,   \* bound: exits of the server and file system calls that fail
          Scanning,     \* TRUE: keys are invalidated and the cache cleared
          Graceful,     \* TRUE: Cache.Close may run before the server exits
          NoKey

ASSUME StoreAssumption ==
    /\ Ids \subseteq Nat \ {0}
    /\ IsFiniteSet(Ids)
    /\ IsFiniteSet(Requests)
    /\ Total \in Nat \ {0}
    /\ MaxMishaps \in Nat
    /\ Scanning \in BOOLEAN
    /\ Graceful \in BOOLEAN
    /\ NoKey \notin Keys

NoId == 0

VARIABLES
    objs,      \* objs[o]: the Object with identity o
    okey,      \* okey[o]: its key
    cmap,      \* Cache.objects: the id a key maps to, or NoId
    disk,      \* disk[k]: the inode at keyToPath(k), and the -complete file
    ilen,      \* ilen[i]: chunks in inode i
    prod,      \* prod[o]: the goroutine that fills o
    req,       \* req[r]: the request
    op,        \* what the holder of objectsLock is doing
    phase,     \* "up", "closing" (Cache.Close ran) or "down"
    dir,       \* whether the cache directory exists
    mishaps,
    stuck,     \* history: keys of which DeleteObject failed to remove the
               \* file and left the closed object in the map
    suspect    \* history: keys whose -complete file, if there is one, was
               \* not put there by the object whose data is on disk

vars == <<objs, okey, cmap, disk, ilen, prod, req, op, phase, dir, mishaps,
          stuck, suspect>>

memory == <<objs, okey, cmap>>
ambient == <<phase, dir, mishaps, stuck>>

-----------------------------------------------------------------------------

Free == [kind |-> "free", key |-> NoKey, id |-> NoId]
Idle == [pc |-> "idle", key |-> NoKey, obj |-> NoId, off |-> 0]
Blank == NewObject(NoFile)

Init ==
    /\ objs = [o \in Ids |-> Blank]
    /\ okey = [o \in Ids |-> NoKey]
    /\ cmap = [k \in Keys |-> NoId]
    /\ disk = [k \in Keys |-> [inode |-> NoId, marker |-> FALSE]]
    /\ ilen = [i \in Ids |-> 0]
    /\ prod = [o \in Ids |-> "none"]
    /\ req = [r \in Requests |-> Idle]
    /\ op = Free
    /\ phase = "up"
    /\ dir = TRUE
    /\ mishaps = 0
    /\ stuck = {}
    /\ suspect = {}

Mapped(o) == okey[o] # NoKey /\ cmap[okey[o]] = o

\* SetComplete holds Object.lock while it creates the -complete file.
Locked(o) == prod[o] = "marking"

InUse(o) ==
    \/ Mapped(o)
    \/ op.id = o
    \/ prod[o] \in {"running", "marking", "failed"}
    \/ \E r \in Requests : req[r].obj = o

InodeInUse(i) ==
    \/ \E k \in Keys : disk[k].inode = i
    \/ \E o \in Ids : InUse(o) /\ objs[o].file # NoFile /\ objs[o].file.inode = i

FreeIds == {o \in Ids : ~InUse(o)}
FreeInodes == {i \in Ids : ~InodeInUse(i)}
Least(S) == CHOOSE x \in S : \A y \in S : x <= y

LockFree == phase # "down" /\ op = Free

\* A system call fails, or the server exits.
Mishap == mishaps < MaxMishaps /\ mishaps' = mishaps + 1

RemoveMarker(k) ==
    /\ disk' = [disk EXCEPT ![k].marker = FALSE]
    /\ suspect' = suspect \ {k}

\* os.Remove of a marker that may fail, which nobody minds.
TryRemoveMarker(k) ==
    \/ /\ RemoveMarker(k)
       /\ UNCHANGED mishaps
    \/ /\ disk[k].marker
       /\ Mishap
       /\ UNCHANGED <<disk, suspect>>

RemoveData(k) == disk' = [disk EXCEPT ![k].inode = NoId]

Goto(r, st) == req' = [req EXCEPT ![r].pc = st]

-----------------------------------------------------------------------------
(* DeleteObject, up to o.Close; nothing to do for an absent key *)

BeginDelete(k) ==
    \/ /\ cmap[k] = NoId
       /\ UNCHANGED <<objs, op>>
    \/ /\ cmap[k] # NoId
       /\ ~Locked(cmap[k])
       /\ objs' = [objs EXCEPT ![cmap[k]] = Closed(@)]
       /\ op' = [kind |-> "delete", key |-> k, id |-> cmap[k]]

\* os.Remove of the data file.
DeleteData ==
    /\ op.kind = "delete"
    /\ disk[op.key].inode # NoId
    /\ RemoveData(op.key)
    /\ op' = [op EXCEPT !.kind = "unmap"]
    /\ UNCHANGED <<memory, ilen, prod, req, ambient, suspect>>

\* os.Remove (or the Close before it) fails, as it does for a missing file:
\* DeleteObject returns and leaves the closed object mapped.
DeleteDataFails ==
    /\ op.kind = "delete"
    /\ \/ disk[op.key].inode = NoId /\ UNCHANGED mishaps
       \/ Mishap
    /\ stuck' = stuck \cup {op.key}
    /\ op' = Free
    /\ UNCHANGED <<memory, disk, ilen, prod, req, phase, dir, suspect>>

\* delete(c.objects, key), then the marker if o.complete (read without o.lock).
DeleteUnmap ==
    /\ op.kind = "unmap"
    /\ cmap' = [cmap EXCEPT ![op.key] = NoId]
    /\ IF objs[op.id].complete THEN TryRemoveMarker(op.key)
                               ELSE UNCHANGED <<disk, suspect, mishaps>>
    /\ stuck' = stuck \ {op.key}
    /\ op' = Free
    /\ UNCHANGED <<objs, okey, ilen, prod, req, phase, dir>>

\* invalidateCoverCache, the save loop and the playlist handlers.
Invalidate(k) ==
    /\ Scanning
    /\ LockFree
    /\ cmap[k] # NoId
    /\ BeginDelete(k)
    /\ UNCHANGED <<okey, cmap, disk, ilen, prod, req, ambient, suspect>>

-----------------------------------------------------------------------------
(* evict, called by clean; which object clean picks is CacheClean's matter *)

EvictClose(k) ==
    /\ LockFree
    /\ cmap[k] # NoId
    /\ ~Locked(cmap[k])
    /\ Evictable(objs[cmap[k]])
    /\ objs' = [objs EXCEPT ![cmap[k]] = Closed(@)]
    /\ op' = [kind |-> "evict", key |-> k, id |-> cmap[k]]
    /\ UNCHANGED <<okey, cmap, disk, ilen, prod, req, ambient, suspect>>

\* os.Remove of the data file; a failure is only logged.
EvictData ==
    /\ op.kind = "evict"
    /\ \/ /\ RemoveData(op.key)
          /\ UNCHANGED mishaps
       \/ Mishap /\ UNCHANGED disk
    /\ op' = [op EXCEPT !.kind = "evict2"]
    /\ UNCHANGED <<memory, ilen, prod, req, phase, dir, stuck, suspect>>

EvictUnmap ==
    /\ op.kind = "evict2"
    /\ TryRemoveMarker(op.key)
    /\ cmap' = [cmap EXCEPT ![op.key] = NoId]
    /\ stuck' = stuck \ {op.key}
    /\ op' = Free
    /\ UNCHANGED <<objs, okey, ilen, prod, req, phase, dir>>

-----------------------------------------------------------------------------
(* Clear, at a full scan, and Cache.Close, at shutdown *)

CloseAll ==
    /\ LockFree
    /\ \A o \in Ids : Mapped(o) => ~Locked(o)
    /\ objs' = [o \in Ids |-> IF Mapped(o) THEN Closed(objs[o]) ELSE objs[o]]
    /\ cmap' = [k \in Keys |-> NoId]
    /\ stuck' = {}

Clear ==
    /\ Scanning
    /\ CloseAll
    /\ op' = [Free EXCEPT !.kind = "clear"]
    /\ UNCHANGED <<okey, disk, ilen, prod, req, phase, dir, mishaps, suspect>>

\* os.RemoveAll removes the files one by one, in any order ...
ClearRemove(k) ==
    /\ op.kind = "clear"
    /\ \/ /\ disk[k].inode # NoId
          /\ RemoveData(k)
          /\ UNCHANGED suspect
       \/ /\ disk[k].marker
          /\ RemoveMarker(k)
    /\ UNCHANGED <<memory, ilen, prod, req, op, ambient>>

\* ... and then the directory; where it fails, files without objects stay.
ClearDirectory ==
    /\ op.kind = "clear"
    /\ \/ /\ \A k \in Keys : disk[k].inode = NoId /\ ~disk[k].marker
          /\ dir' = FALSE
          /\ op' = [op EXCEPT !.kind = "mkdir"]
          /\ UNCHANGED mishaps
       \/ /\ Mishap
          /\ op' = Free
          /\ UNCHANGED dir
    /\ UNCHANGED <<memory, disk, ilen, prod, req, phase, stuck, suspect>>

\* os.MkdirAll; where it fails there is no directory until the next Clear or New.
ClearDone ==
    /\ op.kind = "mkdir"
    /\ \/ dir' = TRUE /\ UNCHANGED mishaps
       \/ Mishap /\ UNCHANGED dir
    /\ op' = Free
    /\ UNCHANGED <<memory, disk, ilen, prod, req, phase, stuck, suspect>>

\* The start of a shutdown; requests and producers go on until the process exits.
CloseCache ==
    /\ Graceful
    /\ phase = "up"
    /\ Mishap
    /\ CloseAll
    /\ phase' = "closing"
    /\ UNCHANGED <<okey, disk, ilen, prod, req, op, dir, suspect>>

-----------------------------------------------------------------------------
(* Requests *)

GetObject(r, k) ==
    /\ LockFree
    /\ req[r].pc = "idle"
    /\ req' = [req EXCEPT ![r] =
                 [Idle EXCEPT !.pc = IF cmap[k] = NoId THEN "miss" ELSE "got",
                              !.key = k, !.obj = cmap[k]]]
    /\ UNCHANGED <<memory, disk, ilen, prod, op, ambient, suspect>>

\* CreateObject finds that another request was faster: os.ErrExist.
CreateExists(r) ==
    /\ LockFree
    /\ req[r].pc = "miss"
    /\ cmap[req[r].key] # NoId
    /\ Goto(r, "exists")
    /\ UNCHANGED <<memory, disk, ilen, prod, op, ambient, suspect>>

\* handleGetCoverArt looks the winner's object up; handleStream gives up.
AfterExists(r) ==
    /\ req[r].pc = "exists"
    /\ \/ /\ LockFree
          /\ cmap[req[r].key] # NoId
          /\ req' = [req EXCEPT ![r].pc = "got", ![r].obj = cmap[req[r].key]]
       \/ req' = [req EXCEPT ![r] = Idle]
    /\ UNCHANGED <<memory, disk, ilen, prod, op, ambient, suspect>>

\* Mutant: CreateObject does not look whether another request was faster.
CreateFileUnchecked(r) ==
    LET k == req[r].key
        i == IF disk[k].inode # NoId THEN disk[k].inode ELSE Least(FreeInodes)
    IN  /\ LockFree
        /\ req[r].pc = "miss"
        /\ dir
        /\ FreeIds # {}
        /\ disk[k].inode # NoId \/ FreeInodes # {}
        /\ disk' = [disk EXCEPT ![k].inode = i]
        /\ ilen' = [ilen EXCEPT ![i] = 0]
        /\ suspect' = IF disk[k].marker THEN suspect \cup {k} ELSE suspect
        /\ op' = [kind |-> "create", key |-> k, id |-> Least(FreeIds)]
        /\ Goto(r, "creating")
        /\ UNCHANGED <<memory, prod, ambient>>

\* newCacheObject: os.Create truncates what is there or makes a new file.
CreateFile(r) ==
    LET k == req[r].key
        i == IF disk[k].inode # NoId THEN disk[k].inode ELSE Least(FreeInodes)
    IN  /\ LockFree
        /\ req[r].pc = "miss"
        /\ cmap[k] = NoId
        /\ dir
        /\ FreeIds # {}
        /\ disk[k].inode # NoId \/ FreeInodes # {}
        /\ disk' = [disk EXCEPT ![k].inode = i]
        /\ ilen' = [ilen EXCEPT ![i] = 0]
        /\ suspect' = IF disk[k].marker THEN suspect \cup {k} ELSE suspect
        /\ op' = [kind |-> "create", key |-> k, id |-> Least(FreeIds)]
        /\ Goto(r, "creating")
        /\ UNCHANGED <<memory, prod, ambient>>

\* os.Create fails; the handler answers with an error.
CreateFails(r) ==
    /\ LockFree
    /\ req[r].pc = "miss"
    /\ cmap[req[r].key] = NoId
    /\ \/ ~dir /\ UNCHANGED mishaps
       \/ Mishap
    /\ req' = [req EXCEPT ![r] = Idle]
    /\ UNCHANGED <<memory, disk, ilen, prod, op, phase, dir, stuck, suspect>>

\* newCacheObject removes a left-over marker; the object enters the map.
CreateDone(r) ==
    LET o == op.id
    IN  /\ op.kind = "create"
        /\ req[r].pc = "creating"
        /\ TryRemoveMarker(op.key)
        /\ objs' = [objs EXCEPT ![o] =
                      NewObject([inode |-> disk[op.key].inode, mode |-> "rw"])]
        /\ okey' = [okey EXCEPT ![o] = op.key]
        /\ cmap' = [cmap EXCEPT ![op.key] = o]
        /\ prod' = [prod EXCEPT ![o] = "none"]
        /\ req' = [req EXCEPT ![r].pc = "created", ![r].obj = o]
        /\ op' = Free
        /\ UNCHANGED <<ilen, phase, dir, stuck>>

\* Transcode starts ffmpeg, or cannot.
StartProducer(r) ==
    /\ req[r].pc = "created"
    /\ \/ /\ prod' = [prod EXCEPT ![req[r].obj] = "running"]
          /\ Goto(r, "got")
       \/ /\ Goto(r, "startfailed")
          /\ UNCHANGED prod
    /\ UNCHANGED <<memory, disk, ilen, op, ambient, suspect>>

StartFailed(r) ==
    /\ LockFree
    /\ req[r].pc = "startfailed"
    /\ BeginDelete(req[r].key)
    /\ req' = [req EXCEPT ![r] = Idle]
    /\ UNCHANGED <<okey, cmap, disk, ilen, prod, ambient, suspect>>

\* Object.Reader: UseFile opens whatever file has the object's path by now.
OpenReader(r) ==
    LET o == req[r].obj
        i == disk[okey[o]].inode
    IN  /\ req[r].pc = "got"
        /\ ~Locked(o)
        /\ IF objs[o].file # NoFile \/ i # NoId
           THEN /\ objs' = [objs EXCEPT ![o] =
                              Used(@, [inode |-> i, mode |-> "ro"])]
                /\ Goto(r, "open")
           ELSE /\ req' = [req EXCEPT ![r] = Idle]
                /\ UNCHANGED objs
        /\ UNCHANGED <<okey, cmap, disk, ilen, prod, op, ambient, suspect>>

\* One pass of Read.  ReadAt beyond the end of the file it really has open
\* yields (0, nil): Read returns without progress.
Read(r) ==
    LET o == req[r].obj
        out == WaitForData(objs[o], req[r].off)
    IN  /\ \/ req[r].pc = "open"
           \/ req[r].pc = "waiting" /\ r \notin objs[o].waiters
        /\ ~Locked(o)
        /\ \/ /\ out = "data"
              /\ req' = [req EXCEPT ![r].pc = "open",
                           ![r].off = IF ilen[objs[o].file.inode] > @
                                      THEN @ + 1 ELSE @]
              /\ UNCHANGED objs
           \/ /\ out \in {"eof", "closed"}
              /\ Goto(r, "ended")
              /\ UNCHANGED objs
           \/ /\ out = "wait"
              /\ objs' = [objs EXCEPT ![o] = Waiting(@, r)]
              /\ Goto(r, "waiting")
        /\ UNCHANGED <<okey, cmap, disk, ilen, prod, op, ambient, suspect>>

\* The client is gone: ctx.Done in the select, or the copy to it fails.
HangUp(r) ==
    /\ req[r].pc \in {"open", "waiting"}
    /\ objs' = [objs EXCEPT ![req[r].obj].waiters = @ \ {r}]
    /\ Goto(r, "ended")
    /\ UNCHANGED <<okey, cmap, disk, ilen, prod, op, ambient, suspect>>

CloseReader(r) ==
    /\ req[r].pc = "ended"
    /\ ~Locked(req[r].obj)
    /\ objs' = [objs EXCEPT ![req[r].obj] = Released(@)]
    /\ req' = [req EXCEPT ![r] = Idle]
    /\ UNCHANGED <<okey, cmap, disk, ilen, prod, op, ambient, suspect>>

-----------------------------------------------------------------------------
(* Producers *)

\* A chunk reaches Object.Write; the file may be closed or read-only by now.
ProducerWrites(o) ==
    /\ prod[o] = "running"
    /\ objs[o].size < Total
    /\ IF objs[o].file # NoFile /\ objs[o].file.mode = "rw"
       THEN /\ objs' = [objs EXCEPT ![o] = Written(@, 1)]
            /\ ilen' = [ilen EXCEPT ![objs[o].file.inode] = @ + 1]
            /\ UNCHANGED prod
       ELSE /\ prod' = [prod EXCEPT ![o] = "failed"]
            /\ UNCHANGED <<objs, ilen>>
    /\ UNCHANGED <<okey, cmap, disk, req, op, ambient, suspect>>

\* ffmpeg exits with an error.
ProducerFails(o) ==
    /\ prod[o] = "running"
    /\ prod' = [prod EXCEPT ![o] = "failed"]
    /\ UNCHANGED <<memory, disk, ilen, req, op, ambient, suspect>>

\* Mutant: onDone completes the object whatever ffmpeg delivered.
ProducerCompletesEarly(o) ==
    /\ prod[o] = "running"
    /\ objs' = [objs EXCEPT ![o] = Completed(@)]
    /\ prod' = [prod EXCEPT ![o] = "marking"]
    /\ UNCHANGED <<okey, cmap, disk, ilen, req, op, ambient, suspect>>

\* onDone(nil): SetComplete, first in memory ...
ProducerCompletes(o) ==
    /\ prod[o] = "running"
    /\ objs[o].size = Total
    /\ objs' = [objs EXCEPT ![o] = Completed(@)]
    /\ prod' = [prod EXCEPT ![o] = "marking"]
    /\ UNCHANGED <<okey, cmap, disk, ilen, req, op, ambient, suspect>>

\* ... then the marker file, at the path of the key whoever owns it now; the error
\* of an os.Create that fails is only logged.
ProducerMarks(o) ==
    LET k == okey[o]
    IN  /\ prod[o] = "marking"
        /\ \/ /\ dir
              /\ disk' = [disk EXCEPT ![k].marker = TRUE]
              /\ suspect' = IF cmap[k] = o THEN suspect ELSE suspect \cup {k}
              /\ UNCHANGED mishaps
           \/ /\ (~dir /\ UNCHANGED mishaps) \/ Mishap
              /\ UNCHANGED <<disk, suspect>>
        /\ prod' = [prod EXCEPT ![o] = "done"]
        /\ UNCHANGED <<memory, ilen, req, op, phase, dir, stuck>>

\* Mutant: a failed producer only logs.
ProducerAbortsIdly(o) ==
    /\ prod[o] = "failed"
    /\ prod' = [prod EXCEPT ![o] = "done"]
    /\ UNCHANGED <<memory, disk, ilen, req, op, ambient, suspect>>

\* onDone(err): DeleteObject(cacheKey), whatever object has the key by now.
ProducerAborts(o) ==
    /\ LockFree
    /\ prod[o] = "failed"
    /\ BeginDelete(okey[o])
    /\ prod' = [prod EXCEPT ![o] = "done"]
    /\ UNCHANGED <<okey, cmap, disk, ilen, req, ambient, suspect>>

-----------------------------------------------------------------------------
(* Crash or exit, and New *)

Crash ==
    /\ \/ phase = "up" /\ Mishap
       \/ phase = "closing" /\ UNCHANGED mishaps
    /\ phase' = "down"
    /\ objs' = [o \in Ids |-> Blank]
    /\ okey' = [o \in Ids |-> NoKey]
    /\ cmap' = [k \in Keys |-> NoId]
    /\ prod' = [o \in Ids |-> "none"]
    /\ req' = [r \in Requests |-> Idle]
    /\ op' = Free
    /\ stuck' = {}
    /\ UNCHANGED <<disk, ilen, dir, suspect>>

\* loadObjects: data with a marker is a complete object, data without one is
\* removed, a marker without data is left alone.  An object takes the id of
\* its inode.
Loadable(k) == disk[k].inode # NoId /\ disk[k].marker

Restart ==
    LET owner(i) == CHOOSE k \in Keys : Loadable(k) /\ disk[k].inode = i
        Loaded(i) == \E k \in Keys : Loadable(k) /\ disk[k].inode = i
    IN  /\ phase = "down"
        /\ phase' = "up"
        /\ dir' = TRUE
        /\ cmap' = [k \in Keys |-> IF Loadable(k) THEN disk[k].inode ELSE NoId]
        /\ objs' = [i \in Ids |-> IF Loaded(i) THEN LoadedObject(ilen[i])
                                               ELSE Blank]
        /\ okey' = [i \in Ids |-> IF Loaded(i) THEN owner(i) ELSE NoKey]
        /\ disk' = [k \in Keys |->
                      IF Loadable(k) THEN disk[k]
                                     ELSE [disk[k] EXCEPT !.inode = NoId]]
        /\ UNCHANGED <<ilen, prod, req, op, mishaps, stuck, suspect>>

-----------------------------------------------------------------------------

LockStep ==
    \/ DeleteData \/ DeleteDataFails \/ DeleteUnmap
    \/ EvictData \/ EvictUnmap
    \/ \E k \in Keys : ClearRemove(k)
    \/ ClearDirectory \/ ClearDone

RequestStep(r) ==
    \/ CreateExists(r) \/ AfterExists(r) \/ CreateFile(r) \/ CreateFails(r)
    \/ CreateDone(r)
    \/ StartProducer(r) \/ StartFailed(r)
    \/ OpenReader(r) \/ Read(r) \/ CloseReader(r)

ProducerStep(o) ==
    \/ ProducerWrites(o) \/ ProducerCompletes(o) \/ ProducerMarks(o)
    \/ ProducerAborts(o)

Environment ==
    \/ \E k \in Keys : Invalidate(k) \/ EvictClose(k)
    \/ Clear \/ CloseCache \/ Crash \/ Restart
    \/ \E r \in Requests : HangUp(r) \/ \E k \in Keys : GetObject(r, k)
    \/ \E o \in Ids : ProducerFails(o)

Next ==
    \/ LockStep
    \/ \E r \in Requests : RequestStep(r)
    \/ \E o \in Ids : ProducerStep(o)
    \/ Environment

Spec == Init /\ [][Next]_vars

(***************************************************************************)
(* The Go scheduler and RWMutex (which lets no waiter starve) keep every   *)
(* goroutine going that can go; ffmpeg delivers its output or dies.        *)
(* Clients, the scanner, the cleaner and crashes owe nobody a step.        *)
(***************************************************************************)
Fairness ==
    /\ WF_vars(LockStep)
    /\ \A r \in Requests : SF_vars(RequestStep(r))
    /\ \A o \in Ids : SF_vars(ProducerStep(o))

FairSpec == Spec /\ Fairness

-----------------------------------------------------------------------------
(* Properties *)

Handles == {NoFile} \cup [inode : Ids, mode : {"rw", "ro"}]

\* Every variable has its type; no object and no file is longer than the output.
TypeOK ==
    /\ objs \in [Ids -> [size : 0 .. Total, file : Handles,
                         readerCount : 0 .. Cardinality(Requests),
                         complete : BOOLEAN, waiters : SUBSET Requests]]
    /\ okey \in [Ids -> Keys \cup {NoKey}]
    /\ cmap \in [Keys -> Ids \cup {NoId}]
    /\ disk \in [Keys -> [inode : Ids \cup {NoId}, marker : BOOLEAN]]
    /\ ilen \in [Ids -> 0 .. Total]
    /\ prod \in [Ids -> {"none", "running", "failed", "marking", "done"}]
    /\ req \in [Requests -> [pc : {"idle", "miss", "creating", "created",
                                   "startfailed", "exists", "got", "open",
                                   "waiting", "ended"},
                             key : Keys \cup {NoKey}, obj : Ids \cup {NoId},
                             off : 0 .. Total]]
    /\ op \in [kind : {"free", "create", "delete", "unmap", "evict", "evict2",
                       "clear", "mkdir"},
               key : Keys \cup {NoKey}, id : Ids \cup {NoId}]
    /\ phase \in {"up", "closing", "down"}
    /\ dir \in BOOLEAN
    /\ stuck \subseteq Keys
    /\ suspect \subseteq Keys

(***************************************************************************)
(* What a key maps to owns the file at the key's path: the file exists, is *)
(* as long as the object believes, and is the one the object has open.     *)
(* Holds between the operations of cache.go although producers, readers    *)
(* and objects that left the map address files by key without objectsLock. *)
(***************************************************************************)
MappedOwnsFile ==
    \A k \in Keys :
        cmap[k] # NoId /\ op.key # k =>
            LET o == objs[cmap[k]]
                i == disk[k].inode
            IN  /\ i # NoId
                /\ ilen[i] = o.size
                /\ o.file # NoFile => o.file.inode = i

(***************************************************************************)
(* The -complete marker next to a data file vouches for a whole file,      *)
(* across crashes between any two file system calls, except in the two     *)
(* windows suspect records: SetComplete by an object that is no longer the *)
(* mapped one, and os.Create in newCacheObject next to a left-over marker  *)
(* that is removed only afterwards, if at all.                             *)
(***************************************************************************)
MarkerVouches ==
    \A k \in Keys :
        disk[k].inode # NoId /\ disk[k].marker /\ k \notin suspect =>
            ilen[disk[k].inode] = Total

\* The requests between UseFile and ReleaseFile on o.
ReadersOf(o) ==
    {r \in Requests : req[r].obj = o /\ req[r].pc \in {"open", "waiting", "ended"}}

(***************************************************************************)
(* A blocked request of any object, mapped or not, blocks on the current   *)
(* channel only while it has nothing to do, and the object counts it.      *)
(***************************************************************************)
WaitersAccounted ==
    \A o \in Ids :
        InUse(o) =>
            /\ objs[o].readerCount = Cardinality(ReadersOf(o))
            /\ \A r \in objs[o].waiters :
                  /\ r \in ReadersOf(o)
                  /\ WaitForData(objs[o], req[r].off) = "wait"

(***************************************************************************)
(* No incomplete object stays in the map for good, where every later       *)
(* request for the key would find it and block: its producer completes it  *)
(* or it is deleted (onDone in handleStream).  The exception the code      *)
(* makes: where os.Remove fails DeleteObject returns before it deletes the *)
(* key from the map, and nobody writes or deletes what it leaves there.    *)
(***************************************************************************)
IncompleteResolves ==
    \A o \in Ids :
        Mapped(o) /\ ~objs[o].complete
            ~> ~Mapped(o) \/ objs[o].complete \/ okey[o] \in stuck

(***************************************************************************)
(* A request that blocks on an object its producer can still write to is   *)
(* released, whatever becomes of producer and object.                      *)
(***************************************************************************)
WritableReleased ==
    \A r \in Requests :
        (/\ req[r].pc = "waiting"
         /\ objs[req[r].obj].file # NoFile
         /\ objs[req[r].obj].file.mode = "rw") ~> req[r].pc # "waiting"

=============================================================================
