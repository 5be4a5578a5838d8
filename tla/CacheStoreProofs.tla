-------------------------- MODULE CacheStoreProofs --------------------------
(***************************************************************************)
(* TypeOK, MappedOwnsFile, MarkerVouches and WaitersAccounted of           *)
(* CacheStore for any keys, requests, ids, output length and number of     *)
(* mishaps.                                                                *)
(*                                                                         *)
(* None of them is inductive.  StoreInv adds what the holder of            *)
(* objectsLock may rely on between its file system calls (LockHolder),     *)
(* that an object open for writing is the mapped one of a key nobody       *)
(* operates on (Writers), that two keys share neither an object nor an     *)
(* inode (Keyed), and what a crash leaves (Down).                          *)
(***************************************************************************)
EXTENDS CacheStore, FiniteSetTheorems, WellFoundedInduction, TLAPS

ObjectType ==
    [size : 0 .. Total, file : Handles, readerCount : Nat, complete : BOOLEAN,
     waiters : SUBSET Requests]

RequestType ==
    [pc : {"idle", "miss", "creating", "created", "startfailed", "exists", "got", "open",
           "waiting", "ended"},
     key : Keys \cup {NoKey}, obj : Ids \cup {NoId}, off : 0 .. Total]

OpType ==
    [kind : {"free", "create", "delete", "unmap", "evict", "evict2", "clear",
            "mkdir"},
     key : Keys \cup {NoKey}, id : Ids \cup {NoId}]

DiskType == [inode : Ids \cup {NoId}, marker : BOOLEAN]

\* TypeOK, but for the bound on readerCount, which follows from Counted.
Shape ==
    /\ objs \in [Ids -> ObjectType]
    /\ okey \in [Ids -> Keys \cup {NoKey}]
    /\ cmap \in [Keys -> Ids \cup {NoId}]
    /\ disk \in [Keys -> DiskType]
    /\ ilen \in [Ids -> 0 .. Total]
    /\ prod \in [Ids -> {"none", "running", "failed", "marking", "done"}]
    /\ req \in [Requests -> RequestType]
    /\ op \in OpType
    /\ phase \in {"up", "closing", "down"}
    /\ dir \in BOOLEAN
    /\ stuck \subseteq Keys
    /\ suspect \subseteq Keys

\* A mapped object has the key it is mapped by; whoever works on an object finds its key.
Keyed ==
    /\ \A k \in Keys : cmap[k] # NoId => okey[cmap[k]] = k
    /\ \A o \in Ids : prod[o] \in {"running", "marking", "failed"} => okey[o] \in Keys
    /\ \A r \in Requests :
          /\ req[r].obj \in Ids => okey[req[r].obj] \in Keys
          /\ req[r].pc # "idle" => req[r].key \in Keys
          /\ req[r].pc \notin {"idle", "miss", "creating", "exists"} => req[r].obj \in Ids

\* No two names for one file.
Distinct ==
    \A k, l \in Keys : disk[k].inode = disk[l].inode /\ disk[k].inode # NoId => k = l

\* What the holder of objectsLock relies on from one file system call to the next.
LockHolder ==
    /\ op.kind = "free" => op = Free
    /\ op.kind \in {"clear", "mkdir"} =>
          op.key = NoKey /\ op.id = NoId /\ \A k \in Keys : cmap[k] = NoId
    /\ op.kind \in {"delete", "unmap", "evict", "evict2"} =>
          /\ op.key \in Keys
          /\ cmap[op.key] \in Ids
          /\ op.id = cmap[op.key]
    /\ op.kind = "create" =>
          /\ op.key \in Keys /\ op.id \in Ids
          /\ cmap[op.key] = NoId
          /\ disk[op.key].inode \in Ids /\ ilen[disk[op.key].inode] = 0
          /\ \A k \in Keys : cmap[k] # op.id
          /\ \A r \in Requests : req[r].obj # op.id

\* MappedOwnsFile, and how much of it stands while the key is operated on.
Owned ==
    \A k \in Keys :
        cmap[k] # NoId =>
            /\ disk[k].inode # NoId => ilen[disk[k].inode] = objs[cmap[k]].size
            /\ op.key # k \/ op.kind = "delete" =>
                  /\ disk[k].inode # NoId
                  /\ objs[cmap[k]].file # NoFile => objs[cmap[k]].file.inode = disk[k].inode

\* An object open for writing is mapped and its key is not operated on.
Writers ==
    \A o \in Ids :
        objs[o].file # NoFile /\ objs[o].file.mode = "rw" =>
            okey[o] \in Keys /\ cmap[okey[o]] = o /\ op.key # okey[o]

\* SetComplete follows the last write.
Marking == \A o \in Ids : prod[o] = "marking" => objs[o].size = Total

\* readerCount counts the readers, of objects nobody can reach any more too.
Counted == \A o \in Ids : objs[o].readerCount = Cardinality(ReadersOf(o))

\* A waiter of an object is a request that blocks on it with nothing to do.
Blocked ==
    \A o \in Ids : \A r \in objs[o].waiters :
        /\ req[r].obj = o /\ req[r].pc = "waiting"
        /\ objs[o].size <= req[r].off /\ ~objs[o].complete /\ objs[o].file # NoFile

\* Nothing of the process is left while the server is down.
Down ==
    phase = "down" =>
        /\ objs = [o \in Ids |-> Blank]
        /\ okey = [o \in Ids |-> NoKey]
        /\ cmap = [k \in Keys |-> NoId]
        /\ prod = [o \in Ids |-> "none"]
        /\ req = [r \in Requests |-> Idle]
        /\ op = Free

StoreInv ==
    /\ Shape /\ Keyed /\ Distinct /\ LockHolder
    /\ Owned /\ Writers /\ Marking /\ MarkerVouches
    /\ Counted /\ Blocked /\ Down

-----------------------------------------------------------------------------
(* The operations of an object, field by field *)

\* Close leaves everything but the file and, if there was one, the waiters.
LEMMA ClosedFields ==
    ASSUME NEW x \in ObjectType
    PROVE  /\ Closed(x) \in ObjectType
           /\ Closed(x).size = x.size /\ Closed(x).readerCount = x.readerCount
           /\ Closed(x).complete = x.complete /\ Closed(x).file = NoFile
           /\ Closed(x).waiters = IF x.file = NoFile THEN x.waiters ELSE {}
  BY DEF ObjectType, Handles, Closed, signalDataChanged

\* UseFile counts the reader and keeps a file that is open.
LEMMA UsedFields ==
    ASSUME NEW x \in ObjectType, NEW f, x.file # NoFile \/ f \in Handles
    PROVE  /\ Used(x, f) \in ObjectType
           /\ Used(x, f).size = x.size /\ Used(x, f).readerCount = x.readerCount + 1
           /\ Used(x, f).complete = x.complete /\ Used(x, f).waiters = x.waiters
           /\ Used(x, f).file = IF x.file = NoFile THEN f ELSE x.file
<1>1. x.readerCount + 1 \in Nat
  BY DEF ObjectType
<1>2. PICK n \in Nat : n = x.readerCount + 1
  BY <1>1
<1>3. Used(x, f) = [x EXCEPT !.file = IF @ = NoFile THEN f ELSE @, !.readerCount = n]
  BY <1>2, Zenon DEF Used
<1> QED BY <1>2, <1>3 DEF ObjectType

\* ReleaseFile of a counted reader.
LEMMA ReleasedFields ==
    ASSUME NEW x \in ObjectType, x.readerCount > 0
    PROVE  /\ Released(x) \in ObjectType
           /\ Released(x).size = x.size /\ Released(x).readerCount = x.readerCount - 1
           /\ Released(x).complete = x.complete /\ Released(x).waiters = x.waiters
           /\ \/ Released(x).file = x.file
              \/ Released(x).file = NoFile /\ x.complete
<1>1. x.readerCount - 1 \in Nat /\ ~(x.readerCount <= 0)
  BY DEF ObjectType
<1>2. PICK n \in Nat : n = x.readerCount - 1
  BY <1>1
<1>3. PICK f \in {x.file, NoFile} :
        /\ f = IF x.readerCount - 1 <= 0 /\ x.complete THEN NoFile ELSE x.file
        /\ f = x.file \/ x.complete
  OBVIOUS
<1>4. Released(x) = [x EXCEPT !.readerCount = n, !.file = f]
  BY <1>1, <1>2, <1>3 DEF Released, ObjectType
<1> QED BY <1>2, <1>3, <1>4 DEF ObjectType, Handles

\* Write of one chunk releases every waiter.
LEMMA WrittenFields ==
    ASSUME NEW x \in ObjectType, x.size < Total
    PROVE  /\ Written(x, 1) \in ObjectType
           /\ Written(x, 1).size = x.size + 1 /\ Written(x, 1).readerCount = x.readerCount
           /\ Written(x, 1).complete = x.complete /\ Written(x, 1).waiters = {}
           /\ Written(x, 1).file = x.file
<1>1. x.size + 1 \in 0 .. Total /\ 1 > 0
  BY StoreAssumption DEF ObjectType
<1>2. PICK n \in 0 .. Total : n = x.size + 1
  BY <1>1
<1>3. Written(x, 1) = [[x EXCEPT !.size = n] EXCEPT !.waiters = {}]
  BY <1>1, <1>2, Zenon DEF Written, signalDataChanged
<1> QED BY <1>2, <1>3 DEF ObjectType

\* SetComplete releases every waiter.
LEMMA CompletedFields ==
    ASSUME NEW x \in ObjectType
    PROVE  /\ Completed(x) \in ObjectType
           /\ Completed(x).size = x.size /\ Completed(x).readerCount = x.readerCount
           /\ Completed(x).complete = TRUE /\ Completed(x).waiters = {}
           /\ Completed(x).file = x.file
  BY DEF ObjectType, Completed, signalDataChanged

\* A reader starts to wait.
LEMMA WaitingFields ==
    ASSUME NEW x \in ObjectType, NEW r \in Requests
    PROVE  /\ Waiting(x, r) \in ObjectType
           /\ Waiting(x, r).size = x.size /\ Waiting(x, r).readerCount = x.readerCount
           /\ Waiting(x, r).complete = x.complete /\ Waiting(x, r).file = x.file
           /\ Waiting(x, r).waiters = x.waiters \cup {r}
  BY DEF ObjectType, Waiting

\* A new object, and one found on disk.
LEMMA NewFields ==
    ASSUME NEW f \in Handles, NEW n \in 0 .. Total
    PROVE  /\ NewObject(f) \in ObjectType /\ LoadedObject(n) \in ObjectType
           /\ Blank \in ObjectType
           /\ NewObject(f).size = 0 /\ NewObject(f).file = f /\ NewObject(f).readerCount = 0
           /\ NewObject(f).waiters = {}
           /\ LoadedObject(n).size = n /\ LoadedObject(n).file = NoFile
           /\ LoadedObject(n).readerCount = 0 /\ LoadedObject(n).waiters = {}
           /\ Blank.size = 0 /\ Blank.file = NoFile /\ Blank.readerCount = 0
           /\ Blank.waiters = {}
  BY StoreAssumption DEF ObjectType, NewObject, LoadedObject, Blank, Handles

\* Any set of ids that is not empty has a least one.
LEMMA LeastIn ==
    ASSUME NEW S \in SUBSET Ids, S # {}
    PROVE  Least(S) \in S
<1> DEFINE R == OpToRel(<, Nat)
<1>1. S \subseteq Nat
  BY StoreAssumption
<1>2. IsWellFoundedOn(R, Nat)
  BY NatLessThanWellFounded
<1>3. \E x \in S : \A y \in S : ~(<<y, x>> \in R)
  <2> HIDE DEF R
  <2> QED BY <1>1, <1>2, WFMin
<1>4. \A x, y \in Nat : x < y => <<x, y>> \in R
  BY DEF OpToRel
<1>5. PICK x \in S : \A y \in S : ~(<<y, x>> \in R)
  BY <1>3
<1> HIDE DEF R
<1>6. \A y \in S : ~(y < x)
  BY <1>1, <1>4, <1>5
<1>7. \A y \in S : x <= y
  BY <1>1, <1>6
<1> QED BY <1>7 DEF Least

-----------------------------------------------------------------------------
(* Steps that write one field of a record in a function *)

\* Goto moves one request and nothing else of it.
LEMMA GotoMoves ==
    ASSUME req \in [Requests -> RequestType], NEW r \in Requests,
           NEW st \in {"idle", "miss", "creating", "created", "startfailed", "exists", "got",
                       "open", "waiting", "ended"},
           Goto(r, st)
    PROVE  /\ req' \in [Requests -> RequestType]
           /\ req'[r].pc = st /\ req'[r].key = req[r].key /\ req'[r].obj = req[r].obj
           /\ req'[r].off = req[r].off
           /\ \A q \in Requests \ {r} : req'[q] = req[q]
  BY DEF Goto, RequestType

\* A request that gives up is idle.
LEMMA IdleMoves ==
    ASSUME req \in [Requests -> RequestType], NEW r \in Requests,
           req' = [req EXCEPT ![r] = Idle]
    PROVE  /\ req' \in [Requests -> RequestType]
           /\ req'[r].pc = "idle" /\ req'[r].key = NoKey /\ req'[r].obj = NoId
           /\ \A q \in Requests \ {r} : req'[q] = req[q]
  BY StoreAssumption DEF Idle, RequestType

\* os.Remove of a marker touches no data file and no other key.
LEMMA MarkerMoves ==
    ASSUME disk \in [Keys -> DiskType], suspect \subseteq Keys, NEW k \in Keys,
           RemoveMarker(k) \/ TryRemoveMarker(k)
    PROVE  /\ disk' \in [Keys -> DiskType] /\ suspect' \subseteq Keys
           /\ \A l \in Keys : disk'[l].inode = disk[l].inode
           /\ \A l \in Keys \ {k} : disk'[l] = disk[l] /\ (l \in suspect' <=> l \in suspect)
           /\ \/ ~disk'[k].marker
              \/ disk' = disk /\ suspect' = suspect
<1>1. CASE RemoveMarker(k)
  <2>1. /\ disk' \in [Keys -> DiskType]
        /\ \A l \in Keys : disk'[l].inode = disk[l].inode
        /\ \A l \in Keys \ {k} : disk'[l] = disk[l]
        /\ ~disk'[k].marker
    BY <1>1 DEF RemoveMarker, DiskType
  <2>2. suspect' = suspect \ {k}
    BY <1>1 DEF RemoveMarker
  <2> QED BY <2>1, <2>2
<1>2. CASE disk' = disk /\ suspect' = suspect
  BY <1>2
<1> QED BY <1>1, <1>2 DEF TryRemoveMarker

\* os.Remove of a data file touches no marker and no other key.
LEMMA DataMoves ==
    ASSUME disk \in [Keys -> DiskType], NEW k \in Keys, RemoveData(k)
    PROVE  /\ disk' \in [Keys -> DiskType]
           /\ disk'[k].inode = NoId /\ disk'[k].marker = disk[k].marker
           /\ \A l \in Keys \ {k} : disk'[l] = disk[l]
  BY DEF RemoveData, DiskType

\* os.Create in newCacheObject.
LEMMA CreateMoves ==
    ASSUME Shape, NEW r \in Requests, req[r].key \in Keys, CreateFile(r)
    PROVE  \E k \in Keys, i \in Ids :
             /\ k = req[r].key /\ cmap[k] = NoId
             /\ \/ i = disk[k].inode
                \/ \A l \in Keys : disk[l].inode # i
             /\ disk' \in [Keys -> DiskType]
             /\ disk'[k].inode = i /\ disk'[k].marker = disk[k].marker
             /\ \A l \in Keys \ {k} : disk'[l] = disk[l]
             /\ ilen' = [ilen EXCEPT ![i] = 0]
             /\ suspect' = IF disk[k].marker THEN suspect \cup {k} ELSE suspect
             /\ \E o \in Ids : ~InUse(o) /\ op' = [kind |-> "create", key |-> k, id |-> o]
<1> DEFINE k == req[r].key
           i == IF disk[k].inode # NoId THEN disk[k].inode ELSE Least(FreeInodes)
<1>1. \A S : S \in SUBSET Ids /\ S # {} => Least(S) \in S
  BY LeastIn
<1>2. FreeIds \subseteq Ids /\ FreeInodes \subseteq Ids
  BY DEF FreeIds, FreeInodes
<1>3. Least(FreeIds) \in FreeIds
  BY <1>1, <1>2 DEF CreateFile
<1>4. /\ i \in Ids
      /\ i = disk[k].inode \/ \A l \in Keys : disk[l].inode # i
  <2>1. CASE disk[k].inode # NoId
    BY <2>1 DEF Shape, DiskType
  <2>2. CASE disk[k].inode = NoId
    <3>1. Least(FreeInodes) \in FreeInodes
      BY <1>1, <1>2, <2>2 DEF CreateFile
    <3> QED BY <2>2, <3>1 DEF FreeInodes, InodeInUse
  <2> QED BY <2>1, <2>2
<1>5. PICK j \in Ids : j = i
  BY <1>4
<1>6. /\ disk' = [disk EXCEPT ![k].inode = j] /\ ilen' = [ilen EXCEPT ![j] = 0]
      /\ suspect' = IF disk[k].marker THEN suspect \cup {k} ELSE suspect
      /\ op' = [kind |-> "create", key |-> k, id |-> Least(FreeIds)]
      /\ cmap[k] = NoId
  BY <1>5 DEF CreateFile
<1>7. /\ disk' \in [Keys -> DiskType]
      /\ disk'[k].inode = j /\ disk'[k].marker = disk[k].marker
      /\ \A l \in Keys \ {k} : disk'[l] = disk[l]
  BY <1>6 DEF Shape, DiskType
<1>8. \E o \in Ids : ~InUse(o) /\ op' = [kind |-> "create", key |-> k, id |-> o]
  BY <1>3, <1>6 DEF FreeIds
<1>9. j = disk[k].inode \/ \A l \in Keys : disk[l].inode # j
  BY <1>4, <1>5
<1> QED BY <1>6, <1>7, <1>8, <1>9

-----------------------------------------------------------------------------
(* Types *)

\* The objects stay well formed.
LEMMA ObjectsTyped ==
    ASSUME StoreInv, Next
    PROVE  objs' \in [Ids -> ObjectType]
<1>0. /\ objs \in [Ids -> ObjectType] /\ cmap \in [Keys -> Ids \cup {NoId}]
      /\ req \in [Requests -> RequestType] /\ NoId \notin Ids
  BY StoreAssumption DEF StoreInv, Shape, NoId
<1>1. ASSUME NEW k \in Keys, BeginDelete(k) PROVE objs' \in [Ids -> ObjectType]
  BY <1>0, <1>1, ClosedFields DEF BeginDelete
<1>2. CASE CloseAll
  BY <1>0, <1>2, ClosedFields DEF CloseAll
<1>3. ASSUME NEW k \in Keys, EvictClose(k) PROVE objs' \in [Ids -> ObjectType]
  BY <1>0, <1>3, ClosedFields DEF EvictClose
<1>4. ASSUME NEW r \in Requests, CreateDone(r) PROVE objs' \in [Ids -> ObjectType]
  <2>1. [inode |-> disk[op.key].inode, mode |-> "rw"] \in Handles
    BY <1>4 DEF CreateDone, StoreInv, LockHolder, Handles
  <2>2. 0 \in 0 .. Total
    BY StoreAssumption
  <2> QED BY <1>0, <1>4, <2>1, <2>2, NewFields DEF CreateDone
<1>5. ASSUME NEW r \in Requests, StartFailed(r) PROVE objs' \in [Ids -> ObjectType]
  <2>1. req[r].key \in Keys
    BY <1>5 DEF StartFailed, StoreInv, Keyed
  <2> QED BY <1>1, <1>5, <2>1 DEF StartFailed
<1>6. ASSUME NEW r \in Requests, OpenReader(r) PROVE objs' \in [Ids -> ObjectType]
  <2> DEFINE o == req[r].obj
             f == [inode |-> disk[okey[o]].inode, mode |-> "ro"]
  <2>1. o \in Ids /\ okey[o] \in Keys
    BY <1>6 DEF OpenReader, StoreInv, Keyed
  <2>2. CASE objs[o].file # NoFile \/ disk[okey[o]].inode # NoId
    <3>1. objs[o].file # NoFile \/ f \in Handles
      BY <2>1, <2>2 DEF StoreInv, Shape, DiskType, Handles
    <3>2. objs' = [objs EXCEPT ![o] = Used(@, f)]
      BY <1>6, <2>2 DEF OpenReader
    <3> HIDE DEF f
    <3> QED BY <1>0, <2>1, <3>1, <3>2, UsedFields
  <2>3. CASE ~(objs[o].file # NoFile \/ disk[okey[o]].inode # NoId)
    BY <1>0, <1>6, <2>3 DEF OpenReader
  <2> QED BY <2>2, <2>3
<1>7. ASSUME NEW r \in Requests, Read(r) PROVE objs' \in [Ids -> ObjectType]
  BY <1>0, <1>7, WaitingFields DEF Read
<1>8. ASSUME NEW r \in Requests, HangUp(r) PROVE objs' \in [Ids -> ObjectType]
  <2>1. objs' = [objs EXCEPT ![req[r].obj].waiters = @ \ {r}]
    BY <1>8 DEF HangUp
  <2> QED BY <1>0, <2>1 DEF ObjectType
<1>9. ASSUME NEW r \in Requests, CloseReader(r) PROVE objs' \in [Ids -> ObjectType]
  <2>1. ASSUME NEW x \in ObjectType PROVE Released(x) \in ObjectType
    <3>1. CASE x.readerCount > 0
      BY <3>1, ReleasedFields
    <3>2. CASE x.readerCount <= 0
      BY <3>2 DEF Released
    <3> QED BY <3>1, <3>2 DEF ObjectType
  <2> QED BY <1>0, <1>9, <2>1 DEF CloseReader
<1>10. ASSUME NEW o \in Ids, ProducerWrites(o) PROVE objs' \in [Ids -> ObjectType]
  BY <1>0, <1>10, WrittenFields DEF ProducerWrites
<1>11. ASSUME NEW o \in Ids, ProducerCompletes(o) PROVE objs' \in [Ids -> ObjectType]
  BY <1>0, <1>11, CompletedFields DEF ProducerCompletes
<1>12. ASSUME NEW o \in Ids, ProducerAborts(o) PROVE objs' \in [Ids -> ObjectType]
  <2>1. okey[o] \in Keys
    BY <1>12 DEF ProducerAborts, StoreInv, Keyed
  <2> QED BY <1>1, <1>12, <2>1 DEF ProducerAborts
<1>13. CASE Crash \/ Restart
  <2>1. Blank \in ObjectType /\ \A i \in Ids : LoadedObject(ilen[i]) \in ObjectType
    <3>1. NoFile \in Handles /\ 0 \in 0 .. Total /\ \A i \in Ids : ilen[i] \in 0 .. Total
      BY StoreAssumption DEF StoreInv, Shape, Handles
    <3> QED BY <3>1, NewFields
  <2> QED BY <1>13, <2>1 DEF Crash, Restart
<1>14. CASE objs' = objs
  BY <1>0, <1>14
<1> QED
  BY <1>1, <1>2, <1>3, <1>4, <1>5, <1>6, <1>7, <1>8, <1>9, <1>10, <1>11, <1>12, <1>13, <1>14
  DEF Next, LockStep, RequestStep, ProducerStep, Environment, memory, DeleteData,
      DeleteDataFails, DeleteUnmap, EvictData, EvictUnmap, ClearRemove, ClearDirectory,
      ClearDone, Invalidate,
      Clear, CloseCache, GetObject, CreateExists, AfterExists, CreateFile, CreateFails,
      StartProducer, ProducerFails, ProducerMarks

\* The requests stay well formed.
LEMMA RequestsTyped ==
    ASSUME StoreInv, Next
    PROVE  req' \in [Requests -> RequestType]
<1>0. /\ req \in [Requests -> RequestType] /\ cmap \in [Keys -> Ids \cup {NoId}]
      /\ objs \in [Ids -> ObjectType]
  BY DEF StoreInv, Shape
<1>1. ASSUME NEW r \in Requests, NEW k \in Keys, GetObject(r, k)
      PROVE  req' \in [Requests -> RequestType]
  <2>1. PICK st \in {"miss", "got"} : st = IF cmap[k] = NoId THEN "miss" ELSE "got"
    OBVIOUS
  <2>2. Idle \in RequestType
    BY StoreAssumption DEF Idle, RequestType
  <2>3. [Idle EXCEPT !.pc = st, !.key = k, !.obj = cmap[k]] \in RequestType
    BY <1>0, <2>2 DEF RequestType
  <2> QED BY <1>0, <1>1, <2>1, <2>3 DEF GetObject
<1>2. ASSUME NEW r \in Requests, AfterExists(r) PROVE req' \in [Requests -> RequestType]
  <2>1. CASE req' = [req EXCEPT ![r] = Idle]
    BY <1>0, <2>1, IdleMoves
  <2>2. CASE req' = [req EXCEPT ![r].pc = "got", ![r].obj = cmap[req[r].key]]
    <3>1. req[r].key \in Keys
      BY <1>2 DEF AfterExists, StoreInv, Keyed
    <3> QED BY <1>0, <2>2, <3>1, ZenonT(30) DEF RequestType
  <2> QED BY <1>2, <2>1, <2>2 DEF AfterExists
<1>3. ASSUME NEW r \in Requests, CreateDone(r) PROVE req' \in [Requests -> RequestType]
  BY <1>0, <1>3 DEF CreateDone, RequestType, StoreInv, LockHolder
<1>4. ASSUME NEW r \in Requests, Read(r) PROVE req' \in [Requests -> RequestType]
  <2> DEFINE o == req[r].obj
  <2>1. o \in Ids /\ req[r].off \in 0 .. Total
    BY <1>0, <1>4 DEF Read, StoreInv, Keyed, RequestType
  <2>2. CASE \E st \in {"ended", "waiting"} : Goto(r, st)
    BY <1>0, <2>2, GotoMoves
  <2>3. CASE WaitForData(objs[o], req[r].off) = "data"
    <3>1. objs[o].file # NoFile
      BY <2>3 DEF WaitForData
    <3>2. objs[o].file.inode \in Ids
      BY <1>0, <2>1, <3>1 DEF ObjectType, Handles
    <3>3. ilen[objs[o].file.inode] \in 0 .. Total
      BY <3>2 DEF StoreInv, Shape
    <3>4. PICK n \in 0 .. Total : n = IF ilen[objs[o].file.inode] > req[r].off
                                      THEN req[r].off + 1 ELSE req[r].off
      BY <2>1, <3>3, StoreAssumption
    <3>5. req' = [req EXCEPT ![r].pc = "open",
                      ![r].off = IF ilen[objs[o].file.inode] > @ THEN @ + 1 ELSE @]
      BY <1>4, <2>3 DEF Read
    <3>6. req' = [req EXCEPT ![r].pc = "open", ![r].off = n]
      BY <1>0, <3>4, <3>5, Zenon DEF RequestType
    <3> QED BY <1>0, <3>6, ZenonT(30) DEF RequestType
  <2> QED BY <1>4, <2>2, <2>3 DEF Read
<1>5. ASSUME NEW r \in Requests,
             NEW st \in {"exists", "creating", "got", "startfailed", "open", "ended"}, Goto(r, st)
      PROVE  req' \in [Requests -> RequestType]
  BY <1>0, <1>5, GotoMoves
<1>6. ASSUME NEW r \in Requests, req' = [req EXCEPT ![r] = Idle]
      PROVE  req' \in [Requests -> RequestType]
  BY <1>0, <1>6, IdleMoves
<1>7. CASE Crash
  BY <1>7, StoreAssumption DEF Crash, Idle, RequestType
<1>8. CASE req' = req
  BY <1>0, <1>8
<1> QED
  BY <1>1, <1>2, <1>3, <1>4, <1>5, <1>6, <1>7, <1>8
  DEF Next, LockStep, RequestStep, ProducerStep, Environment, memory, DeleteData,
      DeleteDataFails, DeleteUnmap, EvictData, EvictUnmap, EvictClose, ClearRemove,
      ClearDirectory, ClearDone,
      Invalidate, Clear, CloseCache, CreateExists, CreateFile, CreateFails, StartProducer,
      StartFailed, OpenReader, HangUp, CloseReader, ProducerWrites, ProducerFails,
      ProducerCompletes, ProducerMarks, ProducerAborts, Restart

\* What the cache directory holds stays well formed, and no file exceeds the output.
LEMMA DiskTyped ==
    ASSUME StoreInv, Next
    PROVE  /\ disk' \in [Keys -> DiskType] /\ suspect' \subseteq Keys
           /\ ilen' \in [Ids -> 0 .. Total]
<1>0. /\ disk \in [Keys -> DiskType] /\ suspect \subseteq Keys /\ ilen \in [Ids -> 0 .. Total]
      /\ op.kind \in {"delete", "unmap", "evict", "evict2", "create"} => op.key \in Keys
      /\ 0 \in 0 .. Total
  BY StoreAssumption DEF StoreInv, Shape, LockHolder
<1>1. CASE DeleteData
  BY <1>0, <1>1, DataMoves DEF DeleteData
<1>2. CASE DeleteUnmap \/ EvictUnmap \/ \E r \in Requests : CreateDone(r)
  BY <1>0, <1>2, MarkerMoves DEF DeleteUnmap, EvictUnmap, CreateDone
<1>3. CASE EvictData
  BY <1>0, <1>3, DataMoves DEF EvictData
<1>4. ASSUME NEW k \in Keys, ClearRemove(k)
      PROVE  disk' \in [Keys -> DiskType] /\ suspect' \subseteq Keys /\ ilen' = ilen
  BY <1>0, <1>4, DataMoves, MarkerMoves DEF ClearRemove
<1>5. ASSUME NEW r \in Requests, CreateFile(r)
      PROVE  /\ disk' \in [Keys -> DiskType] /\ suspect' \subseteq Keys
             /\ ilen' \in [Ids -> 0 .. Total]
  <2>1. req[r].key \in Keys
    BY <1>5 DEF CreateFile, StoreInv, Keyed
  <2>2. PICK k \in Keys, i \in Ids :
             /\ disk' \in [Keys -> DiskType]
             /\ ilen' = [ilen EXCEPT ![i] = 0]
             /\ suspect' = IF disk[k].marker THEN suspect \cup {k} ELSE suspect
    BY <1>5, <2>1, CreateMoves DEF StoreInv
  <2> QED BY <1>0, <2>2
<1>6. ASSUME NEW o \in Ids, ProducerWrites(o)
      PROVE  /\ disk' \in [Keys -> DiskType] /\ suspect' \subseteq Keys
             /\ ilen' \in [Ids -> 0 .. Total]
  <2>1. CASE objs[o].file # NoFile /\ objs[o].file.mode = "rw"
    <3>1. okey[o] \in Keys /\ cmap[okey[o]] = o /\ op.key # okey[o] /\ o # NoId
      BY <2>1, StoreAssumption DEF StoreInv, Writers, NoId
    <3>2. objs[o].file.inode \in Ids /\ ilen[objs[o].file.inode] = objs[o].size
      BY <2>1, <3>1 DEF StoreInv, Owned, Shape, DiskType
    <3>3. objs[o].size < Total /\ objs[o].size \in 0 .. Total
      BY <1>6 DEF ProducerWrites, StoreInv, Shape, ObjectType
    <3>4. PICK n \in 0 .. Total : n = ilen[objs[o].file.inode] + 1
      BY <3>2, <3>3, StoreAssumption
    <3>5. ilen' = [ilen EXCEPT ![objs[o].file.inode] = n]
      BY <1>6, <2>1, <3>4 DEF ProducerWrites
    <3> QED BY <1>0, <1>6, <3>5 DEF ProducerWrites
  <2> QED BY <1>0, <1>6, <2>1 DEF ProducerWrites
<1>7. ASSUME NEW o \in Ids, ProducerMarks(o)
      PROVE  disk' \in [Keys -> DiskType] /\ suspect' \subseteq Keys /\ ilen' = ilen
  <2>1. okey[o] \in Keys
    BY <1>7 DEF ProducerMarks, StoreInv, Keyed
  <2> QED BY <1>0, <1>7, <2>1 DEF ProducerMarks, DiskType
<1>8. CASE Restart
  <2>1. disk' \in [Keys -> DiskType]
    BY <1>0, <1>8 DEF Restart, DiskType
  <2> QED BY <1>0, <1>8, <2>1 DEF Restart
<1>9. CASE disk' = disk /\ suspect' = suspect /\ ilen' = ilen
  BY <1>0, <1>9
<1> QED
  BY <1>0, <1>1, <1>2, <1>3, <1>4, <1>5, <1>6, <1>7, <1>8, <1>9
  DEF Next, LockStep, RequestStep, ProducerStep, Environment, memory,
      DeleteDataFails, EvictClose, ClearDirectory, ClearDone, GetObject, AfterExists,
      Invalidate, Clear, CloseCache, CreateExists, CreateFails, StartProducer,
      StartFailed, OpenReader, Read, HangUp, CloseReader, ProducerFails,
      ProducerCompletes, ProducerAborts, Crash

\* The map, the keys of the objects, their producers and the lock stay well formed.
LEMMA MapTyped ==
    ASSUME StoreInv, Next
    PROVE  /\ okey' \in [Ids -> Keys \cup {NoKey}] /\ cmap' \in [Keys -> Ids \cup {NoId}]
           /\ prod' \in [Ids -> {"none", "running", "failed", "marking", "done"}]
           /\ op' \in OpType /\ phase' \in {"up", "closing", "down"}
<1> DEFINE Typed == /\ okey' \in [Ids -> Keys \cup {NoKey}]
                    /\ cmap' \in [Keys -> Ids \cup {NoId}]
                    /\ prod' \in [Ids -> {"none", "running", "failed", "marking", "done"}]
                    /\ op' \in OpType /\ phase' \in {"up", "closing", "down"}
<1>0. /\ okey \in [Ids -> Keys \cup {NoKey}] /\ cmap \in [Keys -> Ids \cup {NoId}]
      /\ prod \in [Ids -> {"none", "running", "failed", "marking", "done"}]
      /\ op \in OpType /\ phase \in {"up", "closing", "down"} /\ Free \in OpType
      /\ disk \in [Keys -> DiskType]
  BY DEF StoreInv, Shape, OpType, Free
<1>1. ASSUME NEW k \in Keys, BeginDelete(k) PROVE op' \in OpType
  BY <1>0, <1>1 DEF BeginDelete, OpType
<1>2. CASE DeleteData \/ EvictData
  BY <1>0, <1>2 DEF DeleteData, EvictData, OpType, memory, ambient
<1>3. CASE DeleteUnmap \/ EvictUnmap \/ DeleteDataFails \/ ClearDone
  BY <1>0, <1>3 DEF DeleteUnmap, EvictUnmap, DeleteDataFails, ClearDone, memory
<1>14. CASE ClearDirectory
  <2>1. [op EXCEPT !.kind = "mkdir"] \in OpType
    BY <1>0 DEF OpType
  <2>2. op' \in OpType
    BY <1>0, <1>14, <2>1 DEF ClearDirectory
  <2> QED BY <1>0, <1>14, <2>2 DEF ClearDirectory, memory
<1>4. ASSUME NEW k \in Keys, EvictClose(k) PROVE Typed
  BY <1>0, <1>4 DEF EvictClose, OpType, ambient
<1>5. CASE Clear \/ CloseCache
  BY <1>0, <1>5 DEF Clear, CloseCache, CloseAll, OpType, Free, ambient
<1>6. ASSUME NEW r \in Requests, CreateFile(r) PROVE Typed
  <2>1. req[r].key \in Keys
    BY <1>6 DEF CreateFile, StoreInv, Keyed
  <2>2. PICK k \in Keys, o \in Ids : op' = [kind |-> "create", key |-> k, id |-> o]
    BY <1>6, <2>1, CreateMoves DEF StoreInv
  <2> QED BY <1>0, <1>6, <2>2 DEF CreateFile, OpType, memory, ambient
<1>7. ASSUME NEW r \in Requests, CreateDone(r) PROVE Typed
  <2>1. op.id \in Ids /\ op.key \in Keys
    BY <1>7 DEF CreateDone, StoreInv, LockHolder
  <2> QED BY <1>0, <1>7, <2>1 DEF CreateDone
<1>8. ASSUME NEW r \in Requests, StartProducer(r) \/ StartFailed(r) PROVE Typed
  <2>1. req[r].key \in Keys
    BY <1>8 DEF StartProducer, StartFailed, StoreInv, Keyed
  <2> QED BY <1>0, <1>1, <1>8, <2>1 DEF StartProducer, StartFailed, memory, ambient
<1>9. ASSUME NEW o \in Ids, ProducerStep(o) \/ ProducerFails(o) PROVE Typed
  <2>1. CASE ProducerAborts(o)
    <3>1. okey[o] \in Keys
      BY <2>1 DEF ProducerAborts, StoreInv, Keyed
    <3> QED BY <1>0, <1>1, <2>1, <3>1 DEF ProducerAborts, ambient
  <2> QED BY <1>0, <1>9, <2>1 DEF ProducerStep, ProducerWrites, ProducerCompletes,
             ProducerMarks, ProducerFails, memory, ambient
<1>10. CASE Crash
  BY <1>0, <1>10 DEF Crash
<1>11. CASE Restart
  <2> DEFINE Loaded(i) == \E k \in Keys : Loadable(k) /\ disk[k].inode = i
             owner(i) == CHOOSE k \in Keys : Loadable(k) /\ disk[k].inode = i
  <2>1. \A i \in Ids : Loaded(i) => owner(i) \in Keys
    OBVIOUS
  <2>2. okey' = [i \in Ids |-> IF Loaded(i) THEN owner(i) ELSE NoKey]
    BY <1>11 DEF Restart
  <2>3. okey' \in [Ids -> Keys \cup {NoKey}]
    <3> HIDE DEF Loaded, owner
    <3> QED BY <2>1, <2>2
  <2>4. cmap' \in [Keys -> Ids \cup {NoId}]
    BY <1>0, <1>11 DEF Restart, DiskType
  <2> QED BY <1>0, <1>11, <2>3, <2>4 DEF Restart
<1>12. ASSUME NEW k \in Keys, Invalidate(k) PROVE Typed
  BY <1>0, <1>1, <1>12 DEF Invalidate, ambient
<1>13. CASE okey' = okey /\ cmap' = cmap /\ prod' = prod /\ op' = op /\ phase' = phase
  BY <1>0, <1>13
<1> QED
  BY <1>2, <1>3, <1>4, <1>5, <1>6, <1>7, <1>8, <1>9, <1>10, <1>11, <1>12, <1>13, <1>14
  DEF Next, LockStep, RequestStep, Environment, memory, ambient, ClearRemove, GetObject,
      AfterExists, CreateExists, CreateFails, OpenReader, Read, HangUp, CloseReader

\* So do the directory and the keys whose removal failed.
LEMMA DirTyped ==
    ASSUME StoreInv, Next
    PROVE  dir' \in BOOLEAN /\ stuck' \subseteq Keys
<1>1. dir' \in BOOLEAN
  <2>1. \/ dir' = dir \/ dir' = TRUE \/ dir' = FALSE
    BY DEF Next, LockStep, RequestStep, ProducerStep, Environment, ambient, DeleteData,
       DeleteDataFails, DeleteUnmap, EvictData, EvictUnmap, ClearRemove, ClearDirectory,
       ClearDone, CreateExists, AfterExists, CreateFile, CreateFails, CreateDone,
       StartProducer, StartFailed, OpenReader, Read, CloseReader, ProducerWrites,
       ProducerCompletes, ProducerMarks, ProducerAborts, Invalidate, EvictClose, Clear,
       CloseCache, Crash, Restart, HangUp, GetObject, ProducerFails
  <2> QED BY <2>1 DEF StoreInv, Shape
<1>2. stuck' \subseteq Keys
  <2>1. stuck' \subseteq stuck \/ (op.key \in Keys /\ stuck' = stuck \cup {op.key})
    <3>1. CASE DeleteDataFails
      BY <3>1 DEF DeleteDataFails, StoreInv, LockHolder
    <3>2. CASE ~DeleteDataFails
      BY <3>2 DEF Next, LockStep, RequestStep, ProducerStep, Environment, ambient, DeleteData,
         DeleteUnmap, EvictData, EvictUnmap, ClearRemove, ClearDirectory,
         ClearDone, CreateExists, AfterExists, CreateFile, CreateFails, CreateDone,
         StartProducer, StartFailed, OpenReader, Read, CloseReader, ProducerWrites,
         ProducerCompletes, ProducerMarks, ProducerAborts, Invalidate, EvictClose, Clear,
         CloseCache, CloseAll, Crash, Restart, HangUp, GetObject, ProducerFails
    <3> QED BY <3>1, <3>2
  <2> QED BY <2>1 DEF StoreInv, Shape
<1> QED BY <1>1, <1>2

\* Shape is kept.
LEMMA ShapeStep ==
    ASSUME StoreInv, Next
    PROVE  Shape'
  BY ObjectsTyped, RequestsTyped, DiskTyped, MapTyped, DirTyped DEF Shape

-----------------------------------------------------------------------------
(* Keys, inodes and the lock *)

MapKeyed == \A k \in Keys : cmap[k] # NoId => okey[cmap[k]] = k

ProducersKeyed ==
    \A o \in Ids : prod[o] \in {"running", "marking", "failed"} => okey[o] \in Keys

RequestKeyed(r) ==
    /\ req[r].obj \in Ids => okey[req[r].obj] \in Keys
    /\ req[r].pc # "idle" => req[r].key \in Keys
    /\ req[r].pc \notin {"idle", "miss", "creating", "exists"} => req[r].obj \in Ids

\* A mapped object keeps its key.
LEMMA MapKeyedStep ==
    ASSUME StoreInv, Next
    PROVE  MapKeyed'
<1>0. /\ okey \in [Ids -> Keys \cup {NoKey}] /\ cmap \in [Keys -> Ids \cup {NoId}]
      /\ disk \in [Keys -> DiskType] /\ MapKeyed /\ NoId \notin Ids
  BY StoreAssumption DEF StoreInv, Shape, Keyed, MapKeyed, NoId
<1>1. CASE DeleteUnmap \/ EvictUnmap
  BY <1>0, <1>1 DEF DeleteUnmap, EvictUnmap, MapKeyed
<1>2. CASE CloseAll
  BY <1>0, <1>2 DEF CloseAll, MapKeyed
<1>3. ASSUME NEW r \in Requests, CreateDone(r) PROVE MapKeyed'
  <2>1. op.id \in Ids /\ op.key \in Keys /\ \A k \in Keys : cmap[k] # op.id
    BY <1>3 DEF CreateDone, StoreInv, LockHolder
  <2> QED BY <1>0, <1>3, <2>1 DEF CreateDone, MapKeyed
<1>4. CASE Crash
  BY <1>4 DEF Crash, MapKeyed
<1>5. CASE Restart
  <2> DEFINE Loaded(i) == \E k \in Keys : Loadable(k) /\ disk[k].inode = i
             owner(i) == CHOOSE k \in Keys : Loadable(k) /\ disk[k].inode = i
  <2> SUFFICES ASSUME NEW k \in Keys, cmap'[k] # NoId
               PROVE  okey'[cmap'[k]] = k
    BY DEF MapKeyed
  <2>1. Loadable(k) /\ cmap'[k] = disk[k].inode
    BY <1>5 DEF Restart
  <2>2. disk[k].inode \in Ids /\ Loaded(disk[k].inode)
    BY <1>0, <2>1 DEF Loadable, DiskType
  <2>3. owner(disk[k].inode) \in Keys /\ disk[owner(disk[k].inode)].inode = disk[k].inode
    BY <2>2
  <2>4. owner(disk[k].inode) = k
    <3> HIDE DEF owner
    <3> QED BY <2>1, <2>3 DEF StoreInv, Distinct, Loadable
  <2>5. okey' = [i \in Ids |-> IF Loaded(i) THEN owner(i) ELSE NoKey]
    BY <1>5 DEF Restart
  <2> HIDE DEF owner, Loaded
  <2> QED BY <2>1, <2>2, <2>4, <2>5
<1>6. CASE cmap' = cmap /\ okey' = okey
  BY <1>0, <1>6 DEF MapKeyed
<1> QED
  BY <1>1, <1>2, <1>3, <1>4, <1>5, <1>6
  DEF Next, LockStep, RequestStep, ProducerStep, Environment, memory, DeleteData,
      DeleteDataFails, EvictData, EvictClose, ClearRemove, ClearDirectory, ClearDone,
      Invalidate, Clear, CloseCache, GetObject, AfterExists, CreateExists, CreateFile,
      CreateFails, StartProducer, StartFailed, OpenReader, Read, HangUp, CloseReader,
      ProducerWrites, ProducerFails, ProducerCompletes, ProducerMarks, ProducerAborts

\* A producer that still has work to do knows its key.
LEMMA ProducersKeyedStep ==
    ASSUME StoreInv, Next
    PROVE  ProducersKeyed'
<1>0. /\ okey \in [Ids -> Keys \cup {NoKey}]
      /\ prod \in [Ids -> {"none", "running", "failed", "marking", "done"}]
      /\ ProducersKeyed
  BY DEF StoreInv, Shape, Keyed, ProducersKeyed
<1>1. ASSUME NEW r \in Requests, CreateDone(r) PROVE ProducersKeyed'
  <2>1. op.id \in Ids /\ op.key \in Keys
    BY <1>1 DEF CreateDone, StoreInv, LockHolder
  <2> QED BY <1>0, <1>1, <2>1 DEF CreateDone, ProducersKeyed
<1>2. ASSUME NEW r \in Requests, StartProducer(r) PROVE ProducersKeyed'
  <2>1. req[r].obj \in Ids /\ okey[req[r].obj] \in Keys
    BY <1>2 DEF StartProducer, StoreInv, Keyed
  <2> QED BY <1>0, <1>2, <2>1 DEF StartProducer, ProducersKeyed, memory
<1>3. ASSUME NEW o \in Ids, ProducerStep(o) \/ ProducerFails(o) PROVE ProducersKeyed'
  BY <1>0, <1>3 DEF ProducerStep, ProducerWrites, ProducerFails, ProducerCompletes,
     ProducerMarks, ProducerAborts, ProducersKeyed, memory
<1>4. CASE Crash
  BY <1>4 DEF Crash, ProducersKeyed
<1>5. CASE Restart
  <2>1. prod' = prod /\ prod = [o \in Ids |-> "none"]
    BY <1>5 DEF Restart, StoreInv, Down
  <2> QED BY <2>1 DEF ProducersKeyed
<1>6. CASE prod' = prod /\ okey' = okey
  BY <1>0, <1>6 DEF ProducersKeyed
<1> QED
  BY <1>1, <1>2, <1>3, <1>4, <1>5, <1>6
  DEF Next, LockStep, RequestStep, Environment, memory, DeleteData, DeleteUnmap, EvictUnmap,
      DeleteDataFails, EvictData, EvictClose, ClearRemove, ClearDirectory, ClearDone,
      Invalidate, Clear, CloseCache, GetObject, AfterExists, CreateExists, CreateFile,
      CreateFails, StartFailed, OpenReader, Read, HangUp, CloseReader

\* The step of one request leaves the others alone.
LEMMA OtherRequests ==
    ASSUME req \in [Requests -> RequestType], NEW r \in Requests,
           RequestStep(r) \/ HangUp(r) \/ \E k \in Keys : GetObject(r, k)
    PROVE  \A q \in Requests \ {r} : req'[q] = req[q]
  BY DEF RequestStep, HangUp, GetObject, CreateExists, AfterExists, CreateFile, CreateFails,
     CreateDone, StartProducer, StartFailed, OpenReader, Read, CloseReader, Goto, memory

\* What every step does to a request and to the key of its object.
LEMMA RequestsKeyedStep ==
    ASSUME StoreInv, Next, NEW q \in Requests
    PROVE  RequestKeyed(q)'
<1>0. /\ okey \in [Ids -> Keys \cup {NoKey}] /\ cmap \in [Keys -> Ids \cup {NoId}]
      /\ req \in [Requests -> RequestType] /\ RequestKeyed(q) /\ NoId \notin Ids
      /\ NoKey \notin Keys /\ MapKeyed
  BY StoreAssumption DEF StoreInv, Shape, Keyed, RequestKeyed, MapKeyed, NoId
<1>1. ASSUME NEW r \in Requests, CreateDone(r) PROVE RequestKeyed(q)'
  <2>1. op.id \in Ids /\ op.key \in Keys
    BY <1>1 DEF CreateDone, StoreInv, LockHolder
  <2>2. okey' = [okey EXCEPT ![op.id] = op.key]
    BY <1>1 DEF CreateDone
  <2>3. CASE q = r
    <3>1. req'[r].pc = "created" /\ req'[r].obj = op.id /\ req'[r].key = req[r].key
      BY <1>0, <1>1 DEF CreateDone, RequestType
    <3>2. req[r].key \in Keys
      BY <1>0, <1>1, <2>3 DEF CreateDone, RequestKeyed
    <3> QED BY <1>0, <2>1, <2>2, <2>3, <3>1, <3>2 DEF RequestKeyed
  <2>4. CASE q # r
    <3>1. req'[q] = req[q]
      BY <1>0, <1>1, <2>4 DEF CreateDone
    <3> QED BY <1>0, <2>1, <2>2, <3>1 DEF RequestKeyed
  <2> QED BY <2>3, <2>4
<1>2. ASSUME NEW r \in Requests, okey' = okey,
             \/ \E st \in {"exists", "creating", "got", "startfailed", "open", "waiting",
                           "ended"} : Goto(r, st)
             \/ req' = [req EXCEPT ![r] = Idle],
             req[r].pc # "idle",
             req[r].pc \in {"miss", "creating", "exists"} =>
                req' = [req EXCEPT ![r] = Idle] \/ Goto(r, "exists") \/ Goto(r, "creating")
      PROVE  RequestKeyed(q)'
  <2>1. CASE q # r
    <3>1. req'[q] = req[q]
      BY <1>0, <1>2, <2>1 DEF Goto
    <3> QED BY <1>0, <1>2, <3>1 DEF RequestKeyed
  <2>2. CASE q = r /\ req' = [req EXCEPT ![r] = Idle]
    BY <1>0, <1>2, <2>2, IdleMoves DEF RequestKeyed
  <2>3. CASE q = r /\ \E st \in {"exists", "creating"} : Goto(r, st)
    <3>1. PICK st \in {"exists", "creating"} : Goto(r, st)
      BY <2>3
    <3>2. req'[r].pc = st /\ req'[r].key = req[r].key /\ req'[r].obj = req[r].obj
      BY <1>0, <3>1, GotoMoves
    <3> QED BY <1>0, <1>2, <2>3, <3>2 DEF RequestKeyed
  <2>4. CASE /\ q = r /\ req[r].pc \notin {"miss", "creating", "exists"}
             /\ \E st \in {"got", "startfailed", "open", "waiting", "ended"} : Goto(r, st)
    <3>1. PICK st \in {"got", "startfailed", "open", "waiting", "ended"} : Goto(r, st)
      BY <2>4
    <3>2. req'[r].pc = st /\ req'[r].key = req[r].key /\ req'[r].obj = req[r].obj
      BY <1>0, <3>1, GotoMoves
    <3> QED BY <1>0, <1>2, <2>4, <3>2 DEF RequestKeyed
  <2> QED BY <1>2, <2>1, <2>2, <2>3, <2>4
<1>3. ASSUME NEW r \in Requests, CreateExists(r) \/ CreateFile(r) \/ CreateFails(r)
                                 \/ StartProducer(r) \/ StartFailed(r) \/ OpenReader(r)
                                 \/ HangUp(r) \/ CloseReader(r)
      PROVE  RequestKeyed(q)'
  BY <1>2, <1>3 DEF CreateExists, CreateFile, CreateFails, StartProducer, StartFailed,
     OpenReader, HangUp, CloseReader, memory
<1>4. ASSUME NEW r \in Requests, Read(r) PROVE RequestKeyed(q)'
  <2>1. CASE \E st \in {"waiting", "ended"} : Goto(r, st)
    BY <1>2, <1>4, <2>1 DEF Read
  <2>2. CASE WaitForData(objs[req[r].obj], req[r].off) = "data"
    <3>1. /\ \A p \in Requests \ {r} : req'[p] = req[p]
          /\ req'[r].pc = "open" /\ req'[r].key = req[r].key /\ req'[r].obj = req[r].obj
          /\ okey' = okey /\ req[r].pc \in {"open", "waiting"}
      BY <1>0, <1>4, <2>2 DEF Read, RequestType
    <3> QED BY <1>0, <3>1 DEF RequestKeyed
  <2> QED BY <1>4, <2>1, <2>2 DEF Read
<1>5. ASSUME NEW r \in Requests, NEW k \in Keys, GetObject(r, k) PROVE RequestKeyed(q)'
  <2>1. /\ req'[r].key = k /\ req'[r].obj = cmap[k]
        /\ req'[r].pc = IF cmap[k] = NoId THEN "miss" ELSE "got"
        /\ \A p \in Requests \ {r} : req'[p] = req[p]
        /\ okey' = okey
    BY <1>0, <1>5 DEF GetObject, Idle, memory
  <2> QED BY <1>0, <2>1 DEF RequestKeyed, MapKeyed
<1>6. ASSUME NEW r \in Requests, AfterExists(r) PROVE RequestKeyed(q)'
  <2>1. CASE req' = [req EXCEPT ![r] = Idle]
    BY <1>2, <1>6, <2>1 DEF AfterExists, memory
  <2>2. CASE /\ cmap[req[r].key] # NoId
             /\ req' = [req EXCEPT ![r].pc = "got", ![r].obj = cmap[req[r].key]]
    <3>1. /\ \A p \in Requests \ {r} : req'[p] = req[p]
          /\ req'[r].key = req[r].key /\ req'[r].obj = cmap[req[r].key]
          /\ okey' = okey /\ req[r].pc = "exists"
      BY <1>0, <1>6, <2>2 DEF AfterExists, RequestType, memory
    <3>2. req[r].key \in Keys
      BY <3>1 DEF StoreInv, Keyed
    <3> QED BY <1>0, <2>2, <3>1, <3>2 DEF RequestKeyed, MapKeyed
  <2> QED BY <1>6, <2>1, <2>2 DEF AfterExists
<1>7. CASE Crash
  BY <1>0, <1>7 DEF Crash, Idle, RequestKeyed
<1>8. CASE Restart
  <2>1. req' = req /\ req = [r \in Requests |-> Idle]
    BY <1>8 DEF Restart, StoreInv, Down
  <2> QED BY <1>0, <2>1 DEF Idle, RequestKeyed
<1>9. CASE req' = req /\ okey' = okey
  BY <1>0, <1>9 DEF RequestKeyed
<1> QED
  BY <1>1, <1>3, <1>4, <1>5, <1>6, <1>7, <1>8, <1>9
  DEF Next, LockStep, RequestStep, ProducerStep, Environment, memory, DeleteData, DeleteUnmap,
      EvictUnmap, DeleteDataFails, EvictData, EvictClose, ClearRemove, ClearDirectory, ClearDone,
      Invalidate,
      Clear, CloseCache, ProducerWrites, ProducerFails, ProducerCompletes, ProducerMarks,
      ProducerAborts

\* Keyed is kept.
LEMMA KeyedStep ==
    ASSUME StoreInv, Next
    PROVE  Keyed'
  BY MapKeyedStep, ProducersKeyedStep, RequestsKeyedStep
  DEF Keyed, MapKeyed, ProducersKeyed, RequestKeyed

\* Which steps touch the data file of a key: all of them hold objectsLock.
LEMMA InodeSteps ==
    ASSUME StoreInv, Next, NEW k \in Keys
    PROVE  \/ disk'[k].inode = disk[k].inode
           \/ /\ disk'[k].inode = NoId /\ op.key = k /\ op.kind \in {"delete", "evict"}
              /\ op'.key = k /\ op'.kind \in {"unmap", "evict2"}
           \/ disk'[k].inode = NoId /\ op.kind = "clear"
           \/ disk'[k].inode = NoId /\ Restart
           \/ /\ disk'[k].inode \in Ids /\ disk[k].inode = NoId
              /\ \A l \in Keys : disk[l].inode # disk'[k].inode
              /\ \A l \in Keys \ {k} : disk'[l].inode = disk[l].inode
              /\ \E r \in Requests : CreateFile(r) /\ req[r].key = k
<1>0. /\ disk \in [Keys -> DiskType] /\ suspect \subseteq Keys /\ op \in OpType
      /\ op.kind \in {"delete", "unmap", "evict", "evict2", "create"} => op.key \in Keys
  BY DEF StoreInv, Shape, LockHolder
<1>1. CASE DeleteData \/ EvictData
  BY <1>0, <1>1, DataMoves DEF DeleteData, EvictData, OpType
<1>2. CASE DeleteUnmap \/ EvictUnmap \/ \E r \in Requests : CreateDone(r)
  BY <1>0, <1>2, MarkerMoves DEF DeleteUnmap, EvictUnmap, CreateDone
<1>3. CASE \E l \in Keys : ClearRemove(l)
  BY <1>0, <1>3, DataMoves, MarkerMoves DEF ClearRemove
<1>4. ASSUME NEW r \in Requests, CreateFile(r)
      PROVE  \/ disk'[k].inode = disk[k].inode
             \/ /\ disk'[k].inode \in Ids /\ disk[k].inode = NoId
                /\ \A l \in Keys : disk[l].inode # disk'[k].inode
                /\ \A l \in Keys \ {k} : disk'[l].inode = disk[l].inode
                /\ req[r].key = k
  <2>1. req[r].key \in Keys
    BY <1>4 DEF CreateFile, StoreInv, Keyed
  <2>2. PICK l \in Keys, i \in Ids :
             /\ l = req[r].key
             /\ i = disk[l].inode \/ \A m \in Keys : disk[m].inode # i
             /\ disk'[l].inode = i
             /\ \A m \in Keys \ {l} : disk'[m] = disk[m]
    BY <1>4, <2>1, CreateMoves DEF StoreInv
  <2>3. disk[l].inode = NoId \/ disk'[l].inode = disk[l].inode
    BY <1>0, <1>4, <2>2 DEF CreateFile
  <2> QED BY <2>2, <2>3
<1>5. ASSUME NEW o \in Ids, ProducerMarks(o) PROVE disk'[k].inode = disk[k].inode
  <2>1. okey[o] \in Keys
    BY <1>5 DEF ProducerMarks, StoreInv, Keyed
  <2> QED BY <1>0, <1>5, <2>1 DEF ProducerMarks, DiskType
<1>6. CASE Restart
  BY <1>0, <1>6 DEF Restart, DiskType
<1>7. CASE disk' = disk
  BY <1>7
<1> QED
  BY <1>1, <1>2, <1>3, <1>4, <1>5, <1>6, <1>7
  DEF Next, LockStep, RequestStep, ProducerStep, Environment, memory,
      DeleteDataFails, EvictClose, ClearDirectory, ClearDone, GetObject, AfterExists,
      ProducerWrites,
      Invalidate, Clear, CloseCache, CreateExists, CreateFails, StartProducer,
      StartFailed, OpenReader, Read, HangUp, CloseReader, ProducerFails,
      ProducerCompletes, ProducerAborts, Crash

\* No step gives a file a second name.
LEMMA DistinctStep ==
    ASSUME StoreInv, Next
    PROVE  Distinct'
<1> SUFFICES ASSUME NEW k \in Keys, NEW l \in Keys, disk'[k].inode = disk'[l].inode,
                    disk'[k].inode # NoId
             PROVE  k = l
  BY DEF Distinct
<1>1. CASE disk'[k].inode = disk[k].inode /\ disk'[l].inode = disk[l].inode
  BY <1>1 DEF StoreInv, Distinct
<1> QED BY <1>1, InodeSteps

\* Which steps change the map: those of the holder of objectsLock, or with it free.
LEMMA MapSteps ==
    ASSUME StoreInv, Next, NEW k \in Keys
    PROVE  \/ cmap'[k] = cmap[k]
           \/ cmap'[k] = NoId /\ op.key = k /\ op.kind \in {"unmap", "evict2"} /\ op' = Free
           \/ cmap'[k] = NoId /\ CloseAll
           \/ cmap'[k] = NoId /\ Crash
           \/ op.kind = "create" /\ k = op.key /\ cmap'[k] = op.id
              /\ \E r \in Requests : CreateDone(r)
           \/ Restart
<1>0. cmap \in [Keys -> Ids \cup {NoId}]
  BY DEF StoreInv, Shape
<1>1. CASE cmap' = cmap
  BY <1>1
<1> QED
  BY <1>0, <1>1, ZenonT(30)
  DEF Next, LockStep, RequestStep, ProducerStep, Environment, memory, DeleteData,
      DeleteDataFails, DeleteUnmap, EvictData, EvictUnmap, EvictClose, ClearRemove,
      ClearDirectory, ClearDone,
      Invalidate, Clear, CloseCache, CloseAll, GetObject, AfterExists, CreateExists, CreateFile,
      CreateFails, CreateDone, StartProducer, StartFailed, OpenReader, Read, HangUp, CloseReader,
      ProducerWrites, ProducerFails, ProducerCompletes, ProducerMarks, ProducerAborts, Crash

\* A write goes to the file at the key of the mapped object, and adds a chunk to both.
LEMMA WriteMoves ==
    ASSUME StoreInv, NEW o \in Ids, ProducerWrites(o)
    PROVE  \/ UNCHANGED <<objs, ilen>>
           \/ /\ okey[o] \in Keys /\ cmap[okey[o]] = o /\ op.key # okey[o]
              /\ disk[okey[o]].inode \in Ids /\ objs[o].size < Total
              /\ objs' = [objs EXCEPT ![o] = Written(@, 1)]
              /\ ilen[disk[okey[o]].inode] = objs[o].size
              /\ ilen'[disk[okey[o]].inode] = objs[o].size + 1
              /\ \A i \in Ids \ {disk[okey[o]].inode} : ilen'[i] = ilen[i]
<1>1. CASE objs[o].file # NoFile /\ objs[o].file.mode = "rw"
  <2>1. okey[o] \in Keys /\ cmap[okey[o]] = o /\ op.key # okey[o] /\ o # NoId
    BY <1>1, StoreAssumption DEF StoreInv, Writers, NoId
  <2>2. /\ objs[o].file.inode = disk[okey[o]].inode /\ disk[okey[o]].inode \in Ids
        /\ ilen[disk[okey[o]].inode] = objs[o].size
    BY <1>1, <2>1 DEF StoreInv, Owned, Shape, DiskType
  <2>3. /\ objs' = [objs EXCEPT ![o] = Written(@, 1)] /\ objs[o].size < Total
        /\ ilen' = [ilen EXCEPT ![disk[okey[o]].inode] = @ + 1]
    BY <1>1, <2>2 DEF ProducerWrites
  <2>4. ilen \in [Ids -> 0 .. Total]
    BY DEF StoreInv, Shape
  <2> QED BY <2>1, <2>2, <2>3, <2>4
<1>2. CASE ~(objs[o].file # NoFile /\ objs[o].file.mode = "rw")
  BY <1>2 DEF ProducerWrites
<1> QED BY <1>1, <1>2

\* What a step does to the length of the file that a name has.
LEMMA LengthSteps ==
    ASSUME StoreInv, Next, NEW k \in Keys, disk[k].inode \in Ids
    PROVE  \/ ilen'[disk[k].inode] = ilen[disk[k].inode]
           \/ /\ cmap[k] = NoId /\ ilen'[disk[k].inode] = 0
              /\ \E r \in Requests : CreateFile(r) /\ req[r].key = k
           \/ /\ cmap[k] # NoId /\ op.key # k /\ ProducerWrites(cmap[k])
              /\ objs[cmap[k]].size < Total
              /\ ilen[disk[k].inode] = objs[cmap[k]].size
              /\ ilen'[disk[k].inode] = objs[cmap[k]].size + 1
              /\ objs' = [objs EXCEPT ![cmap[k]] = Written(@, 1)]
<1>0. ilen \in [Ids -> 0 .. Total] /\ NoId \notin Ids
  BY StoreAssumption DEF StoreInv, Shape, NoId
<1>1. ASSUME NEW r \in Requests, CreateFile(r)
      PROVE  \/ ilen'[disk[k].inode] = ilen[disk[k].inode]
             \/ cmap[k] = NoId /\ ilen'[disk[k].inode] = 0 /\ req[r].key = k
  <2>1. req[r].key \in Keys
    BY <1>1 DEF CreateFile, StoreInv, Keyed
  <2>2. PICK l \in Keys, i \in Ids :
             /\ l = req[r].key /\ cmap[l] = NoId
             /\ i = disk[l].inode \/ \A m \in Keys : disk[m].inode # i
             /\ ilen' = [ilen EXCEPT ![i] = 0]
    BY <1>1, <2>1, CreateMoves DEF StoreInv
  <2>3. CASE i = disk[k].inode
    <3>1. k = l
      BY <1>0, <2>2, <2>3 DEF StoreInv, Distinct
    <3> QED BY <1>0, <2>2, <2>3, <3>1
  <2>4. CASE i # disk[k].inode
    BY <1>0, <2>2, <2>4
  <2> QED BY <2>3, <2>4
<1>2. ASSUME NEW o \in Ids, ProducerWrites(o)
      PROVE  \/ ilen'[disk[k].inode] = ilen[disk[k].inode]
             \/ /\ cmap[k] # NoId /\ op.key # k /\ ProducerWrites(cmap[k])
                /\ objs[cmap[k]].size < Total
                /\ ilen[disk[k].inode] = objs[cmap[k]].size
                /\ ilen'[disk[k].inode] = objs[cmap[k]].size + 1
                /\ objs' = [objs EXCEPT ![cmap[k]] = Written(@, 1)]
  <2>1. CASE ilen' = ilen
    BY <2>1
  <2>2. CASE ilen' # ilen
    <3>1. /\ okey[o] \in Keys /\ cmap[okey[o]] = o /\ op.key # okey[o]
          /\ disk[okey[o]].inode \in Ids /\ objs[o].size < Total
          /\ objs' = [objs EXCEPT ![o] = Written(@, 1)]
          /\ ilen[disk[okey[o]].inode] = objs[o].size
          /\ ilen'[disk[okey[o]].inode] = objs[o].size + 1
          /\ \A i \in Ids \ {disk[okey[o]].inode} : ilen'[i] = ilen[i]
      BY <1>2, <2>2, WriteMoves
    <3>2. CASE disk[okey[o]].inode = disk[k].inode
      <4>1. okey[o] = k
        BY <1>0, <3>1, <3>2 DEF StoreInv, Distinct
      <4>2. cmap[k] = o /\ o # NoId
        BY <1>0, <3>1, <4>1
      <4> QED BY <1>2, <3>1, <4>1, <4>2
    <3>3. CASE disk[okey[o]].inode # disk[k].inode
      BY <3>1, <3>3
    <3> QED BY <3>2, <3>3
  <2> QED BY <2>1, <2>2
<1>3. CASE ilen' = ilen
  BY <1>3
<1> QED
  BY <1>1, <1>2, <1>3
  DEF Next, LockStep, RequestStep, ProducerStep, Environment, memory, DeleteData,
      DeleteDataFails, DeleteUnmap, EvictData, EvictUnmap, EvictClose, ClearRemove,
      ClearDirectory, ClearDone,
      Invalidate, Clear, CloseCache, GetObject, AfterExists, CreateExists,
      CreateFails, CreateDone, StartProducer, StartFailed, OpenReader, Read, HangUp, CloseReader,
      ProducerFails, ProducerCompletes, ProducerMarks, ProducerAborts, Crash, Restart

\* A request gets an object with objectsLock only, and not while another operation has it.
LEMMA RequestObjects ==
    ASSUME StoreInv, Next, NEW q \in Requests
    PROVE  \/ req'[q].obj \in {req[q].obj, NoId}
           \/ op = Free
           \/ \E r \in Requests : CreateDone(r)
<1>0. req \in [Requests -> RequestType]
  BY DEF StoreInv, Shape
<1>1. ASSUME NEW r \in Requests,
             NEW st \in {"exists", "creating", "got", "startfailed", "open", "waiting", "ended"},
             Goto(r, st)
      PROVE  req'[q].obj = req[q].obj
  BY <1>0, <1>1, GotoMoves
<1>2. ASSUME NEW r \in Requests, req' = [req EXCEPT ![r] = Idle]
      PROVE  req'[q].obj \in {req[q].obj, NoId}
  BY <1>0, <1>2, IdleMoves
<1>3. ASSUME NEW r \in Requests, Read(r) PROVE req'[q].obj = req[q].obj
  BY <1>0, <1>1, <1>3 DEF Read, RequestType
<1>4. CASE Crash
  BY <1>4 DEF Crash, Idle
<1>5. CASE req' = req
  BY <1>5
<1> QED
  BY <1>1, <1>2, <1>3, <1>4, <1>5
  DEF Next, LockStep, RequestStep, ProducerStep, Environment, LockFree, DeleteData,
      DeleteDataFails, DeleteUnmap, EvictData, EvictUnmap, EvictClose, ClearRemove,
      ClearDirectory, ClearDone,
      Invalidate, Clear, CloseCache, GetObject, AfterExists, CreateExists, CreateFile,
      CreateFails, StartProducer, StartFailed, OpenReader, HangUp, CloseReader,
      ProducerWrites, ProducerFails, ProducerCompletes, ProducerMarks, ProducerAborts, Restart

\* How objectsLock changes hands.
LEMMA LockSteps ==
    ASSUME StoreInv, Next
    PROVE  \/ op' = op
           \/ /\ op' = Free
              /\ op.kind \in {"unmap", "evict", "evict2"} => cmap'[op.key] = NoId
           \/ op = Free /\ cmap' = cmap /\ \E k \in Keys :
                /\ cmap[k] # NoId /\ objs' = [objs EXCEPT ![cmap[k]] = Closed(@)]
                /\ op'.kind \in {"delete", "evict"} /\ op'.key = k /\ op'.id = cmap[k]
           \/ op = Free /\ Clear
           \/ op = Free /\ \E r \in Requests : CreateFile(r)
           \/ /\ op.kind \in {"delete", "evict"} /\ op'.kind \in {"unmap", "evict2"}
              /\ op'.key = op.key /\ op'.id = op.id /\ cmap' = cmap
           \/ /\ op.kind = "clear" /\ op'.kind = "mkdir"
              /\ op'.key = op.key /\ op'.id = op.id /\ cmap' = cmap
<1>0. op \in OpType
  BY DEF StoreInv, Shape
<1>1. ASSUME NEW k \in Keys, BeginDelete(k), op' # op
      PROVE  /\ cmap[k] # NoId /\ op'.kind = "delete" /\ op'.key = k /\ op'.id = cmap[k]
             /\ objs' = [objs EXCEPT ![cmap[k]] = Closed(@)]
  BY <1>1 DEF BeginDelete
<1>2. ASSUME NEW r \in Requests, StartFailed(r), op' # op
      PROVE  op = Free /\ cmap' = cmap /\ \E k \in Keys :
                /\ cmap[k] # NoId /\ objs' = [objs EXCEPT ![cmap[k]] = Closed(@)]
                /\ op'.kind = "delete" /\ op'.key = k /\ op'.id = cmap[k]
  <2>1. req[r].key \in Keys
    BY <1>2 DEF StartFailed, StoreInv, Keyed
  <2> QED BY <1>1, <1>2, <2>1 DEF StartFailed, LockFree
<1>3. ASSUME NEW o \in Ids, ProducerAborts(o), op' # op
      PROVE  op = Free /\ cmap' = cmap /\ \E k \in Keys :
                /\ cmap[k] # NoId /\ objs' = [objs EXCEPT ![cmap[k]] = Closed(@)]
                /\ op'.kind = "delete" /\ op'.key = k /\ op'.id = cmap[k]
  <2>1. okey[o] \in Keys
    BY <1>3 DEF ProducerAborts, StoreInv, Keyed
  <2> QED BY <1>1, <1>3, <2>1 DEF ProducerAborts, LockFree
<1>4. ASSUME NEW k \in Keys, Invalidate(k) \/ EvictClose(k)
      PROVE  op = Free /\ cmap' = cmap /\
                /\ cmap[k] # NoId /\ objs' = [objs EXCEPT ![cmap[k]] = Closed(@)]
                /\ op'.kind \in {"delete", "evict"} /\ op'.key = k /\ op'.id = cmap[k]
  BY <1>4 DEF Invalidate, EvictClose, BeginDelete, LockFree
<1>5. CASE DeleteData \/ EvictData
  BY <1>0, <1>5 DEF DeleteData, EvictData, OpType, memory
<1>6. CASE Clear \/ \E r \in Requests : CreateFile(r)
  BY <1>6 DEF Clear, CloseAll, CreateFile, LockFree
<1>9. CASE ClearDirectory
  <2>1. op.kind = "clear" /\ cmap' = cmap
    BY <1>9 DEF ClearDirectory, memory
  <2>2. op' = Free \/ op' = [op EXCEPT !.kind = "mkdir"]
    BY <1>9 DEF ClearDirectory
  <2> QED BY <1>0, <2>1, <2>2 DEF OpType
<1>7. CASE DeleteDataFails \/ DeleteUnmap \/ EvictUnmap \/ ClearDone \/ Crash
           \/ \E r \in Requests : CreateDone(r)
  <2>1. op.kind \in {"unmap", "evict", "evict2"} => op.key \in Keys
    BY DEF StoreInv, LockHolder
  <2>2. cmap \in [Keys -> Ids \cup {NoId}]
    BY DEF StoreInv, Shape
  <2> QED BY <1>0, <1>7, <2>1, <2>2 DEF DeleteDataFails, DeleteUnmap, EvictUnmap, ClearDone,
             Crash, CreateDone
<1>8. CASE op' = op
  BY <1>8
<1> QED
  BY <1>2, <1>3, <1>4, <1>5, <1>6, <1>7, <1>8, <1>9
  DEF Next, LockStep, RequestStep, ProducerStep, Environment, ClearRemove,
      CloseCache, GetObject, AfterExists, CreateExists,
      CreateFails, StartProducer, OpenReader, Read, HangUp, CloseReader, ProducerWrites,
      ProducerFails, ProducerCompletes, ProducerMarks, Restart

\* What the holder of objectsLock relies on is not taken away by anyone else.
LEMMA LockHolderStep ==
    ASSUME StoreInv, Next
    PROVE  LockHolder'
<1>0. /\ op \in OpType /\ op' \in OpType /\ cmap \in [Keys -> Ids \cup {NoId}] /\ NoId \notin Ids
      /\ LockHolder /\ NoKey \notin Keys /\ Shape'
  BY ShapeStep, StoreAssumption DEF StoreInv, Shape, NoId
<1>1. CASE op' = Free
  BY <1>1 DEF LockHolder, Free
<1>2. CASE op = Free /\ cmap' = cmap /\ \E k \in Keys :
             /\ cmap[k] # NoId
             /\ op'.kind \in {"delete", "evict"} /\ op'.key = k /\ op'.id = cmap[k]
  BY <1>0, <1>2 DEF LockHolder
<1>3. CASE Clear
  BY <1>3 DEF Clear, CloseAll, Free, LockHolder
<1>4. CASE /\ op.kind \in {"delete", "evict"} /\ op'.kind \in {"unmap", "evict2"}
           /\ op'.key = op.key /\ op'.id = op.id /\ cmap' = cmap
  BY <1>0, <1>4 DEF LockHolder
<1>7. CASE /\ op.kind = "clear" /\ op'.kind = "mkdir"
           /\ op'.key = op.key /\ op'.id = op.id /\ cmap' = cmap
  BY <1>0, <1>7 DEF LockHolder
<1>5. ASSUME NEW r \in Requests, CreateFile(r) PROVE LockHolder'
  <2>1. req[r].key \in Keys
    BY <1>5 DEF CreateFile, StoreInv, Keyed
  <2>2. PICK k \in Keys, i \in Ids, o \in Ids :
             /\ cmap[k] = NoId /\ disk'[k].inode = i
             /\ ilen' = [ilen EXCEPT ![i] = 0]
             /\ ~InUse(o) /\ op' = [kind |-> "create", key |-> k, id |-> o]
    BY <1>5, <2>1, CreateMoves DEF StoreInv
  <2>3. \A l \in Keys : cmap[l] # o
    BY <1>0, <2>2 DEF InUse, Mapped, StoreInv, Keyed
  <2>4. \A q \in Requests : req'[q].obj = req[q].obj
    BY <1>5, GotoMoves DEF CreateFile, StoreInv, Shape
  <2>5. \A q \in Requests : req[q].obj # o
    BY <2>2 DEF InUse
  <2>6. cmap' = cmap /\ ilen'[i] = 0
    BY <1>5, <2>2 DEF CreateFile, memory, StoreInv, Shape
  <2> QED BY <2>2, <2>3, <2>4, <2>5, <2>6 DEF LockHolder
<1>6. CASE op' = op /\ op # Free
  <2>1. ~CloseAll /\ ~Restart /\ ~Crash /\ ~\E r \in Requests : CreateDone(r) \/ CreateFile(r)
    BY <1>6 DEF CloseAll, LockFree, Restart, Crash, CreateDone, CreateFile, StoreInv, Down
  <2>2. op.key \in Keys => cmap'[op.key] = cmap[op.key]
    BY <1>6, <2>1, MapSteps
  <2>3. op.kind # "free"
    BY <1>0, <1>6 DEF LockHolder
  <2>4. CASE op.kind \in {"clear", "mkdir"}
    <3>1. \A k \in Keys : cmap'[k] = cmap[k]
      BY <1>0, <1>6, <2>1, <2>4, MapSteps
    <3> QED BY <1>0, <1>6, <2>4, <3>1 DEF LockHolder
  <2>5. CASE op.kind = "create"
    <3>1. \A k \in Keys : cmap'[k] = cmap[k]
      BY <1>0, <1>6, <2>1, <2>5, MapSteps
    <3>2. \A r \in Requests : req'[r].obj # op.id
      BY <1>0, <1>6, <2>1, <2>5, RequestObjects DEF LockHolder
    <3>3. op.key \in Keys /\ disk[op.key].inode \in Ids /\ cmap[op.key] = NoId
      BY <1>0, <2>5 DEF LockHolder
    <3>4. disk'[op.key].inode = disk[op.key].inode
      BY <1>0, <2>1, <2>5, <3>3, InodeSteps
    <3>5. ilen'[disk[op.key].inode] = ilen[disk[op.key].inode]
      BY <2>1, <3>3, LengthSteps
    <3> QED BY <1>0, <1>6, <2>5, <3>1, <3>2, <3>3, <3>4, <3>5 DEF LockHolder
  <2>6. CASE op.kind \in {"delete", "unmap", "evict", "evict2"}
    BY <1>0, <1>6, <2>2, <2>6 DEF LockHolder
  <2> QED BY <1>0, <2>3, <2>4, <2>5, <2>6 DEF OpType
<1> QED BY <1>1, <1>2, <1>3, <1>4, <1>5, <1>6, <1>7, LockSteps

-----------------------------------------------------------------------------
(* Objects and their files *)

\* What a step does to the length and the file of an object.
LEMMA FileSteps ==
    ASSUME StoreInv, Next, NEW o \in Ids
    PROVE  \/ objs'[o].size = objs[o].size /\ objs'[o].file \in {objs[o].file, NoFile}
           \/ /\ objs'[o].size = objs[o].size
              /\ okey[o] \in Keys /\ disk[okey[o]].inode # NoId
              /\ objs'[o].file = [inode |-> disk[okey[o]].inode, mode |-> "ro"]
              /\ UNCHANGED <<okey, cmap, disk, op>>
           \/ ProducerWrites(o) /\ objs'[o].file = objs[o].file
           \/ /\ \E r \in Requests : CreateDone(r)
              /\ o = op.id /\ objs'[o].size = 0
              /\ objs'[o].file = [inode |-> disk[op.key].inode, mode |-> "rw"]
           \/ Crash \/ Restart
<1> DEFINE Kept == objs'[o].size = objs[o].size /\ objs'[o].file \in {objs[o].file, NoFile}
<1>0. /\ objs \in [Ids -> ObjectType] /\ cmap \in [Keys -> Ids \cup {NoId}]
      /\ req \in [Requests -> RequestType]
  BY DEF StoreInv, Shape
<1>1. ASSUME NEW k \in Keys, BeginDelete(k) \/ EvictClose(k) PROVE Kept
  BY <1>0, <1>1, ClosedFields DEF BeginDelete, EvictClose
<1>2. CASE CloseAll
  BY <1>0, <1>2, ClosedFields DEF CloseAll
<1>3. ASSUME NEW r \in Requests, CreateDone(r)
      PROVE  \/ Kept
             \/ /\ o = op.id /\ objs'[o].size = 0
                /\ objs'[o].file = [inode |-> disk[op.key].inode, mode |-> "rw"]
  BY <1>0, <1>3 DEF CreateDone, NewObject
<1>4. ASSUME NEW r \in Requests, StartFailed(r) PROVE Kept
  <2>1. req[r].key \in Keys
    BY <1>4 DEF StartFailed, StoreInv, Keyed
  <2> QED BY <1>1, <1>4, <2>1 DEF StartFailed
<1>5. ASSUME NEW r \in Requests, OpenReader(r)
      PROVE  \/ Kept
             \/ /\ objs'[o].size = objs[o].size
                /\ okey[o] \in Keys /\ disk[okey[o]].inode # NoId
                /\ objs'[o].file = [inode |-> disk[okey[o]].inode, mode |-> "ro"]
                /\ UNCHANGED <<okey, cmap, disk, op>>
  <2> DEFINE f == [inode |-> disk[okey[o]].inode, mode |-> "ro"]
  <2>1. req[r].obj \in Ids /\ okey[req[r].obj] \in Keys
    BY <1>5 DEF OpenReader, StoreInv, Keyed
  <2>2. CASE req[r].obj = o /\ (objs[o].file # NoFile \/ disk[okey[o]].inode # NoId)
    <3>1. objs[o].file # NoFile \/ f \in Handles
      BY <2>1, <2>2 DEF StoreInv, Shape, DiskType, Handles
    <3>2. objs' = [objs EXCEPT ![o] = Used(@, f)]
      BY <1>5, <2>2 DEF OpenReader
    <3>3. /\ Used(objs[o], f).size = objs[o].size
          /\ Used(objs[o], f).file = IF objs[o].file = NoFile THEN f ELSE objs[o].file
      <4> HIDE DEF f
      <4> QED BY <1>0, <3>1, UsedFields
    <3>4. objs'[o] = Used(objs[o], f)
      BY <1>0, <3>2
    <3>5. UNCHANGED <<okey, cmap, disk, op>>
      BY <1>5 DEF OpenReader
    <3> QED BY <2>1, <2>2, <3>3, <3>4, <3>5
  <2>3. CASE ~(req[r].obj = o /\ (objs[o].file # NoFile \/ disk[okey[o]].inode # NoId))
    BY <1>0, <1>5, <2>1, <2>3 DEF OpenReader
  <2> QED BY <2>2, <2>3
<1>6. ASSUME NEW r \in Requests, Read(r) PROVE Kept
  BY <1>0, <1>6, WaitingFields DEF Read
<1>7. ASSUME NEW r \in Requests, HangUp(r) PROVE Kept
  <2>1. objs' = [objs EXCEPT ![req[r].obj].waiters = @ \ {r}]
    BY <1>7 DEF HangUp
  <2> QED BY <1>0, <2>1 DEF ObjectType
<1>8. ASSUME NEW r \in Requests, CloseReader(r) PROVE Kept
  <2>1. ASSUME NEW x \in ObjectType
        PROVE  Released(x).size = x.size /\ Released(x).file \in {x.file, NoFile}
    <3>1. CASE x.readerCount > 0
      BY <3>1, ReleasedFields
    <3>2. CASE x.readerCount <= 0
      BY <3>2 DEF Released
    <3> QED BY <3>1, <3>2 DEF ObjectType
  <2> QED BY <1>0, <1>8, <2>1 DEF CloseReader
<1>9. ASSUME NEW p \in Ids, ProducerWrites(p)
      PROVE  Kept \/ (ProducerWrites(o) /\ objs'[o].file = objs[o].file)
  BY <1>0, <1>9, WrittenFields DEF ProducerWrites
<1>10. ASSUME NEW p \in Ids, ProducerCompletes(p) PROVE Kept
  BY <1>0, <1>10, CompletedFields DEF ProducerCompletes
<1>11. ASSUME NEW p \in Ids, ProducerAborts(p) PROVE Kept
  <2>1. okey[p] \in Keys
    BY <1>11 DEF ProducerAborts, StoreInv, Keyed
  <2> QED BY <1>1, <1>11, <2>1 DEF ProducerAborts
<1>12. CASE objs' = objs
  BY <1>12
<1> QED
  BY <1>1, <1>2, <1>3, <1>4, <1>5, <1>6, <1>7, <1>8, <1>9, <1>10, <1>11, <1>12
  DEF Next, LockStep, RequestStep, ProducerStep, Environment, memory, DeleteData,
      DeleteDataFails, DeleteUnmap, EvictData, EvictUnmap, ClearRemove, ClearDirectory,
      ClearDone, Invalidate,
      Clear, CloseCache, GetObject, CreateExists, AfterExists, CreateFile, CreateFails,
      StartProducer, ProducerFails, ProducerMarks

\* Who has the lock taken from it, or the map emptied, is closed.
LEMMA ClosedOnTaking ==
    ASSUME StoreInv, Next, NEW o \in Ids, okey[o] \in Keys, cmap[okey[o]] = o,
           CloseAll \/ (op = Free /\ op'.key = okey[o])
    PROVE  objs'[o].file = NoFile
<1>0. /\ objs \in [Ids -> ObjectType] /\ NoKey \notin Keys /\ NoId \notin Ids
      /\ objs[o] \in ObjectType
  BY StoreAssumption DEF StoreInv, Shape, NoId
<1>1. CASE CloseAll
  BY <1>0, <1>1, ClosedFields DEF CloseAll, Mapped
<1>2. CASE op = Free /\ op'.key = okey[o] /\ ~CloseAll
  <2>1. ASSUME NEW r \in Requests, CreateFile(r) PROVE FALSE
    <3>1. op'.key = req[r].key /\ cmap[req[r].key] = NoId
      BY <2>1 DEF CreateFile
    <3> QED BY <1>0, <1>2, <3>1
  <2>2. op'.key # NoKey /\ op.key = NoKey /\ op # op' /\ op.kind = "free"
    BY <1>0, <1>2 DEF Free
  <2>3. ~Clear
    BY <1>2 DEF Clear
  <2>4. objs' = [objs EXCEPT ![o] = Closed(@)]
    BY <1>0, <1>2, <2>1, <2>2, <2>3, LockSteps DEF Free
  <2> QED BY <1>0, <2>4, ClosedFields
<1> QED BY <1>1, <1>2

\* An object stays open for writing only while it is mapped and its key is left alone.
LEMMA WritersStep ==
    ASSUME StoreInv, Next
    PROVE  Writers'
<1> SUFFICES ASSUME NEW o \in Ids, objs'[o].file # NoFile, objs'[o].file.mode = "rw"
             PROVE  okey'[o] \in Keys /\ cmap'[okey'[o]] = o /\ op'.key # okey'[o]
  BY DEF Writers
<1>0. /\ okey \in [Ids -> Keys \cup {NoKey}] /\ cmap \in [Keys -> Ids \cup {NoId}]
      /\ NoKey \notin Keys /\ NoId \notin Ids /\ LockHolder
  BY StoreAssumption DEF StoreInv, Shape, NoId
<1>1. ~Crash /\ ~Restart
  BY DEF Crash, Restart, Blank, NewObject, LoadedObject
<1>2. ASSUME NEW r \in Requests, CreateDone(r), o = op.id
      PROVE  okey'[o] \in Keys /\ cmap'[okey'[o]] = o /\ op'.key # okey'[o]
  BY <1>0, <1>2 DEF CreateDone, LockHolder, Free
<1>3. CASE /\ objs'[o].file = objs[o].file
           /\ ~\E r \in Requests : CreateDone(r) /\ o = op.id
  <2>1. okey[o] \in Keys /\ cmap[okey[o]] = o /\ op.key # okey[o]
    BY <1>3 DEF StoreInv, Writers
  <2>2. ~CloseAll /\ ~(op = Free /\ op'.key = okey[o])
    BY <2>1, ClosedOnTaking
  <2>3. cmap'[okey[o]] = cmap[okey[o]]
    BY <1>0, <1>1, <2>1, <2>2, MapSteps DEF LockHolder
  <2>4. okey'[o] = okey[o]
    BY <1>0, <1>1, <1>3
    DEF Next, LockStep, RequestStep, ProducerStep, Environment, memory, DeleteData,
        DeleteDataFails, DeleteUnmap, EvictData, EvictUnmap, EvictClose, ClearRemove,
        ClearDirectory, ClearDone,
        Invalidate, Clear, CloseCache, GetObject, AfterExists, CreateExists, CreateFile,
        CreateFails, CreateDone, StartProducer, StartFailed, OpenReader, Read, HangUp,
        CloseReader, ProducerWrites, ProducerFails, ProducerCompletes, ProducerMarks,
        ProducerAborts
  <2>5. op'.key # okey[o]
    <3>1. op' = op \/ op'.key = op.key \/ op' = Free \/ op = Free
      BY LockSteps
    <3> QED BY <1>0, <2>1, <2>2, <3>1 DEF Free
  <2> QED BY <2>1, <2>3, <2>4, <2>5
<1>4. CASE objs'[o].file = [inode |-> disk[okey[o]].inode, mode |-> "ro"]
  BY <1>4
<1> QED BY <1>1, <1>2, <1>3, <1>4, FileSteps

\* What a key maps to keeps owning the file at its path.
LEMMA OwnedStep ==
    ASSUME StoreInv, Next
    PROVE  Owned'
<1> SUFFICES ASSUME NEW k \in Keys, cmap'[k] # NoId
             PROVE  /\ disk'[k].inode # NoId => ilen'[disk'[k].inode] = objs'[cmap'[k]].size
                    /\ op'.key # k \/ op'.kind = "delete" =>
                          /\ disk'[k].inode # NoId
                          /\ objs'[cmap'[k]].file # NoFile =>
                                objs'[cmap'[k]].file.inode = disk'[k].inode
  BY DEF Owned
<1>0. /\ okey \in [Ids -> Keys \cup {NoKey}] /\ cmap \in [Keys -> Ids \cup {NoId}]
      /\ NoKey \notin Keys /\ NoId \notin Ids /\ LockHolder /\ disk \in [Keys -> DiskType]
      /\ op \in OpType /\ objs \in [Ids -> ObjectType] /\ ilen \in [Ids -> 0 .. Total]
  BY StoreAssumption DEF StoreInv, Shape, NoId
<1>1. CASE Restart
  <2>1. Loadable(k) /\ cmap'[k] = disk[k].inode /\ disk'[k] = disk[k] /\ ilen' = ilen
    BY <1>1 DEF Restart
  <2>2. disk[k].inode \in Ids
    BY <1>0, <2>1 DEF Loadable, DiskType
  <2>3. objs'[disk[k].inode] = LoadedObject(ilen[disk[k].inode])
    BY <1>1, <2>1, <2>2 DEF Restart
  <2>4. objs'[cmap'[k]].size = ilen[disk[k].inode] /\ objs'[cmap'[k]].file = NoFile
    BY <2>1, <2>3 DEF LoadedObject
  <2> QED BY <1>0, <2>1, <2>2, <2>4
<1>2. ASSUME NEW r \in Requests, CreateDone(r), k = op.key,
             op.kind = "create", cmap'[k] = op.id
      PROVE  /\ ilen'[disk'[k].inode] = objs'[cmap'[k]].size
             /\ disk'[k].inode # NoId
             /\ objs'[cmap'[k]].file.inode = disk'[k].inode
  <2>1. op.id \in Ids /\ disk[k].inode \in Ids /\ ilen[disk[k].inode] = 0
    BY <1>0, <1>2 DEF LockHolder
  <2>2. disk'[k].inode = disk[k].inode
    BY <1>0, <1>2, MarkerMoves DEF CreateDone, StoreInv, Shape
  <2>3. ilen' = ilen /\ objs'[op.id] = NewObject([inode |-> disk[k].inode, mode |-> "rw"])
    BY <1>0, <1>2, <2>1 DEF CreateDone
  <2> QED BY <1>0, <1>2, <2>1, <2>2, <2>3 DEF NewObject
<1>3. CASE cmap'[k] = cmap[k] /\ ~Restart /\ ~Crash
           /\ ~\E r \in Requests : CreateDone(r) /\ op.id = cmap[k]
  <2> DEFINE o == cmap[k]
             i == disk[k].inode
  <2>1. o \in Ids /\ okey[o] = k
    BY <1>0, <1>3 DEF StoreInv, Keyed
  <2>2. \/ disk'[k].inode = i
        \/ /\ disk'[k].inode = NoId /\ op'.key = k /\ op'.kind \in {"unmap", "evict2"}
    <3>1. ASSUME NEW r \in Requests, CreateFile(r), req[r].key = k PROVE FALSE
      BY <1>3, <3>1 DEF CreateFile
    <3>2. op.kind # "clear"
      BY <1>0, <1>3 DEF LockHolder
    <3> QED BY <1>3, <3>1, <3>2, InodeSteps
  <2>3. CASE disk'[k].inode = NoId /\ op'.key = k /\ op'.kind \in {"unmap", "evict2"}
    BY <2>3
  <2>4. ASSUME disk'[k].inode = i, i # NoId PROVE ilen'[i] = objs'[o].size
    <3>0. i \in Ids /\ ilen[i] = objs[o].size
      BY <1>0, <1>3, <2>4 DEF StoreInv, Owned, DiskType
    <3>1. CASE ProducerWrites(o)
      <4>1. CASE UNCHANGED <<objs, ilen>>
        BY <3>0, <4>1
      <4>2. CASE /\ objs' = [objs EXCEPT ![o] = Written(@, 1)] /\ objs[o].size < Total
                 /\ ilen'[disk[okey[o]].inode] = objs[o].size + 1
        <5>1. objs'[o].size = objs[o].size + 1
          BY <1>0, <2>1, <4>2, WrittenFields
        <5> QED BY <2>1, <4>2, <5>1
      <4> QED BY <2>1, <3>1, <4>1, <4>2, WriteMoves
    <3>2. CASE ~ProducerWrites(o)
      <4>1. ilen'[i] = ilen[i]
        BY <1>3, <3>0, <3>2, LengthSteps
      <4>2. objs'[o].size = objs[o].size
        BY <1>3, <2>1, <3>2, FileSteps
      <4> QED BY <3>0, <4>1, <4>2
    <3> QED BY <3>1, <3>2
  <2>5. ASSUME disk'[k].inode = i, op'.key # k \/ op'.kind = "delete"
        PROVE  i # NoId /\ (objs'[o].file # NoFile => objs'[o].file.inode = i)
    <3>1. op.key # k \/ op.kind = "delete"
      <4>1. CASE op' = op
        BY <2>5, <4>1
      <4>2. CASE op' = Free /\ op.key = k /\ op.kind \in {"unmap", "evict", "evict2"}
        BY <1>3, <4>2, LockSteps DEF Free
      <4>3. CASE op = Free
        BY <1>0, <4>3 DEF Free
      <4>4. CASE op'.key = op.key /\ op'.kind \in {"unmap", "evict2"}
        BY <2>5, <4>4
      <4>5. CASE op.key = k /\ op.kind \notin {"unmap", "evict", "evict2"}
        BY <1>0, <1>3, <4>5 DEF LockHolder, OpType, Free
      <4> QED BY <4>1, <4>2, <4>3, <4>4, <4>5, LockSteps
    <3>2. i # NoId /\ (objs[o].file # NoFile => objs[o].file.inode = i)
      BY <1>3, <3>1 DEF StoreInv, Owned
    <3>3. \/ objs'[o].file \in {objs[o].file, NoFile}
          \/ objs'[o].file = [inode |-> disk[okey[o]].inode, mode |-> "ro"]
      BY <1>3, <2>1, FileSteps
    <3> QED BY <2>1, <3>2, <3>3
  <2> QED BY <1>3, <2>2, <2>3, <2>4, <2>5
<1>4. ~Crash
  BY DEF Crash
<1>5. ASSUME NEW r \in Requests, CreateDone(r), op.id = cmap[k] PROVE FALSE
  BY <1>0, <1>5 DEF CreateDone, LockHolder
<1> QED BY <1>1, <1>2, <1>3, <1>4, <1>5, MapSteps

\* A producer that completes has written everything, and writes no more.
LEMMA MarkingStep ==
    ASSUME StoreInv, Next
    PROVE  Marking'
<1>0. /\ prod \in [Ids -> {"none", "running", "failed", "marking", "done"}]
      /\ objs \in [Ids -> ObjectType]
  BY DEF StoreInv, Shape
<1> SUFFICES ASSUME NEW o \in Ids, prod'[o] = "marking"
             PROVE  objs'[o].size = Total
  BY DEF Marking
<1>1. CASE ProducerCompletes(o)
  BY <1>0, <1>1, CompletedFields DEF ProducerCompletes
<1>2. CASE ~ProducerCompletes(o)
  <2>1. prod[o] = "marking"
    BY <1>0, <1>2
    DEF Next, LockStep, RequestStep, ProducerStep, Environment, DeleteData,
        DeleteDataFails, DeleteUnmap, EvictData, EvictUnmap, EvictClose, ClearRemove,
        ClearDirectory, ClearDone,
        Invalidate, Clear, CloseCache, GetObject, AfterExists, CreateExists, CreateFile,
        CreateFails, CreateDone, StartProducer, StartFailed, OpenReader, Read, HangUp,
        CloseReader, ProducerWrites, ProducerFails, ProducerCompletes, ProducerMarks,
        ProducerAborts, Crash, Restart
  <2>2. ~ProducerWrites(o) /\ ~Crash /\ ~\E r \in Requests : CreateDone(r) /\ o = op.id
    BY <1>0, <2>1 DEF ProducerWrites, Crash, CreateDone
  <2>3. ~Restart
    BY <2>1 DEF Restart, StoreInv, Down
  <2>4. objs'[o].size = objs[o].size
    BY <2>2, <2>3, FileSteps
  <2> QED BY <2>1, <2>4 DEF StoreInv, Marking
<1> QED BY <1>1, <1>2

-----------------------------------------------------------------------------
(* Markers *)

\* Who makes a marker, and who leaves one that is not to be trusted.
LEMMA MarkerSteps ==
    ASSUME StoreInv, Next, NEW k \in Keys, disk'[k].marker, k \notin suspect'
    PROVE  \/ \E o \in Ids : ProducerMarks(o) /\ okey[o] = k /\ cmap[k] = o
           \/ /\ disk[k].marker /\ k \notin suspect
              /\ ~\E r \in Requests : CreateFile(r) /\ req[r].key = k
<1>0. /\ disk \in [Keys -> DiskType] /\ suspect \subseteq Keys
      /\ op.kind \in {"delete", "unmap", "evict", "evict2", "create"} => op.key \in Keys
  BY DEF StoreInv, Shape, LockHolder
<1> DEFINE Left == disk[k].marker /\ k \notin suspect
<1>1. ASSUME op.kind # "free" PROVE ~\E r \in Requests : CreateFile(r) /\ req[r].key = k
  <2>1. ASSUME NEW r \in Requests, CreateFile(r) PROVE op = Free
    BY <2>1 DEF CreateFile, LockFree
  <2> QED BY <1>1, <2>1 DEF Free
<1>2. CASE DeleteData \/ EvictData
  <2>1. op.kind # "free"
    BY <1>2 DEF DeleteData, EvictData
  <2>2. Left
    BY <1>0, <1>2, DataMoves DEF DeleteData, EvictData
  <2> QED BY <1>1, <2>1, <2>2
<1>3. CASE DeleteUnmap \/ EvictUnmap \/ \E r \in Requests : CreateDone(r)
  <2>1. op.kind # "free"
    BY <1>3 DEF DeleteUnmap, EvictUnmap, CreateDone
  <2>2. \/ disk' = disk /\ suspect' = suspect
        \/ TryRemoveMarker(op.key) /\ op.key \in Keys
    BY <1>0, <1>3 DEF DeleteUnmap, EvictUnmap, CreateDone
  <2>3. Left
    BY <1>0, <2>2, MarkerMoves
  <2> QED BY <1>1, <2>1, <2>3
<1>4. ASSUME NEW l \in Keys, ClearRemove(l)
      PROVE  Left /\ ~\E r \in Requests : CreateFile(r) /\ req[r].key = k
  <2>1. op.kind # "free"
    BY <1>4 DEF ClearRemove
  <2>2. Left
    BY <1>0, <1>4, DataMoves, MarkerMoves DEF ClearRemove
  <2> QED BY <1>1, <2>1, <2>2
<1>5. ASSUME NEW r \in Requests, CreateFile(r)
      PROVE  Left /\ ~\E q \in Requests : CreateFile(q) /\ req[q].key = k
  <2>1. ASSUME NEW q \in Requests, CreateFile(q)
        PROVE  disk[k].marker /\ k \notin suspect /\ req[q].key # k
    <3>1. req[q].key \in Keys
      BY <2>1 DEF CreateFile, StoreInv, Keyed
    <3>2. PICK l \in Keys :
               /\ l = req[q].key
               /\ disk'[l].marker = disk[l].marker
               /\ \A m \in Keys \ {l} : disk'[m] = disk[m]
               /\ suspect' = IF disk[l].marker THEN suspect \cup {l} ELSE suspect
      BY <2>1, <3>1, CreateMoves DEF StoreInv
    <3> QED BY <3>2
  <2> QED BY <1>5, <2>1
<1>6. ASSUME NEW o \in Ids, ProducerMarks(o)
      PROVE  \/ okey[o] = k /\ cmap[k] = o
             \/ Left /\ ~\E r \in Requests : CreateFile(r) /\ req[r].key = k
  <2>1. okey[o] \in Keys
    BY <1>6 DEF ProducerMarks, StoreInv, Keyed
  <2>2. ~\E r \in Requests : CreateFile(r)
    <3>1. prod' # prod
      BY <1>6 DEF ProducerMarks, StoreInv, Shape
    <3> QED BY <3>1 DEF CreateFile
  <2>3. CASE disk' = disk /\ suspect' = suspect
    BY <2>2, <2>3
  <2>4. CASE /\ disk' = [disk EXCEPT ![okey[o]].marker = TRUE]
             /\ suspect' = IF cmap[okey[o]] = o THEN suspect ELSE suspect \cup {okey[o]}
    <3>1. CASE okey[o] # k
      BY <1>0, <2>1, <2>2, <2>4, <3>1 DEF DiskType
    <3>2. CASE okey[o] = k
      BY <2>4, <3>2
    <3> QED BY <3>1, <3>2
  <2> QED BY <1>6, <2>3, <2>4 DEF ProducerMarks
<1>7. CASE Restart
  <2>1. Left
    BY <1>0, <1>7 DEF Restart, DiskType
  <2> QED BY <1>7, <2>1 DEF Restart, CreateFile, LockFree
<1>8. CASE disk' = disk /\ suspect' = suspect
  <2>1. ASSUME NEW r \in Requests, CreateFile(r), req[r].key = k PROVE FALSE
    BY <1>8, <2>1 DEF CreateFile
  <2> QED BY <1>8, <2>1
<1> QED
  BY <1>2, <1>3, <1>4, <1>5, <1>6, <1>7, <1>8
  DEF Next, LockStep, RequestStep, ProducerStep, Environment,
      DeleteDataFails, EvictClose, ClearDirectory, ClearDone, GetObject, AfterExists,
      ProducerWrites,
      Invalidate, Clear, CloseCache, CreateExists, CreateFails, StartProducer,
      StartFailed, OpenReader, Read, HangUp, CloseReader, ProducerFails,
      ProducerCompletes, ProducerAborts, Crash

\* A marker that is to be trusted stays next to a whole file.
LEMMA MarkerStep ==
    ASSUME StoreInv, Next
    PROVE  MarkerVouches'
<1> SUFFICES ASSUME NEW k \in Keys, disk'[k].inode # NoId, disk'[k].marker, k \notin suspect'
             PROVE  ilen'[disk'[k].inode] = Total
  BY DEF MarkerVouches
<1>0. /\ disk \in [Keys -> DiskType] /\ NoId \notin Ids /\ cmap \in [Keys -> Ids \cup {NoId}]
      /\ ilen \in [Ids -> 0 .. Total]
  BY StoreAssumption DEF StoreInv, Shape, NoId
<1>1. ASSUME NEW o \in Ids, ProducerMarks(o), okey[o] = k, cmap[k] = o
      PROVE  ilen'[disk'[k].inode] = Total
  <2>1. cmap[k] = o
    BY <1>1
  <2>2. disk'[k].inode = disk[k].inode /\ ilen' = ilen
    BY <1>0, <1>1 DEF ProducerMarks, DiskType
  <2>3. objs[o].size = Total
    BY <1>1 DEF ProducerMarks, StoreInv, Marking
  <2>4. ilen[disk[k].inode] = objs[o].size
    BY <1>0, <2>1, <2>2 DEF StoreInv, Owned
  <2> QED BY <2>2, <2>3, <2>4
<1>2. CASE /\ disk[k].marker /\ k \notin suspect
           /\ ~\E r \in Requests : CreateFile(r) /\ req[r].key = k
  <2>1. disk'[k].inode = disk[k].inode
    BY <1>2, InodeSteps
  <2>2. ilen[disk[k].inode] = Total /\ disk[k].inode \in Ids
    BY <1>0, <1>2, <2>1 DEF StoreInv, MarkerVouches, DiskType
  <2>3. ilen'[disk[k].inode] = ilen[disk[k].inode]
    <3>1. ~(objs[cmap[k]].size < Total /\ ilen[disk[k].inode] = objs[cmap[k]].size)
      BY <2>2, StoreAssumption
    <3> QED BY <1>2, <2>2, <3>1, LengthSteps
  <2> QED BY <2>1, <2>2, <2>3
<1> QED BY <1>1, <1>2, MarkerSteps

-----------------------------------------------------------------------------
(* Readers and waiters *)

\* A waiter was one before and the object has nothing new for it, or it has just found none.
LEMMA WaiterSteps ==
    ASSUME StoreInv, Next, NEW o \in Ids, NEW q \in objs'[o].waiters
    PROVE  \/ /\ q \in objs[o].waiters /\ objs'[o].size = objs[o].size
              /\ objs'[o].complete = objs[o].complete /\ objs'[o].file = objs[o].file
              /\ ~HangUp(q)
           \/ /\ Read(q) /\ req[q].obj = o
              /\ WaitForData(objs[o], req[q].off) = "wait"
              /\ objs'[o].size = objs[o].size
              /\ objs'[o].complete = objs[o].complete /\ objs'[o].file = objs[o].file
              /\ Goto(q, "waiting")
<1> DEFINE Kept == /\ q \in objs[o].waiters /\ objs'[o].size = objs[o].size
                   /\ objs'[o].complete = objs[o].complete /\ objs'[o].file = objs[o].file
<1>0. /\ objs \in [Ids -> ObjectType] /\ cmap \in [Keys -> Ids \cup {NoId}]
      /\ req \in [Requests -> RequestType] /\ objs[o].waiters \subseteq Requests
      /\ objs' \in [Ids -> ObjectType] /\ q \in Requests /\ objs[o] \in ObjectType
      /\ NoId \notin Ids
  BY ObjectsTyped, StoreAssumption DEF StoreInv, Shape, ObjectType, NoId
<1>1. ASSUME objs'[o] = Closed(objs[o]) PROVE FALSE
  BY <1>0, <1>1, ClosedFields DEF StoreInv, Blocked
<1>2. ASSUME objs'[o] = objs[o] PROVE Kept
  BY <1>2
<1>3. ASSUME NEW k \in Keys, BeginDelete(k) \/ EvictClose(k) PROVE Kept
  BY <1>0, <1>1, <1>2, <1>3 DEF BeginDelete, EvictClose
<1>4. ASSUME CloseAll PROVE Kept
  BY <1>0, <1>1, <1>2, <1>4 DEF CloseAll
<1>5. ASSUME NEW r \in Requests, CreateDone(r) PROVE Kept
  BY <1>0, <1>2, <1>5 DEF CreateDone, NewObject
<1>6. ASSUME NEW r \in Requests, StartFailed(r) PROVE Kept
  <2>1. req[r].key \in Keys
    BY <1>6 DEF StartFailed, StoreInv, Keyed
  <2> QED BY <1>3, <1>6, <2>1 DEF StartFailed
<1>7. ASSUME NEW r \in Requests, OpenReader(r) PROVE Kept
  <2> DEFINE f == [inode |-> disk[okey[o]].inode, mode |-> "ro"]
  <2>1. req[r].obj \in Ids /\ okey[req[r].obj] \in Keys
    BY <1>7 DEF OpenReader, StoreInv, Keyed
  <2>2. CASE req[r].obj = o /\ (objs[o].file # NoFile \/ disk[okey[o]].inode # NoId)
    <3>1. objs[o].file # NoFile \/ f \in Handles
      BY <2>1, <2>2 DEF StoreInv, Shape, DiskType, Handles
    <3>2. objs' = [objs EXCEPT ![o] = Used(@, f)]
      BY <1>7, <2>2 DEF OpenReader
    <3>3. objs'[o] = Used(objs[o], f)
      BY <1>0, <3>2
    <3>4. /\ objs'[o].size = objs[o].size /\ objs'[o].complete = objs[o].complete
          /\ objs'[o].waiters = objs[o].waiters
          /\ objs'[o].file = IF objs[o].file = NoFile THEN f ELSE objs[o].file
      <4> HIDE DEF f
      <4> QED BY <1>0, <3>1, <3>3, UsedFields
    <3>5. objs[o].file # NoFile
      BY <3>4 DEF StoreInv, Blocked
    <3> QED BY <3>4, <3>5
  <2>3. CASE ~(req[r].obj = o /\ (objs[o].file # NoFile \/ disk[okey[o]].inode # NoId))
    BY <1>0, <1>2, <1>7, <2>1, <2>3 DEF OpenReader
  <2> QED BY <2>2, <2>3
<1>8. ASSUME NEW r \in Requests, Read(r)
      PROVE  \/ Kept
             \/ /\ q = r /\ req[q].obj = o /\ WaitForData(objs[o], req[q].off) = "wait"
                /\ objs'[o].size = objs[o].size
                /\ objs'[o].complete = objs[o].complete /\ objs'[o].file = objs[o].file
                /\ Goto(q, "waiting")
  <2>1. CASE objs' = objs
    BY <1>2, <2>1
  <2>2. CASE /\ WaitForData(objs[req[r].obj], req[r].off) = "wait" /\ Goto(r, "waiting")
             /\ objs' = [objs EXCEPT ![req[r].obj] = Waiting(@, r)]
    <3>1. CASE req[r].obj = o
      <4>1. objs'[o] = Waiting(objs[o], r)
        BY <1>0, <2>2, <3>1
      <4> QED BY <1>0, <2>2, <3>1, <4>1, WaitingFields
    <3>2. CASE req[r].obj # o
      BY <1>0, <1>2, <2>2, <3>2
    <3> QED BY <3>1, <3>2
  <2> QED BY <1>8, <2>1, <2>2 DEF Read
<1>9. ASSUME NEW r \in Requests, HangUp(r) PROVE Kept
  <2>1. objs' = [objs EXCEPT ![req[r].obj].waiters = @ \ {r}]
    BY <1>9 DEF HangUp
  <2> QED BY <1>0, <2>1 DEF ObjectType
<1>10. ASSUME NEW r \in Requests, CloseReader(r) PROVE Kept
  <2>1. CASE objs[o].readerCount > 0 /\ req[r].obj = o
    <3>1. objs'[o] = Released(objs[o])
      BY <1>0, <1>10, <2>1 DEF CloseReader
    <3>2. /\ objs'[o].size = objs[o].size /\ objs'[o].waiters = objs[o].waiters
          /\ objs'[o].complete = objs[o].complete
          /\ \/ objs'[o].file = objs[o].file
             \/ objs[o].complete
      BY <1>0, <2>1, <3>1, ReleasedFields
    <3> QED BY <3>2 DEF StoreInv, Blocked
  <2>2. CASE objs[o].readerCount <= 0 /\ req[r].obj = o
    BY <1>0, <1>2, <1>10, <2>2 DEF CloseReader, Released
  <2>3. CASE req[r].obj # o
    BY <1>0, <1>2, <1>10, <2>3 DEF CloseReader
  <2> QED BY <1>0, <2>1, <2>2, <2>3 DEF ObjectType
<1>11. ASSUME NEW p \in Ids, ProducerWrites(p) \/ ProducerCompletes(p) PROVE Kept
  <2>1. CASE objs'[o] = objs[o]
    BY <1>2, <2>1
  <2>2. CASE objs'[o] = Written(objs[o], 1) /\ objs[o].size < Total
    BY <1>0, <2>2, WrittenFields
  <2>3. CASE objs'[o] = Completed(objs[o])
    BY <1>0, <2>3, CompletedFields
  <2> QED BY <1>0, <1>11, <2>1, <2>2, <2>3 DEF ProducerWrites, ProducerCompletes
<1>12. ASSUME NEW p \in Ids, ProducerAborts(p) PROVE Kept
  <2>1. okey[p] \in Keys
    BY <1>12 DEF ProducerAborts, StoreInv, Keyed
  <2> QED BY <1>3, <1>12, <2>1 DEF ProducerAborts
<1>13. ASSUME Crash \/ Restart PROVE Kept
  BY <1>13 DEF Crash, Restart, Blank, NewObject, LoadedObject
<1>14. ASSUME HangUp(q) PROVE FALSE
  <2>1. q \in objs[o].waiters
    BY <1>9, <1>14, <1>0
  <2>2. req[q].obj = o
    BY <2>1 DEF StoreInv, Blocked
  <2>3. objs'[o].waiters = objs[o].waiters \ {q}
    BY <1>0, <1>14, <2>2 DEF HangUp, ObjectType
  <2> QED BY <2>3
<1>15. ASSUME objs' = objs PROVE Kept
  BY <1>2, <1>15
<1> QED
  BY <1>3, <1>4, <1>5, <1>6, <1>7, <1>8, <1>9, <1>10, <1>11, <1>12, <1>13, <1>14, <1>15
  DEF Next, LockStep, RequestStep, ProducerStep, Environment, memory, DeleteData,
      DeleteDataFails, DeleteUnmap, EvictData, EvictUnmap, ClearRemove, ClearDirectory,
      ClearDone, Invalidate,
      Clear, CloseCache, GetObject, CreateExists, AfterExists, CreateFile, CreateFails,
      StartProducer, ProducerFails, ProducerMarks

\* A waiting request is left alone until it reads on or hangs up.
LEMMA WaitingStays ==
    ASSUME StoreInv, Next, NEW q \in Requests, req[q].pc = "waiting", ~Read(q), ~HangUp(q), ~Crash
    PROVE  req'[q] = req[q]
<1>0. req \in [Requests -> RequestType]
  BY DEF StoreInv, Shape
<1>1. ASSUME NEW r \in Requests, RequestStep(r) \/ HangUp(r) \/ \E k \in Keys : GetObject(r, k)
      PROVE  r # q
  BY <1>1 DEF RequestStep, GetObject, CreateExists, AfterExists, CreateFile, CreateFails,
     CreateDone, StartProducer, StartFailed, OpenReader, CloseReader
<1>2. CASE req' = req
  BY <1>2
<1> QED
  BY <1>0, <1>1, <1>2, OtherRequests
  DEF Next, LockStep, ProducerStep, Environment, DeleteData, DeleteDataFails, DeleteUnmap,
      EvictData, EvictUnmap, EvictClose, ClearRemove, ClearDirectory, ClearDone, Invalidate,
      Clear, CloseCache,
      ProducerWrites, ProducerFails, ProducerCompletes, ProducerMarks, ProducerAborts, Restart

\* No waiter has anything to do.
LEMMA BlockedStep ==
    ASSUME StoreInv, Next
    PROVE  Blocked'
<1> SUFFICES ASSUME NEW o \in Ids, NEW q \in objs'[o].waiters
             PROVE  /\ req'[q].obj = o /\ req'[q].pc = "waiting"
                    /\ objs'[o].size <= req'[q].off /\ ~objs'[o].complete
                    /\ objs'[o].file # NoFile
  BY DEF Blocked
<1>0. /\ objs \in [Ids -> ObjectType] /\ req \in [Requests -> RequestType] /\ q \in Requests
      /\ objs' \in [Ids -> ObjectType]
  BY ObjectsTyped DEF StoreInv, Shape, ObjectType
<1>1. CASE /\ q \in objs[o].waiters /\ objs'[o].size = objs[o].size
           /\ objs'[o].complete = objs[o].complete /\ objs'[o].file = objs[o].file
           /\ ~HangUp(q)
  <2>1. /\ req[q].obj = o /\ req[q].pc = "waiting"
        /\ objs[o].size <= req[q].off /\ ~objs[o].complete /\ objs[o].file # NoFile
    BY <1>1 DEF StoreInv, Blocked
  <2>2. ~Read(q)
    BY <1>1, <2>1 DEF Read
  <2>3. ~Crash
    BY DEF Crash, Blank, NewObject
  <2>4. req'[q] = req[q]
    BY <1>0, <1>1, <2>1, <2>2, <2>3, WaitingStays
  <2> QED BY <1>1, <2>1, <2>4
<1>2. CASE /\ Read(q) /\ req[q].obj = o
           /\ WaitForData(objs[o], req[q].off) = "wait"
           /\ objs'[o].size = objs[o].size
           /\ objs'[o].complete = objs[o].complete /\ objs'[o].file = objs[o].file
           /\ Goto(q, "waiting")
  <2>1. objs[o].size - req[q].off <= 0 /\ ~objs[o].complete /\ objs[o].file # NoFile
    BY <1>2 DEF WaitForData
  <2>2. objs[o].size \in Int /\ req[q].off \in Int
    BY <1>0 DEF ObjectType, RequestType
  <2>3. req'[q].pc = "waiting" /\ req'[q].obj = req[q].obj /\ req'[q].off = req[q].off
    BY <1>0, <1>2, GotoMoves
  <2>4. objs[o].size <= req[q].off
    BY <2>1, <2>2
  <2> QED BY <1>2, <2>1, <2>3, <2>4
<1> QED BY <1>1, <1>2, WaiterSteps

\* A step of a request other than OpenReader, CloseReader and the crash leaves it a reader of
\* the same object, or of none.
LEMMA ReaderSteps ==
    ASSUME StoreInv, Next, NEW q \in Requests, NEW o \in Ids, ~OpenReader(q), ~CloseReader(q),
           ~Crash
    PROVE  q \in ReadersOf(o)' <=> q \in ReadersOf(o)
<1>0. req \in [Requests -> RequestType]
  BY DEF StoreInv, Shape
<1> DEFINE Reading == {"open", "waiting", "ended"}
<1>1. CASE req'[q] = req[q]
  BY <1>1 DEF ReadersOf
<1>2. ASSUME NEW st \in {"exists", "creating", "got", "startfailed", "open", "waiting", "ended"},
             Goto(q, st), st \in Reading <=> req[q].pc \in Reading
      PROVE  q \in ReadersOf(o)' <=> q \in ReadersOf(o)
  BY <1>0, <1>2, GotoMoves DEF ReadersOf
<1>3. ASSUME req' = [req EXCEPT ![q] = Idle], req[q].pc \notin Reading
      PROVE  q \in ReadersOf(o)' <=> q \in ReadersOf(o)
  BY <1>0, <1>3, IdleMoves DEF ReadersOf
<1>4. CASE Read(q)
  <2>1. CASE \E st \in {"waiting", "ended"} : Goto(q, st)
    BY <1>2, <1>4, <2>1 DEF Read
  <2>2. CASE WaitForData(objs[req[q].obj], req[q].off) = "data"
    <3>1. /\ req'[q].pc = "open" /\ req'[q].obj = req[q].obj
          /\ req[q].pc \in {"open", "waiting"}
      BY <1>0, <1>4, <2>2 DEF Read, RequestType
    <3> QED BY <3>1 DEF ReadersOf
  <2> QED BY <1>4, <2>1, <2>2 DEF Read
<1>5. ASSUME NEW k \in Keys, GetObject(q, k) PROVE q \in ReadersOf(o)' <=> q \in ReadersOf(o)
  <2>1. req[q].pc = "idle" /\ req'[q].pc \in {"miss", "got"}
    BY <1>0, <1>5 DEF GetObject, Idle
  <2> QED BY <2>1 DEF ReadersOf
<1>6. CASE AfterExists(q) \/ CreateDone(q)
  <2>1. req[q].pc \notin Reading /\ req'[q].pc \notin Reading
    BY <1>0, <1>6 DEF AfterExists, CreateDone, RequestType, Idle
  <2> QED BY <2>1 DEF ReadersOf
<1>7. CASE CreateExists(q) \/ CreateFile(q) \/ CreateFails(q) \/ StartProducer(q)
           \/ StartFailed(q) \/ HangUp(q)
  BY <1>2, <1>3, <1>7 DEF CreateExists, CreateFile, CreateFails, StartProducer, StartFailed,
     HangUp
<1>8. ASSUME NEW r \in Requests, RequestStep(r) \/ HangUp(r) \/ \E k \in Keys : GetObject(r, k)
      PROVE  q \in ReadersOf(o)' <=> q \in ReadersOf(o)
  <2>1. CASE r # q
    BY <1>0, <1>1, <1>8, <2>1, OtherRequests
  <2>2. CASE r = q
    BY <1>4, <1>5, <1>6, <1>7, <1>8, <2>2 DEF RequestStep
  <2> QED BY <2>1, <2>2
<1>9. CASE req' = req
  BY <1>1, <1>9
<1> QED
  BY <1>8, <1>9
  DEF Next, LockStep, ProducerStep, Environment, DeleteData, DeleteDataFails, DeleteUnmap,
      EvictData, EvictUnmap, EvictClose, ClearRemove, ClearDirectory, ClearDone, Invalidate,
      Clear, CloseCache,
      ProducerWrites, ProducerFails, ProducerCompletes, ProducerMarks, ProducerAborts, Restart

\* Only a reader that comes or goes changes the count of an object.
LEMMA CountSteps ==
    ASSUME StoreInv, Next, NEW o \in Ids,
           ~\E r \in Requests : OpenReader(r) \/ CloseReader(r) \/ CreateDone(r),
           ~Crash, ~Restart
    PROVE  objs'[o].readerCount = objs[o].readerCount
<1>0. /\ objs \in [Ids -> ObjectType] /\ cmap \in [Keys -> Ids \cup {NoId}]
      /\ req \in [Requests -> RequestType]
  BY DEF StoreInv, Shape
<1> DEFINE Kept == objs'[o].readerCount = objs[o].readerCount
<1>1. ASSUME NEW k \in Keys, BeginDelete(k) \/ EvictClose(k) PROVE Kept
  BY <1>0, <1>1, ClosedFields DEF BeginDelete, EvictClose
<1>2. CASE CloseAll
  BY <1>0, <1>2, ClosedFields DEF CloseAll
<1>3. ASSUME NEW r \in Requests, StartFailed(r) PROVE Kept
  <2>1. req[r].key \in Keys
    BY <1>3 DEF StartFailed, StoreInv, Keyed
  <2> QED BY <1>1, <1>3, <2>1 DEF StartFailed
<1>4. ASSUME NEW r \in Requests, Read(r) PROVE Kept
  <2>1. CASE objs'[o] = objs[o]
    BY <2>1
  <2>2. CASE objs'[o] = Waiting(objs[o], r)
    BY <1>0, <2>2, WaitingFields
  <2> QED BY <1>0, <1>4, <2>1, <2>2 DEF Read
<1>5. ASSUME NEW r \in Requests, HangUp(r) PROVE Kept
  <2>1. objs' = [objs EXCEPT ![req[r].obj].waiters = @ \ {r}]
    BY <1>5 DEF HangUp
  <2> QED BY <1>0, <2>1 DEF ObjectType
<1>6. ASSUME NEW p \in Ids, ProducerWrites(p) PROVE Kept
  BY <1>0, <1>6, WrittenFields DEF ProducerWrites
<1>7. ASSUME NEW p \in Ids, ProducerCompletes(p) PROVE Kept
  BY <1>0, <1>7, CompletedFields DEF ProducerCompletes
<1>8. ASSUME NEW p \in Ids, ProducerAborts(p) PROVE Kept
  <2>1. okey[p] \in Keys
    BY <1>8 DEF ProducerAborts, StoreInv, Keyed
  <2> QED BY <1>1, <1>8, <2>1 DEF ProducerAborts
<1>9. CASE objs' = objs
  BY <1>9
<1> QED
  BY <1>1, <1>2, <1>3, <1>4, <1>5, <1>6, <1>7, <1>8, <1>9
  DEF Next, LockStep, RequestStep, ProducerStep, Environment, memory, DeleteData,
      DeleteDataFails, DeleteUnmap, EvictData, EvictUnmap, ClearRemove, ClearDirectory,
      ClearDone, Invalidate,
      Clear, CloseCache, GetObject, CreateExists, AfterExists, CreateFile, CreateFails,
      StartProducer, ProducerFails, ProducerMarks

\* readerCount stays the number of readers.
LEMMA CountedStep ==
    ASSUME StoreInv, Next
    PROVE  Counted'
<1> SUFFICES ASSUME NEW o \in Ids PROVE objs'[o].readerCount = Cardinality(ReadersOf(o)')
  BY DEF Counted
<1>0. /\ objs \in [Ids -> ObjectType] /\ req \in [Requests -> RequestType] /\ LockHolder
      /\ objs[o] \in ObjectType /\ objs[o].readerCount = Cardinality(ReadersOf(o))
      /\ objs[o].readerCount \in Nat /\ NoId \notin Ids
  BY StoreAssumption DEF StoreInv, Shape, Counted, ObjectType, NoId
<1>1. ReadersOf(o) \subseteq Requests /\ ReadersOf(o)' \subseteq Requests
  BY DEF ReadersOf
<1>2. IsFiniteSet(ReadersOf(o)) /\ IsFiniteSet(ReadersOf(o)')
  BY <1>1, FS_Subset, StoreAssumption
<1>3. Cardinality({}) = 0
  BY FS_EmptySet
<1>4. ASSUME NEW r \in Requests, OpenReader(r)
      PROVE  objs'[o].readerCount = Cardinality(ReadersOf(o)')
  <2> DEFINE f == [inode |-> disk[okey[o]].inode, mode |-> "ro"]
  <2>0. req[r].obj \in Ids /\ okey[req[r].obj] \in Keys /\ req[r].pc = "got"
    BY <1>4 DEF OpenReader, StoreInv, Keyed
  <2>1. \A q \in Requests \ {r} : req'[q] = req[q]
    BY <1>0, <1>4, OtherRequests DEF RequestStep
  <2>2. r \notin ReadersOf(o)
    BY <2>0 DEF ReadersOf
  <2>3. CASE req[r].obj = o /\ (objs[o].file # NoFile \/ disk[okey[o]].inode # NoId)
    <3>1. objs[o].file # NoFile \/ f \in Handles
      BY <2>0, <2>3 DEF StoreInv, Shape, DiskType, Handles
    <3>2. objs' = [objs EXCEPT ![o] = Used(@, f)] /\ Goto(r, "open")
      BY <1>4, <2>3 DEF OpenReader
    <3>3. objs'[o] = Used(objs[o], f)
      BY <1>0, <3>2
    <3>4. objs'[o].readerCount = objs[o].readerCount + 1
      <4> HIDE DEF f
      <4> QED BY <1>0, <3>1, <3>3, UsedFields
    <3>5. req'[r].pc = "open" /\ req'[r].obj = o
      BY <1>0, <2>3, <3>2, GotoMoves
    <3>6. ReadersOf(o)' = ReadersOf(o) \cup {r}
      BY <2>1, <3>5 DEF ReadersOf
    <3>7. Cardinality(ReadersOf(o) \cup {r}) = Cardinality(ReadersOf(o)) + 1
      BY <1>2, <2>2, FS_AddElement
    <3> QED BY <1>0, <3>4, <3>6, <3>7
  <2>4. CASE ~(req[r].obj = o /\ (objs[o].file # NoFile \/ disk[okey[o]].inode # NoId))
    <3>1. objs'[o] = objs[o]
      BY <1>0, <1>4, <2>4 DEF OpenReader
    <3>2. req'[r].obj # o \/ req'[r].pc = "idle"
      BY <1>0, <1>4, <2>4, GotoMoves, IdleMoves DEF OpenReader
    <3>3. ReadersOf(o)' = ReadersOf(o)
      BY <2>1, <2>2, <3>2 DEF ReadersOf
    <3> QED BY <1>0, <3>1, <3>3
  <2> QED BY <2>3, <2>4
<1>5. ASSUME NEW r \in Requests, CloseReader(r)
      PROVE  objs'[o].readerCount = Cardinality(ReadersOf(o)')
  <2>1. \A q \in Requests \ {r} : req'[q] = req[q]
    BY <1>0, <1>5, OtherRequests DEF RequestStep
  <2>2. req'[r].pc = "idle" /\ req[r].pc = "ended"
    BY <1>0, <1>5, IdleMoves DEF CloseReader
  <2>3. ReadersOf(o)' = ReadersOf(o) \ {r}
    BY <2>1, <2>2 DEF ReadersOf
  <2>4. CASE req[r].obj = o
    <3>1. r \in ReadersOf(o)
      BY <2>2, <2>4 DEF ReadersOf
    <3>2. Cardinality(ReadersOf(o) \ {r}) = Cardinality(ReadersOf(o)) - 1
      BY <1>2, <3>1, FS_RemoveElement
    <3>3. Cardinality(ReadersOf(o) \ {r}) \in Nat
      BY <1>2, <2>3, FS_CardinalityType
    <3>4. objs[o].readerCount > 0
      BY <1>0, <3>2, <3>3
    <3>5. objs'[o] = Released(objs[o])
      BY <1>0, <1>5, <2>4 DEF CloseReader
    <3>6. objs'[o].readerCount = objs[o].readerCount - 1
      BY <1>0, <3>4, <3>5, ReleasedFields
    <3> QED BY <1>0, <2>3, <3>2, <3>6
  <2>5. CASE req[r].obj # o
    <3>1. r \notin ReadersOf(o)
      BY <2>5 DEF ReadersOf
    <3>2. objs'[o] = objs[o]
      BY <1>0, <1>5, <2>5 DEF CloseReader
    <3>3. ReadersOf(o)' = ReadersOf(o)
      BY <2>3, <3>1
    <3> QED BY <1>0, <3>2, <3>3
  <2> QED BY <2>4, <2>5
<1>6. CASE Crash
  <2>1. objs'[o].readerCount = 0
    BY <1>6 DEF Crash, Blank, NewObject
  <2>2. ReadersOf(o)' = {}
    BY <1>6 DEF Crash, Idle, ReadersOf
  <2> QED BY <1>3, <2>1, <2>2
<1>7. CASE Restart
  <2>1. objs'[o].readerCount = 0
    BY <1>7 DEF Restart, Blank, NewObject, LoadedObject
  <2>2. req' = req /\ req = [r \in Requests |-> Idle]
    BY <1>7 DEF Restart, StoreInv, Down
  <2>3. ReadersOf(o)' = {}
    BY <2>2 DEF Idle, ReadersOf
  <2> QED BY <1>3, <2>1, <2>3
<1>8. CASE /\ ~\E r \in Requests : OpenReader(r) \/ CloseReader(r)
           /\ ~Crash /\ ~Restart
  <2>1. ReadersOf(o)' = ReadersOf(o)
    BY <1>1, <1>8, ReaderSteps
  <2>2. ASSUME NEW r \in Requests, CreateDone(r)
        PROVE  objs'[o].readerCount = Cardinality(ReadersOf(o))
    <3>1. CASE o = op.id
      <4>1. ReadersOf(o) = {}
        BY <1>0, <2>2, <3>1 DEF ReadersOf, CreateDone, LockHolder
      <4>2. objs'[o].readerCount = 0
        BY <1>0, <2>2, <3>1 DEF CreateDone, NewObject
      <4> QED BY <1>3, <4>1, <4>2
    <3>2. CASE o # op.id
      BY <1>0, <2>2, <3>2 DEF CreateDone
    <3> QED BY <3>1, <3>2
  <2>3. CASE ~\E r \in Requests : CreateDone(r)
    BY <1>0, <1>8, <2>1, <2>3, CountSteps
  <2> QED BY <2>1, <2>2, <2>3
<1> QED BY <1>4, <1>5, <1>6, <1>7, <1>8

\* Nothing runs while the server is down.
LEMMA DownStep ==
    ASSUME StoreInv, Next
    PROVE  Down'
<1> SUFFICES ASSUME phase' = "down" PROVE Down'
  BY DEF Down
<1>1. CASE Crash
  BY <1>1 DEF Crash, Down
<1>2. CASE phase = "down"
  <2>1. /\ prod = [o \in Ids |-> "none"] /\ req = [r \in Requests |-> Idle] /\ op = Free
    BY <1>2 DEF StoreInv, Down
  <2>2. ~LockFree /\ op.kind = "free" /\ (\A r \in Requests : req[r].pc = "idle")
        /\ \A o \in Ids : prod[o] = "none"
    BY <1>2, <2>1 DEF LockFree, Free, Idle
  <2>3. ~LockStep
    BY <2>2 DEF LockStep, DeleteData, DeleteDataFails, DeleteUnmap, EvictData, EvictUnmap,
       ClearRemove, ClearDirectory, ClearDone
  <2>4. ASSUME NEW r \in Requests PROVE ~RequestStep(r)
    BY <2>2 DEF RequestStep, CreateExists, AfterExists, CreateFile, CreateFails, CreateDone,
       StartProducer, StartFailed, OpenReader, Read, CloseReader
  <2>5. ASSUME NEW o \in Ids PROVE ~ProducerStep(o) /\ ~ProducerFails(o)
    BY <2>2 DEF ProducerStep, ProducerFails, ProducerWrites, ProducerCompletes, ProducerMarks,
       ProducerAborts
  <2>6. ~Environment
    BY <1>2, <2>2, <2>5 DEF Environment, Invalidate, EvictClose, Clear, CloseCache, CloseAll,
       Crash, Restart, HangUp, GetObject
  <2> QED BY <2>3, <2>4, <2>5, <2>6 DEF Next
<1>3. CASE phase # "down" /\ ~Crash
  BY <1>3
  DEF Next, LockStep, RequestStep, ProducerStep, Environment, ambient, DeleteData,
      DeleteDataFails, DeleteUnmap, EvictData, EvictUnmap, EvictClose, ClearRemove,
      ClearDirectory, ClearDone,
      Invalidate, Clear, CloseCache, GetObject, AfterExists, CreateExists, CreateFile,
      CreateFails, CreateDone, StartProducer, StartFailed, OpenReader, Read, HangUp,
      CloseReader, ProducerWrites, ProducerFails, ProducerCompletes, ProducerMarks,
      ProducerAborts, Restart
<1> QED BY <1>1, <1>2, <1>3

-----------------------------------------------------------------------------
(* The theorems *)

\* An empty cache satisfies the invariant.
LEMMA StoreInit ==
    ASSUME Init
    PROVE  StoreInv
<1>1. NoFile \in Handles /\ 0 \in 0 .. Total /\ NoId \notin Ids
  BY StoreAssumption DEF Handles, NoId
<1>2. Blank \in ObjectType /\ Blank.file = NoFile /\ Blank.readerCount = 0 /\ Blank.waiters = {}
  BY <1>1, NewFields
<1>3. Shape
  BY <1>1, <1>2 DEF Init, Shape, DiskType, RequestType, OpType, Free, Idle
<1>4. Keyed /\ LockHolder /\ Distinct /\ Marking /\ MarkerVouches /\ Down /\ Owned
  BY <1>1 DEF Init, Keyed, LockHolder, Distinct, Marking, MarkerVouches, Down, Owned, Idle, Free
<1>5. Writers /\ Blocked
  BY <1>2 DEF Init, Writers, Blocked
<1>6. Counted
  <2>1. \A o \in Ids : ReadersOf(o) = {}
    BY DEF Init, ReadersOf, Idle
  <2> QED BY <1>2, <2>1, FS_EmptySet DEF Init, Counted
<1> QED BY <1>3, <1>4, <1>5, <1>6 DEF StoreInv

\* Every step keeps the invariant.
LEMMA StoreStep ==
    ASSUME StoreInv, [Next]_vars
    PROVE  StoreInv'
<1>1. CASE Next
  BY <1>1, ShapeStep, KeyedStep, DistinctStep, LockHolderStep, OwnedStep, WritersStep,
     MarkingStep, MarkerStep, CountedStep, BlockedStep, DownStep DEF StoreInv
<1>2. CASE UNCHANGED vars
  BY <1>2
  DEF vars, StoreInv, Shape, Keyed, Distinct, LockHolder, Owned, Writers, Marking,
      MarkerVouches, Counted, Blocked, Down, ReadersOf
<1> QED BY <1>1, <1>2

\* The cache keeps StoreInv: the lock holder's assumptions, ownership of files, trust in
\* markers and the accounts of the readers together.
THEOREM StoreInvInvariant == Spec => []StoreInv
<1>1. Init => StoreInv
  BY StoreInit
<1>2. StoreInv /\ [Next]_vars => StoreInv'
  BY StoreStep
<1> QED BY <1>1, <1>2, PTL DEF Spec

\* Every variable has its type, and no object counts more readers than there are requests.
THEOREM StoreTypeCorrect == Spec => []TypeOK
<1>1. ASSUME StoreInv PROVE TypeOK
  <2>1. \A o \in Ids : objs[o].readerCount \in 0 .. Cardinality(Requests)
    <3>1. ASSUME NEW o \in Ids PROVE objs[o].readerCount \in 0 .. Cardinality(Requests)
      <4>1. ReadersOf(o) \subseteq Requests
        BY DEF ReadersOf
      <4>2. /\ IsFiniteSet(ReadersOf(o))
            /\ Cardinality(ReadersOf(o)) <= Cardinality(Requests)
        BY <4>1, FS_Subset, StoreAssumption
      <4>3. Cardinality(ReadersOf(o)) \in Nat /\ Cardinality(Requests) \in Nat
        BY <4>2, FS_CardinalityType, StoreAssumption
      <4>4. objs[o].readerCount = Cardinality(ReadersOf(o))
        BY <1>1 DEF StoreInv, Counted
      <4> QED BY <4>2, <4>3, <4>4
    <3> QED BY <3>1
  <2>2. objs \in [Ids -> [size : 0 .. Total, file : Handles,
                          readerCount : 0 .. Cardinality(Requests),
                          complete : BOOLEAN, waiters : SUBSET Requests]]
    BY <1>1, <2>1 DEF StoreInv, Shape, ObjectType
  <2> QED BY <1>1, <2>2 DEF TypeOK, StoreInv, Shape, DiskType, RequestType, OpType
<1> QED BY <1>1, StoreInvInvariant, PTL

\* What a key maps to owns the file at the key's path whenever no operation on the key is
\* under way (CreateObject, DeleteObject, evict, Clear and loadObjects in cache.go).
THEOREM MappedOwnsFileInvariant == Spec => []MappedOwnsFile
<1>1. ASSUME StoreInv PROVE MappedOwnsFile
  BY <1>1 DEF StoreInv, Owned, MappedOwnsFile
<1> QED BY <1>1, StoreInvInvariant, PTL

\* A marker outside the two windows suspect records vouches for a whole file, whatever fails
\* and wherever the server is killed (SetComplete in object.go, loadObjects in cache.go).
THEOREM MarkerVouchesInvariant == Spec => []MarkerVouches
<1>1. StoreInv => MarkerVouches
  BY DEF StoreInv
<1> QED BY <1>1, StoreInvInvariant, PTL

\* Every object counts its readers and no request blocks on one that has something for it
\* (UseFile, ReleaseFile and signalDataChanged in object.go, waitForData in reader.go).
THEOREM WaitersAccountedInvariant == Spec => []WaitersAccounted
<1>1. ASSUME StoreInv PROVE WaitersAccounted
  <2> SUFFICES ASSUME NEW o \in Ids
               PROVE  /\ objs[o].readerCount = Cardinality(ReadersOf(o))
                      /\ \A r \in objs[o].waiters :
                            /\ r \in ReadersOf(o)
                            /\ WaitForData(objs[o], req[r].off) = "wait"
    BY DEF WaitersAccounted
  <2>1. objs[o].readerCount = Cardinality(ReadersOf(o))
    BY <1>1 DEF StoreInv, Counted
  <2>2. ASSUME NEW r \in objs[o].waiters
        PROVE  r \in ReadersOf(o) /\ WaitForData(objs[o], req[r].off) = "wait"
    <3>1. /\ req[r].obj = o /\ req[r].pc = "waiting" /\ r \in Requests
          /\ objs[o].size <= req[r].off /\ ~objs[o].complete /\ objs[o].file # NoFile
      BY <1>1, <2>2 DEF StoreInv, Blocked, Shape, ObjectType
    <3>2. objs[o].size \in Int /\ req[r].off \in Int
      BY <1>1, <3>1 DEF StoreInv, Shape, ObjectType, RequestType
    <3>3. objs[o].size - req[r].off <= 0
      BY <3>1, <3>2
    <3> QED BY <3>1, <3>3 DEF ReadersOf, WaitForData
  <2> QED BY <2>1, <2>2
<1> QED BY <1>1, StoreInvInvariant, PTL

=============================================================================
