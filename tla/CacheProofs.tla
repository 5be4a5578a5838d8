---------------------------- MODULE CacheProofs ----------------------------
(***************************************************************************)
(* The safety properties of CacheObject, for any finite set of readers and *)
(* any size, and of CacheClean.  The two share the objects of the cache    *)
(* but no variable: each has its part of this module.                      *)
(***************************************************************************)
EXTENDS CacheObject, CacheClean, FiniteSetTheorems, TLAPS

-----------------------------------------------------------------------------
(* What each operation of ObjectOps does to the fields of an object. *)

\* Written adds to the size and, if a byte came in, wakes everybody.
LEMMA WrittenFacts ==
    ASSUME NEW o \in ObjectType, NEW n \in 0 .. MaxBytes, o.size + n <= MaxBytes
    PROVE  /\ Written(o, n) \in ObjectType
           /\ Written(o, n).size = o.size + n
           /\ Written(o, n).file = o.file
           /\ Written(o, n).readerCount = o.readerCount
           /\ Written(o, n).complete = o.complete
           /\ Written(o, n).waiters = IF n > 0 THEN {} ELSE o.waiters
<1> USE MaxBytesAssumption DEF ObjectType
<1> DEFINE w == [o EXCEPT !.size = o.size + n]
<1>1. w \in ObjectType /\ w.size = o.size + n /\ w.waiters = o.waiters
  OBVIOUS
<1>2. CASE n > 0
  BY <1>1, <1>2 DEF Written, signalDataChanged
<1>3. CASE ~(n > 0)
  BY <1>1, <1>3 DEF Written, signalDataChanged
<1> QED BY <1>2, <1>3

\* Completed sets complete and wakes everybody.
LEMMA CompletedFacts ==
    ASSUME NEW o \in ObjectType
    PROVE  /\ Completed(o) \in ObjectType
           /\ Completed(o).size = o.size
           /\ Completed(o).file = o.file
           /\ Completed(o).readerCount = o.readerCount
           /\ Completed(o).complete = TRUE
           /\ Completed(o).waiters = {}
  BY DEF ObjectType, Completed, signalDataChanged

\* Closed leaves no file and, unless there was none, nobody waiting.
LEMMA ClosedFacts ==
    ASSUME NEW o \in ObjectType
    PROVE  /\ Closed(o) \in ObjectType
           /\ Closed(o).size = o.size
           /\ Closed(o).file = NoFile
           /\ Closed(o).readerCount = o.readerCount
           /\ Closed(o).complete = o.complete
           /\ Closed(o).waiters = IF o.file = NoFile THEN o.waiters ELSE {}
<1> USE DEF ObjectType
<1>1. CASE o.file = NoFile
  BY <1>1 DEF Closed
<1>2. CASE o.file # NoFile
  BY <1>2 DEF Closed, signalDataChanged
<1> QED BY <1>1, <1>2

\* Used leaves the file open and counts one reader more.
LEMMA UsedFacts ==
    ASSUME NEW o \in ObjectType
    PROVE  /\ Used(o, Opened) \in ObjectType
           /\ Used(o, Opened).size = o.size
           /\ Used(o, Opened).file = IF o.file = NoFile THEN Opened ELSE o.file
           /\ Used(o, Opened).readerCount = o.readerCount + 1
           /\ Used(o, Opened).complete = o.complete
           /\ Used(o, Opened).waiters = o.waiters
<1> USE DEF ObjectType
<1>1. CASE o.file = NoFile
  <2> DEFINE u == [o EXCEPT !.file = Opened]
  <2>1. /\ u \in ObjectType
        /\ u.file = Opened /\ u.size = o.size /\ u.complete = o.complete
        /\ u.readerCount = o.readerCount /\ u.waiters = o.waiters
    OBVIOUS
  <2>2. Used(o, Opened) = [u EXCEPT !.readerCount = o.readerCount + 1]
    BY <1>1 DEF Used
  <2> HIDE DEF u
  <2> QED BY <1>1, <2>1, <2>2
<1>2. CASE o.file # NoFile
  <2>1. Used(o, Opened) = [o EXCEPT !.readerCount = o.readerCount + 1]
    BY <1>2 DEF Used
  <2> QED BY <1>2, <2>1
<1> QED BY <1>1, <1>2

\* Released counts one reader less; the last one of a complete object closes.
LEMMA ReleasedFacts ==
    ASSUME NEW o \in ObjectType, o.readerCount > 0
    PROVE  /\ Released(o) \in ObjectType
           /\ Released(o).size = o.size
           /\ Released(o).file = IF o.readerCount = 1 /\ o.complete
                                 THEN NoFile ELSE o.file
           /\ Released(o).readerCount = o.readerCount - 1
           /\ Released(o).complete = o.complete
           /\ Released(o).waiters = o.waiters
<1> USE DEF ObjectType
<1>1. CASE o.readerCount = 1 /\ o.complete
  <2> DEFINE u == [o EXCEPT !.readerCount = o.readerCount - 1]
  <2>1. /\ u \in ObjectType
        /\ u.file = o.file /\ u.size = o.size /\ u.complete = o.complete
        /\ u.readerCount = o.readerCount - 1 /\ u.waiters = o.waiters
    OBVIOUS
  <2>2. Released(o) = [u EXCEPT !.file = NoFile]
    BY <1>1 DEF Released
  <2> HIDE DEF u
  <2> QED BY <1>1, <2>1, <2>2
<1>2. CASE ~(o.readerCount = 1 /\ o.complete)
  <2>1. Released(o) = [o EXCEPT !.readerCount = o.readerCount - 1]
    <3> DEFINE f == IF o.readerCount - 1 <= 0 /\ o.complete
                    THEN NoFile ELSE o.file
    <3>1. f = o.file
      BY <1>2
    <3>2. Released(o) = [o EXCEPT !.readerCount = o.readerCount - 1, !.file = f]
      BY DEF Released
    <3> HIDE DEF f
    <3> QED BY <3>1, <3>2
  <2> QED BY <1>2, <2>1
<1> QED BY <1>1, <1>2

\* Waiting only adds a waiter.
LEMMA WaitingFacts ==
    ASSUME NEW o \in ObjectType, NEW r \in Readers
    PROVE  /\ Waiting(o, r) \in ObjectType
           /\ Waiting(o, r).size = o.size
           /\ Waiting(o, r).file = o.file
           /\ Waiting(o, r).readerCount = o.readerCount
           /\ Waiting(o, r).complete = o.complete
           /\ Waiting(o, r).waiters = o.waiters \cup {r}
  BY DEF ObjectType, Waiting

-----------------------------------------------------------------------------
(* Type correctness *)

\* The initial state has its type.
LEMMA InitType == Init => TypeOK
<1> SUFFICES ASSUME Init PROVE TypeOK
  OBVIOUS
<1>1. closed \in BOOLEAN
  BY DEF Init
<1>2. obj \in ObjectType
  BY MaxBytesAssumption DEF Init, ObjectType, NewObject
<1> QED BY <1>1, <1>2, MaxBytesAssumption DEF Init, TypeOK, ReaderStates

\* Every step keeps the type.
LEMMA TypeStep == TypeOK /\ [Next]_vars => TypeOK'
<1> SUFFICES ASSUME TypeOK, [Next]_vars PROVE TypeOK'
  OBVIOUS
<1> USE MaxBytesAssumption DEF TypeOK, ReaderStates
<1>1. ASSUME NEW n \in 0 .. MaxBytes, Write(n) \/ WriteFails(n) PROVE TypeOK'
  BY <1>1, WrittenFacts DEF Write, WriteFails
<1>2. CASE SetComplete
  BY <1>2, CompletedFacts DEF SetComplete
<1>3. CASE Close \/ CloseForEviction
  BY <1>3, ClosedFacts DEF Close, CloseForEviction
<1>4. ASSUME NEW r \in Readers, OpenReader(r) PROVE TypeOK'
  BY <1>4, UsedFacts DEF OpenReader
<1>5. ASSUME NEW r \in Readers, Read(r) \/ Wake(r) PROVE TypeOK'
  <2>1. ReadStep(r)
    BY <1>5 DEF Read, Wake
  <2>2. ASSUME NEW k \in 1 .. MaxBytes, ReadData(r, k) PROVE TypeOK'
    <3>1. offset[r] + k \in 0 .. MaxBytes
      BY <2>2 DEF ReadData, ObjectType
    <3> QED BY <2>2, <3>1 DEF ReadData
  <2>3. CASE ReadEnds(r)
    BY <2>3 DEF ReadEnds
  <2>4. CASE ReadBlocks(r)
    BY <2>4, WaitingFacts DEF ReadBlocks
  <2> QED BY <2>1, <2>2, <2>3, <2>4 DEF ReadStep
<1>6. ASSUME NEW r \in Readers, Cancelled(r) PROVE TypeOK'
  BY <1>6 DEF Cancelled, ObjectType
<1>7. ASSUME NEW r \in Readers, Disconnect(r) \/ StopReading(r) PROVE TypeOK'
  BY <1>7 DEF Disconnect, StopReading
<1>8. ASSUME NEW r \in Readers, NEW off \in 0 .. MaxBytes, Seek(r, off)
      PROVE  TypeOK'
  BY <1>8 DEF Seek
<1>9. ASSUME NEW r \in Readers, CloseReader(r) PROVE TypeOK'
  <2>1. CASE obj.readerCount > 0
    BY <1>9, <2>1, ReleasedFacts DEF CloseReader
  <2>2. CASE ~(obj.readerCount > 0)
    BY <1>9, <2>2 DEF CloseReader, Released, ObjectType
  <2> QED BY <2>1, <2>2
<1>10. CASE UNCHANGED vars
  BY <1>10 DEF vars
<1> QED
  BY <1>1, <1>2, <1>3, <1>4, <1>5, <1>6, <1>7, <1>8, <1>9, <1>10 DEF Next

(***************************************************************************)
(* The state stays within its type: in particular readerCount never goes   *)
(* below zero and an offset never leaves 0 .. MaxBytes, whatever the order  *)
(* of opens, closes, reads and seeks.                                      *)
(***************************************************************************)
THEOREM TypeCorrect == Spec => []TypeOK
<1>1. Init => TypeOK
  BY InitType
<1> QED BY <1>1, TypeStep, PTL DEF Spec

-----------------------------------------------------------------------------
(* The count of readers *)

\* There are finitely many open readers.
LEMMA OpenReadersFinite == IsFiniteSet(OpenReaders)
<1>1. OpenReaders \in SUBSET Readers
  BY DEF OpenReaders
<1> QED BY <1>1, ReadersAssumption, FS_Subset

\* A step that neither opens nor closes a reader keeps the count exact.
LEMMA CountKept ==
    ASSUME ReaderCountExact, obj'.readerCount = obj.readerCount,
           OpenReaders' = OpenReaders
    PROVE  ReaderCountExact'
  BY DEF ReaderCountExact

\* A reader that moves between two states other than idle stays open.
LEMMA OpenReadersKept ==
    ASSUME TypeOK, NEW r \in Readers, pc[r] # "idle",
           NEW st, st # "idle", pc' = [pc EXCEPT ![r] = st]
    PROVE  OpenReaders' = OpenReaders
  BY DEF OpenReaders, TypeOK

\* Every step keeps the count exact.
LEMMA CountStep ==
    TypeOK /\ ReaderCountExact /\ [Next]_vars => ReaderCountExact'
<1> SUFFICES ASSUME TypeOK, ReaderCountExact, [Next]_vars
             PROVE  ReaderCountExact'
  OBVIOUS
<1>0. obj \in ObjectType
  BY DEF TypeOK
<1>1. ASSUME NEW n \in 0 .. MaxBytes, Write(n) \/ WriteFails(n)
      PROVE  ReaderCountExact'
  BY <1>0, <1>1, WrittenFacts, CountKept DEF Write, WriteFails, OpenReaders
<1>2. CASE SetComplete
  BY <1>0, <1>2, CompletedFacts, CountKept DEF SetComplete, OpenReaders
<1>3. CASE Close \/ CloseForEviction
  BY <1>0, <1>3, ClosedFacts, CountKept DEF Close, CloseForEviction, OpenReaders
<1>4. ASSUME NEW r \in Readers, OpenReader(r) PROVE ReaderCountExact'
  <2>1. OpenReaders' = OpenReaders \cup {r} /\ r \notin OpenReaders
    BY <1>4 DEF OpenReader, OpenReaders, TypeOK
  <2>2. Cardinality(OpenReaders') = Cardinality(OpenReaders) + 1
    BY <2>1, OpenReadersFinite, FS_AddElement
  <2>3. obj'.readerCount = obj.readerCount + 1
    BY <1>0, <1>4, UsedFacts DEF OpenReader
  <2> QED BY <2>2, <2>3 DEF ReaderCountExact
<1>5. ASSUME NEW r \in Readers, Read(r) \/ Wake(r) PROVE ReaderCountExact'
  <2>1. ReadStep(r) /\ pc[r] # "idle"
    BY <1>5 DEF Read, Wake
  <2>2. ASSUME NEW k \in 1 .. MaxBytes, ReadData(r, k) PROVE ReaderCountExact'
    BY <2>1, <2>2, OpenReadersKept, CountKept DEF ReadData
  <2>3. CASE ReadEnds(r)
    BY <2>1, <2>3, OpenReadersKept, CountKept DEF ReadEnds
  <2>4. CASE ReadBlocks(r)
    BY <1>0, <2>1, <2>4, OpenReadersKept, CountKept, WaitingFacts DEF ReadBlocks
  <2> QED BY <2>1, <2>2, <2>3, <2>4 DEF ReadStep
<1>6. ASSUME NEW r \in Readers, Cancelled(r) PROVE ReaderCountExact'
  <2>1. obj'.readerCount = obj.readerCount
    BY <1>0, <1>6 DEF Cancelled, ObjectType
  <2> QED BY <1>6, <2>1, OpenReadersKept, CountKept DEF Cancelled
<1>7. ASSUME NEW r \in Readers, Disconnect(r) PROVE ReaderCountExact'
  BY <1>7, CountKept DEF Disconnect, OpenReaders
<1>8. ASSUME NEW r \in Readers, StopReading(r) PROVE ReaderCountExact'
  BY <1>8, OpenReadersKept, CountKept DEF StopReading
<1>9. ASSUME NEW r \in Readers, NEW off \in 0 .. MaxBytes, Seek(r, off)
      PROVE  ReaderCountExact'
  BY <1>9, CountKept DEF Seek, OpenReaders
<1>10. ASSUME NEW r \in Readers, CloseReader(r) PROVE ReaderCountExact'
  <2>1. OpenReaders' = OpenReaders \ {r} /\ r \in OpenReaders
    BY <1>10 DEF CloseReader, OpenReaders, TypeOK
  <2>2. Cardinality(OpenReaders') = Cardinality(OpenReaders) - 1
    BY <2>1, OpenReadersFinite, FS_RemoveElement
  <2>3. Cardinality(OpenReaders) \in Nat /\ Cardinality(OpenReaders) # 0
    BY <2>1, OpenReadersFinite, FS_CardinalityType, FS_EmptySet
  <2>4. obj.readerCount > 0
    BY <2>3 DEF ReaderCountExact
  <2>5. obj'.readerCount = obj.readerCount - 1
    BY <1>0, <1>10, <2>4, ReleasedFacts DEF CloseReader
  <2> QED BY <2>2, <2>5 DEF ReaderCountExact
<1>11. CASE UNCHANGED vars
  BY <1>11, CountKept DEF vars, OpenReaders
<1> QED
  BY <1>1, <1>2, <1>3, <1>4, <1>5, <1>6, <1>7, <1>8, <1>9, <1>10, <1>11
  DEF Next

-----------------------------------------------------------------------------
(* Waiting readers *)

\* Spelled out: a waiter consumed all of an incomplete object that is open.
Idle(o, off) == o.size <= off /\ ~o.complete /\ o.file # NoFile

\* A request that waitForData blocks has nothing to do yet.
LEMMA WaitMeansIdle ==
    ASSUME NEW o \in ObjectType, NEW off \in 0 .. MaxBytes
    PROVE  WaitForData(o, off) = "wait" <=> Idle(o, off)
<1>1. o.size \in Int /\ off \in Int
  BY MaxBytesAssumption DEF ObjectType
<1>2. o.size - off <= 0 <=> o.size <= off
  BY <1>1
<1>3. CASE o.size <= off
  BY <1>2, <1>3 DEF WaitForData, Idle
<1>4. CASE ~(o.size <= off)
  BY <1>2, <1>4 DEF WaitForData, Idle
<1> QED BY <1>3, <1>4

\* A step that adds no waiter and disturbs none keeps the invariant.
LEMMA WaitersKept ==
    ASSUME TypeOK, TypeOK', NoLostWakeup,
           obj'.waiters \subseteq obj.waiters,
           \A r \in obj'.waiters : /\ pc'[r] = pc[r]
                                   /\ offset'[r] = offset[r]
                                   /\ obj'.size = obj.size
                                   /\ obj'.complete = obj.complete
                                   /\ obj'.file # NoFile
    PROVE  NoLostWakeup'
<1> SUFFICES ASSUME NEW r \in obj'.waiters
             PROVE  pc'[r] = "waiting" /\ WaitForData(obj', offset'[r]) = "wait"
  BY DEF NoLostWakeup
<1>1. r \in Readers /\ r \in obj.waiters
  BY DEF TypeOK, ObjectType
<1>2. pc[r] = "waiting" /\ Idle(obj, offset[r])
  BY <1>1, WaitMeansIdle DEF NoLostWakeup, TypeOK
<1>3. Idle(obj', offset'[r])
  BY <1>2 DEF Idle
<1> QED BY <1>1, <1>2, <1>3, WaitMeansIdle DEF TypeOK

\* An open file of a waiter is known to be open.
LEMMA WaiterHasFile ==
    ASSUME TypeOK, NoLostWakeup, obj.waiters # {}
    PROVE  obj.file # NoFile
<1> PICK r \in obj.waiters : TRUE
  OBVIOUS
<1>1. r \in Readers
  BY DEF TypeOK, ObjectType
<1> QED BY <1>1, WaitMeansIdle DEF NoLostWakeup, TypeOK, Idle

\* Every step keeps NoLostWakeup.
LEMMA WakeupStep ==
    TypeOK /\ TypeOK' /\ NoLostWakeup /\ [Next]_vars => NoLostWakeup'
<1> SUFFICES ASSUME TypeOK, TypeOK', NoLostWakeup, [Next]_vars
             PROVE  NoLostWakeup'
  OBVIOUS
<1>0. /\ obj \in ObjectType /\ obj.waiters \subseteq Readers
      /\ \A r \in obj.waiters : pc[r] = "waiting"
      /\ obj.waiters # {} => obj.file # NoFile
  BY WaiterHasFile DEF TypeOK, ObjectType, NoLostWakeup
<1>1. ASSUME NEW n \in 0 .. MaxBytes, Write(n) \/ WriteFails(n)
      PROVE  NoLostWakeup'
  <2>1. obj' = Written(obj, n) /\ pc' = pc /\ offset' = offset
        /\ obj.size + n <= MaxBytes
    BY <1>1 DEF Write, WriteFails
  <2>2. CASE n = 0
    BY <1>0, <2>1, <2>2, WrittenFacts, WaitersKept DEF ObjectType
  <2>3. CASE n > 0
    BY <1>0, <2>1, <2>3, WrittenFacts DEF NoLostWakeup
  <2> QED BY <2>2, <2>3, MaxBytesAssumption
<1>2. CASE SetComplete
  BY <1>0, <1>2, CompletedFacts DEF SetComplete, NoLostWakeup
<1>3. CASE Close \/ CloseForEviction
  <2>1. obj'.waiters = {}
    BY <1>0, <1>3, ClosedFacts DEF Close, CloseForEviction
  <2> QED BY <2>1 DEF NoLostWakeup
<1>4. ASSUME NEW r \in Readers, OpenReader(r) PROVE NoLostWakeup'
  <2>1. \A s \in obj.waiters : s # r
    BY <1>0, <1>4 DEF OpenReader
  <2>2. /\ obj'.waiters = obj.waiters
        /\ obj'.size = obj.size /\ obj'.complete = obj.complete
        /\ obj.waiters # {} => obj'.file # NoFile
    BY <1>0, <1>4, UsedFacts DEF OpenReader
  <2>3. \A s \in obj.waiters : pc'[s] = pc[s] /\ offset'[s] = offset[s]
    BY <1>0, <1>4, <2>1 DEF OpenReader, TypeOK
  <2> QED BY <2>2, <2>3, WaitersKept
<1>5. ASSUME NEW r \in Readers, Read(r) \/ Wake(r) PROVE NoLostWakeup'
  <2>1. ReadStep(r) /\ r \notin obj.waiters
    BY <1>0, <1>5 DEF Read, Wake
  <2>2. ASSUME NEW k \in 1 .. MaxBytes, ReadData(r, k) PROVE NoLostWakeup'
    <3>1. obj' = obj
      BY <2>2 DEF ReadData
    <3>2. \A s \in obj.waiters : pc'[s] = pc[s] /\ offset'[s] = offset[s]
      BY <1>0, <2>1, <2>2 DEF ReadData, TypeOK
    <3> QED BY <1>0, <3>1, <3>2, WaitersKept
  <2>3. CASE ReadEnds(r)
    <3>1. obj' = obj
      BY <2>3 DEF ReadEnds
    <3>2. \A s \in obj.waiters : pc'[s] = pc[s] /\ offset'[s] = offset[s]
      BY <1>0, <2>1, <2>3 DEF ReadEnds, TypeOK
    <3> QED BY <1>0, <3>1, <3>2, WaitersKept
  <2>4. CASE ReadBlocks(r)
    <3>1. /\ obj'.waiters = obj.waiters \cup {r}
          /\ obj'.size = obj.size /\ obj'.complete = obj.complete
          /\ obj'.file = obj.file
      BY <1>0, <2>4, WaitingFacts DEF ReadBlocks
    <3>2. Idle(obj, offset[r]) /\ pc'[r] = "waiting" /\ offset' = offset
      BY <1>0, <2>4, WaitMeansIdle DEF ReadBlocks, TypeOK
    <3> SUFFICES ASSUME NEW s \in obj'.waiters
                 PROVE  /\ pc'[s] = "waiting"
                        /\ WaitForData(obj', offset'[s]) = "wait"
      BY DEF NoLostWakeup
    <3>3. s \in Readers
      BY <1>0, <3>1
    <3>4. Idle(obj, offset[s]) /\ pc'[s] = "waiting"
      <4>1. CASE s = r
        BY <3>2, <4>1
      <4>2. CASE s # r
        <5>1. s \in obj.waiters
          BY <3>1, <4>2
        <5>2. Idle(obj, offset[s]) /\ pc[s] = "waiting"
          BY <1>0, <5>1, WaitMeansIdle DEF NoLostWakeup, TypeOK
        <5> QED BY <2>4, <3>3, <4>2, <5>2 DEF ReadBlocks, TypeOK
      <4> QED BY <4>1, <4>2
    <3>5. Idle(obj', offset'[s])
      BY <3>1, <3>2, <3>4 DEF Idle
    <3> QED BY <3>3, <3>4, <3>5, WaitMeansIdle DEF TypeOK
  <2> QED BY <2>1, <2>2, <2>3, <2>4 DEF ReadStep
<1>6. ASSUME NEW r \in Readers, Cancelled(r) PROVE NoLostWakeup'
  <2>1. /\ obj'.waiters = obj.waiters \ {r}
        /\ obj'.size = obj.size /\ obj'.complete = obj.complete
        /\ obj'.file = obj.file
    BY <1>0, <1>6 DEF Cancelled, ObjectType
  <2>2. \A s \in obj'.waiters : pc'[s] = pc[s] /\ offset'[s] = offset[s]
    BY <1>0, <1>6, <2>1 DEF Cancelled, TypeOK
  <2> QED BY <1>0, <2>1, <2>2, WaitersKept
<1>7. ASSUME NEW r \in Readers, Disconnect(r) PROVE NoLostWakeup'
  BY <1>0, <1>7, WaitersKept DEF Disconnect
<1>8. ASSUME NEW r \in Readers, StopReading(r) PROVE NoLostWakeup'
  <2>1. \A s \in obj.waiters : pc'[s] = pc[s] /\ offset'[s] = offset[s]
    BY <1>0, <1>8 DEF StopReading, TypeOK
  <2>2. obj' = obj
    BY <1>8 DEF StopReading
  <2> QED BY <1>0, <2>1, <2>2, WaitersKept
<1>9. ASSUME NEW r \in Readers, NEW off \in 0 .. MaxBytes, Seek(r, off)
      PROVE  NoLostWakeup'
  <2>1. \A s \in obj.waiters : pc'[s] = pc[s] /\ offset'[s] = offset[s]
    BY <1>0, <1>9 DEF Seek, TypeOK
  <2>2. obj' = obj
    BY <1>9 DEF Seek
  <2> QED BY <1>0, <2>1, <2>2, WaitersKept
<1>10. ASSUME NEW r \in Readers, CloseReader(r) PROVE NoLostWakeup'
  <2>1. \A s \in obj.waiters : pc'[s] = pc[s] /\ offset'[s] = offset[s]
    BY <1>0, <1>10 DEF CloseReader, TypeOK
  <2>2. CASE obj.readerCount > 0
    <3>1. \A s \in obj.waiters : ~obj.complete
      BY <1>0, WaitMeansIdle DEF NoLostWakeup, TypeOK, Idle
    <3>2. /\ obj'.waiters = obj.waiters
          /\ obj'.size = obj.size /\ obj'.complete = obj.complete
          /\ obj.waiters # {} => obj'.file = obj.file
      BY <1>0, <1>10, <2>2, <3>1, ReleasedFacts DEF CloseReader
    <3> QED BY <1>0, <2>1, <3>2, WaitersKept
  <2>3. CASE ~(obj.readerCount > 0)
    <3>1. obj' = obj
      BY <1>0, <1>10, <2>3 DEF CloseReader, Released, ObjectType
    <3> QED BY <1>0, <2>1, <3>1, WaitersKept
  <2> QED BY <2>2, <2>3
<1>11. CASE UNCHANGED vars
  BY <1>0, <1>11, WaitersKept DEF vars
<1> QED
  BY <1>1, <1>2, <1>3, <1>4, <1>5, <1>6, <1>7, <1>8, <1>9, <1>10, <1>11
  DEF Next

-----------------------------------------------------------------------------
(* Offsets *)

\* A step that shrinks nothing and moves no offset keeps the invariant.
LEMMA OffsetsKept ==
    ASSUME TypeOK, OffsetWithinSize, offset' = offset,
           obj'.size \in Nat, obj'.size >= obj.size,
           ~obj'.complete => ~obj.complete
    PROVE  OffsetWithinSize'
  BY MaxBytesAssumption DEF OffsetWithinSize, TypeOK, ObjectType

\* Every step keeps OffsetWithinSize.
LEMMA OffsetStep ==
    TypeOK /\ TypeOK' /\ OffsetWithinSize /\ [Next]_vars => OffsetWithinSize'
<1> SUFFICES ASSUME TypeOK, TypeOK', OffsetWithinSize, [Next]_vars
             PROVE  OffsetWithinSize'
  OBVIOUS
<1>0. /\ obj \in ObjectType /\ obj.size \in Nat /\ obj'.size \in Nat
      /\ \A r \in Readers : offset[r] \in Nat
  BY MaxBytesAssumption DEF TypeOK, ObjectType
<1>1. ASSUME NEW n \in 0 .. MaxBytes, Write(n) \/ WriteFails(n)
      PROVE  OffsetWithinSize'
  <2>1. obj' = Written(obj, n) /\ offset' = offset /\ obj.size + n <= MaxBytes
    BY <1>1 DEF Write, WriteFails
  <2>2. obj'.size = obj.size + n /\ obj'.complete = obj.complete
    BY <1>0, <2>1, WrittenFacts
  <2> QED BY <1>0, <2>1, <2>2, OffsetsKept, MaxBytesAssumption
<1>2. CASE SetComplete
  BY <1>0, <1>2, CompletedFacts DEF SetComplete, OffsetWithinSize
<1>3. CASE Close \/ CloseForEviction
  BY <1>0, <1>3, ClosedFacts, OffsetsKept DEF Close, CloseForEviction
<1>4. ASSUME NEW r \in Readers, OpenReader(r) PROVE OffsetWithinSize'
  <2>1. obj'.size = obj.size /\ obj'.complete = obj.complete
    BY <1>0, <1>4, UsedFacts DEF OpenReader
  <2>2. \A s \in Readers : offset'[s] = IF s = r THEN 0 ELSE offset[s]
    BY <1>4 DEF OpenReader, TypeOK
  <2> QED BY <1>0, <2>1, <2>2 DEF OffsetWithinSize
<1>5. ASSUME NEW r \in Readers, Read(r) \/ Wake(r) PROVE OffsetWithinSize'
  <2>1. ReadStep(r)
    BY <1>5 DEF Read, Wake
  <2>2. ASSUME NEW k \in 1 .. MaxBytes, ReadData(r, k) PROVE OffsetWithinSize'
    <3>1. k \in Nat /\ offset[r] + k <= obj.size /\ obj' = obj
      BY <1>0, <2>2, MaxBytesAssumption DEF ReadData
    <3>2. \A s \in Readers : offset'[s] = IF s = r THEN offset[r] + k
                                                   ELSE offset[s]
      BY <2>2 DEF ReadData, TypeOK
    <3> QED BY <3>1, <3>2 DEF OffsetWithinSize
  <2>3. CASE ReadEnds(r)
    BY <1>0, <2>3, OffsetsKept DEF ReadEnds
  <2>4. CASE ReadBlocks(r)
    BY <1>0, <2>4, WaitingFacts, OffsetsKept DEF ReadBlocks
  <2> QED BY <2>1, <2>2, <2>3, <2>4 DEF ReadStep
<1>6. ASSUME NEW r \in Readers, Cancelled(r) PROVE OffsetWithinSize'
  <2>1. obj'.size = obj.size /\ obj'.complete = obj.complete
    BY <1>0, <1>6 DEF Cancelled, ObjectType
  <2> QED BY <1>0, <1>6, <2>1, OffsetsKept DEF Cancelled
<1>7. ASSUME NEW r \in Readers, Disconnect(r) \/ StopReading(r)
      PROVE  OffsetWithinSize'
  BY <1>0, <1>7, OffsetsKept DEF Disconnect, StopReading
<1>8. ASSUME NEW r \in Readers, NEW off \in 0 .. MaxBytes, Seek(r, off)
      PROVE  OffsetWithinSize'
  BY <1>8 DEF Seek, OffsetWithinSize
<1>9. ASSUME NEW r \in Readers, CloseReader(r) PROVE OffsetWithinSize'
  <2>1. CASE obj.readerCount > 0
    BY <1>0, <1>9, <2>1, ReleasedFacts, OffsetsKept DEF CloseReader
  <2>2. CASE ~(obj.readerCount > 0)
    <3>1. obj' = obj
      BY <1>0, <1>9, <2>2 DEF CloseReader, Released, ObjectType
    <3> QED BY <1>0, <1>9, <3>1, OffsetsKept DEF CloseReader
  <2> QED BY <2>1, <2>2
<1>10. CASE UNCHANGED vars
  BY <1>0, <1>10, OffsetsKept DEF vars
<1> QED
  BY <1>1, <1>2, <1>3, <1>4, <1>5, <1>6, <1>7, <1>8, <1>9, <1>10 DEF Next

-----------------------------------------------------------------------------
(* The file under the readers *)

\* A step that keeps the file and opens no reader keeps the file's bond.
LEMMA OutlivesKept ==
    ASSUME FileOutlivesReaders, closed' = closed, obj'.file = obj.file,
           OpenReaders' # {} => OpenReaders # {}
    PROVE  FileOutlivesReaders'
  BY DEF FileOutlivesReaders

\* Every step keeps FileOutlivesReaders.
LEMMA OutlivesStep ==
    /\ TypeOK
    /\ ReaderCountExact /\ ReaderCountExact'
    /\ FileOutlivesReaders
    /\ [Next]_vars
    => FileOutlivesReaders'
<1> SUFFICES ASSUME TypeOK, ReaderCountExact, ReaderCountExact',
                    FileOutlivesReaders, [Next]_vars
             PROVE  FileOutlivesReaders'
  OBVIOUS
<1>0. obj \in ObjectType /\ IsFiniteSet(OpenReaders)
  BY OpenReadersFinite DEF TypeOK
<1>1. ASSUME NEW n \in 0 .. MaxBytes, Write(n) \/ WriteFails(n)
      PROVE  FileOutlivesReaders'
  BY <1>0, <1>1, WrittenFacts, OutlivesKept DEF Write, WriteFails, OpenReaders
<1>2. CASE SetComplete
  BY <1>0, <1>2, CompletedFacts, OutlivesKept DEF SetComplete, OpenReaders
<1>3. CASE Close
  BY <1>3 DEF Close, FileOutlivesReaders
<1>4. CASE CloseForEviction
  <2>1. obj.readerCount = 0
    BY <1>0, <1>4 DEF CloseForEviction, Evictable, ObjectType
  <2>2. OpenReaders = {}
    BY <1>0, <2>1, FS_EmptySet DEF ReaderCountExact
  <2> QED BY <1>4, <2>2 DEF CloseForEviction, OpenReaders, FileOutlivesReaders
<1>5. ASSUME NEW r \in Readers, OpenReader(r) PROVE FileOutlivesReaders'
  BY <1>0, <1>5, UsedFacts, FileAssumption DEF OpenReader, FileOutlivesReaders
<1>6. ASSUME NEW r \in Readers, Read(r) \/ Wake(r) PROVE FileOutlivesReaders'
  <2>1. ReadStep(r) /\ r \in OpenReaders
    BY <1>6 DEF Read, Wake, OpenReaders
  <2>2. ASSUME NEW k \in 1 .. MaxBytes, ReadData(r, k)
        PROVE  FileOutlivesReaders'
    BY <2>1, <2>2, OutlivesKept DEF ReadData
  <2>3. CASE ReadEnds(r)
    BY <2>1, <2>3, OutlivesKept DEF ReadEnds
  <2>4. CASE ReadBlocks(r)
    BY <1>0, <2>1, <2>4, WaitingFacts, OutlivesKept DEF ReadBlocks
  <2> QED BY <2>1, <2>2, <2>3, <2>4 DEF ReadStep
<1>7. ASSUME NEW r \in Readers, Cancelled(r) PROVE FileOutlivesReaders'
  <2>1. r \in OpenReaders /\ obj'.file = obj.file /\ closed' = closed
    BY <1>0, <1>7 DEF Cancelled, OpenReaders, ObjectType
  <2> QED BY <2>1, OutlivesKept
<1>8. ASSUME NEW r \in Readers, Disconnect(r) PROVE FileOutlivesReaders'
  BY <1>8, OutlivesKept DEF Disconnect, OpenReaders
<1>9. ASSUME NEW r \in Readers, StopReading(r) PROVE FileOutlivesReaders'
  <2>1. r \in OpenReaders /\ obj' = obj /\ closed' = closed
    BY <1>9 DEF StopReading, OpenReaders
  <2> QED BY <2>1, OutlivesKept
<1>10. ASSUME NEW r \in Readers, NEW off \in 0 .. MaxBytes, Seek(r, off)
       PROVE  FileOutlivesReaders'
  BY <1>10, OutlivesKept DEF Seek, OpenReaders
<1>11. ASSUME NEW r \in Readers, CloseReader(r) PROVE FileOutlivesReaders'
  <2>1. r \in OpenReaders /\ OpenReaders' \subseteq OpenReaders
        /\ obj' = Released(obj) /\ closed' = closed
    BY <1>11 DEF CloseReader, OpenReaders, TypeOK
  <2>2. obj.readerCount > 0
    <3>1. Cardinality(OpenReaders) \in Nat /\ Cardinality(OpenReaders) # 0
      BY <1>0, <2>1, FS_CardinalityType, FS_EmptySet
    <3> QED BY <3>1 DEF ReaderCountExact
  <2>3. CASE obj.readerCount = 1
    <3>1. obj'.readerCount = 0
      BY <1>0, <2>1, <2>2, <2>3, ReleasedFacts
    <3>2. IsFiniteSet(OpenReaders')
      BY <1>0, <2>1, FS_Subset
    <3>3. OpenReaders' = {}
      BY <3>1, <3>2, FS_EmptySet DEF ReaderCountExact
    <3> QED BY <3>3 DEF FileOutlivesReaders
  <2>4. CASE obj.readerCount # 1
    BY <1>0, <2>1, <2>2, <2>4, ReleasedFacts, OutlivesKept
  <2> QED BY <2>3, <2>4
<1>12. CASE UNCHANGED vars
  BY <1>12, OutlivesKept DEF vars, OpenReaders
<1> QED
  BY <1>1, <1>2, <1>3, <1>4, <1>5, <1>6, <1>7, <1>8, <1>9, <1>10, <1>11, <1>12
  DEF Next

-----------------------------------------------------------------------------
(* The theorems *)

\* The initial object: open, empty, nobody reads it.
LEMMA InvInit == Init => Inv
<1> SUFFICES ASSUME Init PROVE Inv
  OBVIOUS
<1>1. TypeOK
  BY InitType
<1>2. OpenReaders = {}
  BY DEF Init, OpenReaders
<1>3. ReaderCountExact
  BY <1>2, FS_EmptySet DEF Init, NewObject, ReaderCountExact
<1>4. NoLostWakeup /\ OffsetWithinSize
  BY DEF Init, NewObject, NoLostWakeup, OffsetWithinSize
<1>5. FileOutlivesReaders
  BY <1>2 DEF FileOutlivesReaders
<1> QED BY <1>1, <1>3, <1>4, <1>5 DEF Inv

(***************************************************************************)
(* Inv is inductive, so all its conjuncts hold in every reachable state.   *)
(***************************************************************************)
THEOREM InvInvariant == Spec => []Inv
<1>1. Inv /\ [Next]_vars => Inv'
  BY TypeStep, CountStep, WakeupStep, OffsetStep, OutlivesStep DEF Inv
<1> QED BY <1>1, InvInit, PTL DEF Spec

(***************************************************************************)
(* No reader is ever left blocked on a channel nobody will close although  *)
(* there is something for it to do (signalDataChanged, waitForData).       *)
(***************************************************************************)
THEOREM NoLostWakeupInvariant == Spec => []NoLostWakeup
<1>1. Inv => NoLostWakeup
  BY DEF Inv
<1> QED BY <1>1, InvInvariant, PTL

(***************************************************************************)
(* readerCount is the number of readers between UseFile and ReleaseFile.   *)
(***************************************************************************)
THEOREM ReaderCountInvariant == Spec => []ReaderCountExact
<1>1. Inv => ReaderCountExact
  BY DEF Inv
<1> QED BY <1>1, InvInvariant, PTL

(***************************************************************************)
(* As long as an object is being written none of its readers stands past   *)
(* the bytes written, so Read never asks ReadAt for a negative length.     *)
(***************************************************************************)
THEOREM OffsetInvariant == Spec => []OffsetWithinSize
<1>1. Inv => OffsetWithinSize
  BY DEF Inv
<1> QED BY <1>1, InvInvariant, PTL

(***************************************************************************)
(* The file of an object stays open under its readers until Close is       *)
(* called: no eviction and no other reader's ReleaseFile takes it.         *)
(***************************************************************************)
THEOREM FileOutlivesReadersHolds == Spec => []FileOutlivesReaders
<1>1. Inv => FileOutlivesReaders
  BY DEF Inv
<1> QED BY <1>1, InvInvariant, PTL

-----------------------------------------------------------------------------
(***************************************************************************)
(* What CacheClean promises, for any objects, sizes, ages and limits: the  *)
(* running total is exact, a sweep that ends above the limit could not     *)
(* have done better, and it takes no more than the limit asks for.         *)
(*                                                                         *)
(* The invariant says where each snapshot is: until the last loop begins   *)
(* every object with a snapshot is in the map, and in that loop all that   *)
(* it has not reached, the largest one excepted.  An eviction therefore    *)
(* takes away the bytes of exactly one snapshot, and nothing in the loop's *)
(* rest was used before what the loop has left behind.                     *)
(***************************************************************************)

Kept == {e \in entries : e.obj \in present}

\* An object has one snapshot, and none before the first loop has reached it.
Snapshots ==
    /\ \A e, f \in entries : e.obj = f.obj => e = f
    /\ sweep \in {"stats", "expire"} =>
          \A e \in entries : e.obj \notin todo /\ e.obj # victim
    /\ victim \notin todo
    /\ sweep = "expire" => victim # NoObject

\* Which of them are certainly still in the map.
StillThere ==
    /\ sweep \in {"stats", "expire", "largest"} => \A e \in entries : e.obj \in present
    /\ sweep \in {"stats", "expire"} => todo \subseteq present
    /\ sweep = "lru" => \A e \in rest : e.obj # largest => e.obj \in present

\* The largest idle object has a snapshot, of the size the sweep subtracts for it.
LargestKnown ==
    /\ largest # NoObject =>
          \E e \in entries : e.obj = largest /\ e.size = largestSize
    /\ sweep \in {"lru", "done"} /\ total > MaxSize /\ largest \in present
          /\ taken # largest => largest \in refused \/ 10 * MaxSize <= 3 * largestSize

\* What the last loop has passed by and could not evict.
Passed ==
    /\ sweep = "largest" => total > MaxSize
    /\ sweep \in {"lru", "done"} /\ total > MaxSize =>
          \A e \in entries \ rest :
              e.obj \in present => e.obj \in refused \cup {largest, taken}
    /\ sweep = "done" /\ total > MaxSize => rest = {}

\* The loop's rest was used after all that it has left behind.
Sorted ==
    sweep = "lru" => \A e \in rest, f \in entries \ rest : e.age <= f.age

\* The snapshot of the object that is being removed in the last loop: the total is
\* above the limit, and what was evicted before was used before it.
TakenLast(e) ==
    /\ e.obj = taken /\ e.size = credit /\ taken \in present
    /\ total > MaxSize
    /\ taken = largest => \A f \in entries : f.obj \in present
    /\ taken # largest =>
          /\ e \notin rest
          /\ \A f \in entries : f.obj \notin present \cup {largest} => e.age <= f.age
          /\ \A f \in entries : f.age > e.age => f \notin rest

\* The object that is being removed: an expired one has no snapshot.
TakenKnown ==
    /\ sweep \in {"expire", "largest", "done"} => taken = NoObject
    /\ sweep = "stats" /\ taken # NoObject =>
          credit = 0 /\ taken \notin todo /\ \A e \in entries : e.obj # taken
    /\ sweep = "lru" /\ taken # NoObject => \E e \in entries : TakenLast(e)

CleanInv ==
    /\ CleanTypeOK
    /\ IsFiniteSet(Bytes(entries))
    /\ TotalExact
    /\ Snapshots
    /\ StillThere
    /\ LargestKnown
    /\ Passed
    /\ Sorted
    /\ TakenKnown
    /\ EvictsOldestFirst

-----------------------------------------------------------------------------
(* The bytes of a set of snapshots *)

\* One more snapshot adds as many bytes as it has.
LEMMA BytesAdd ==
    ASSUME NEW S, NEW e, e \notin S, e.size \in Nat, IsFiniteSet(Bytes(S))
    PROVE  /\ IsFiniteSet(Bytes(S \cup {e}))
           /\ Cardinality(Bytes(S \cup {e})) = Cardinality(Bytes(S)) + e.size
<1> DEFINE new == {e} \X (1 .. e.size)
<1>1. Bytes(S \cup {e}) = Bytes(S) \cup new
  BY DEF Bytes
<1>2. IsFiniteSet(1 .. e.size) /\ Cardinality(1 .. e.size) = e.size
  BY FS_Interval, SMTT(30)
<1>3. IsFiniteSet({e}) /\ Cardinality({e}) = 1
  BY FS_Singleton
<1>4. IsFiniteSet(new) /\ Cardinality(new) = e.size
  <2>1. IsFiniteSet(new) /\ Cardinality(new) = Cardinality({e}) * Cardinality(1 .. e.size)
    BY <1>2, <1>3, FS_Product, Zenon
  <2>2. \A k \in Nat : 1 * k = k
    OBVIOUS
  <2> QED BY <1>2, <1>3, <2>1, <2>2
<1>5. Bytes(S) \cap new = {}
  BY DEF Bytes
<1> HIDE DEF new
<1>6. Cardinality(Bytes(S)) \in Nat
  BY FS_CardinalityType
<1>7. Cardinality({}) = 0
  BY FS_EmptySet
<1>8. /\ IsFiniteSet(Bytes(S) \cup new)
      /\ Cardinality(Bytes(S) \cup new) =
            Cardinality(Bytes(S)) + Cardinality(new) - Cardinality(Bytes(S) \cap new)
  BY <1>4, FS_Union
<1>9. Cardinality(Bytes(S) \cap new) = 0
  BY <1>5, <1>7, Zenon
<1>10. Cardinality(Bytes(S) \cup new) = Cardinality(Bytes(S)) + e.size
  BY <1>4, <1>6, <1>8, <1>9
<1> QED BY <1>1, <1>8, <1>10, Zenon

\* Fewer snapshots have no more bytes.
LEMMA BytesSubset ==
    ASSUME NEW T, IsFiniteSet(Bytes(T)), NEW S \in SUBSET T
    PROVE  IsFiniteSet(Bytes(S)) /\ Cardinality(Bytes(S)) \in Nat
<1>1. Bytes(S) \subseteq Bytes(T)
  BY DEF Bytes
<1> QED BY <1>1, FS_Subset, FS_CardinalityType

\* More snapshots have no fewer bytes.
LEMMA BytesMonotone ==
    ASSUME NEW T, IsFiniteSet(Bytes(T)), NEW S \in SUBSET T
    PROVE  Cardinality(Bytes(S)) <= Cardinality(Bytes(T))
<1>1. Bytes(S) \subseteq Bytes(T)
  BY DEF Bytes
<1> QED BY <1>1, FS_Subset

\* The total is that of the snapshots of what is in the map.
LEMMA TotalKept ==
    ASSUME CleanInv
    PROVE  total = Cardinality(Bytes(Kept)) /\ Kept \subseteq entries /\ IsFiniteSet(Bytes(Kept))
<1>1. Kept \in SUBSET entries
  BY DEF Kept
<1>2. IsFiniteSet(Bytes(Kept))
  BY <1>1, BytesSubset DEF CleanInv
<1> QED BY <1>1, <1>2 DEF CleanInv, TotalExact, Kept

\* As long as everything is in the map there is nothing to say of evictions.
LEMMA NothingEvicted ==
    ASSUME \A e \in entries : e.obj \in present
    PROVE  EvictsOldestFirst
  BY DEF EvictsOldestFirst

\* A step that evicts nothing keeps what was evicted in order.
LEMMA OrderKept ==
    ASSUME EvictsOldestFirst, UNCHANGED <<entries, present, largest>>, refused \subseteq refused'
    PROVE  EvictsOldestFirst'
<1> SUFFICES ASSUME NEW e \in entries, e.obj \notin present
             PROVE  /\ MaxSize < Cardinality(Bytes(LeftBeside(e)'))
                    /\ e.obj # largest =>
                          \A f \in entries : f.age > e.age /\ f.obj \in present =>
                                                  f.obj \in refused' \cup {largest}
  BY DEF EvictsOldestFirst
<1>1. LeftBeside(e)' = LeftBeside(e)
  BY DEF LeftBeside
<1> QED BY <1>1 DEF EvictsOldestFirst

\* What the first half of an eviction does: the object is taken, or a reader holds it
\* and it is on record as refused.
LEMMA CloseFacts ==
    ASSUME CleanTypeOK, NEW o \in Objects, NEW n \in Nat, CloseIfIdle(o, n)
    PROVE  /\ total' = total
           /\ refused \subseteq refused' /\ refused' \subseteq Objects
           /\ taken' \in Objects \cup {NoObject} /\ credit' \in Nat
           /\ \/ taken' = o /\ credit' = n
              \/ taken' = taken /\ credit' = credit /\ o \in refused'
<1>1. CASE readers[o] > 0 /\ refused' = refused \cup {o} /\ UNCHANGED <<evicting, total>>
  BY <1>1 DEF CleanTypeOK, evicting
<1>2. CASE taken' = o /\ credit' = n /\ UNCHANGED <<refused, total>>
  BY <1>2 DEF CleanTypeOK
<1> QED BY <1>1, <1>2 DEF CloseIfIdle

-----------------------------------------------------------------------------
(* Each step keeps CleanInv *)

\* The first loop skips an object that has expired, to evict it.
LEMMA StatExpiredStep ==
    ASSUME CleanInv, NEW o \in Objects, StatExpired(o)
    PROVE  CleanInv'
<1>1. /\ sweep = "stats" /\ taken = NoObject
      /\ o \in todo /\ todo' = todo \ {o} /\ victim' = o /\ sweep' = "expire"
      /\ UNCHANGED <<size, age, readers, present, taken, credit, entries, rest, total, largest,
                     largestSize, refused>>
  BY DEF StatExpired, objects, evicting
<1>2. CleanTypeOK'
  BY <1>1 DEF CleanInv, CleanTypeOK
<1>3. IsFiniteSet(Bytes(entries))' /\ TotalExact' /\ LargestKnown'
  BY <1>1 DEF CleanInv, TotalExact, LargestKnown
<1>4. Snapshots'
  BY <1>1, CleanAssumption DEF CleanInv, Snapshots
<1>5. StillThere' /\ Passed' /\ Sorted'
  BY <1>1 DEF CleanInv, StillThere, Passed, Sorted
<1>6. TakenKnown'
  BY <1>1 DEF CleanInv, TakenKnown
<1>7. EvictsOldestFirst'
  BY <1>1, OrderKept DEF CleanInv
<1> QED BY <1>2, <1>3, <1>4, <1>5, <1>6, <1>7 DEF CleanInv

\* The first loop takes the snapshot of an object and adds its size to the total.
LEMMA StatKeptStep ==
    ASSUME CleanInv, NEW o \in Objects, StatKept(o)
    PROVE  CleanInv'
<1> DEFINE e == [obj |-> o, size |-> size[o], age |-> age[o]]
           bigger == /\ readers[o] <= 0
                     /\ age[o] > HalfHour
                     /\ largest = NoObject \/ size[o] > largestSize
<1>1. /\ sweep = "stats" /\ taken = NoObject /\ o \in todo /\ todo' = todo \ {o}
      /\ largest' = IF bigger THEN o ELSE largest
      /\ largestSize' = IF bigger THEN size[o] ELSE largestSize
      /\ total' = total + size[o]
      /\ entries' = entries \cup {e}
      /\ UNCHANGED <<size, age, readers, present, sweep, victim, taken, credit, rest, refused>>
  BY DEF StatKept, objects, evicting
<1>2. /\ size[o] \in Sizes /\ size[o] \in Nat /\ age[o] \in Ages /\ total \in Nat
      /\ e \in [obj : Objects, size : Sizes, age : Ages] /\ e.obj = o /\ e.size = size[o]
  BY CleanAssumption DEF CleanInv, CleanTypeOK
<1>3. o \in present /\ e \notin entries
  BY <1>1, <1>2 DEF CleanInv, Snapshots, StillThere
<1>4. IsFiniteSet(Bytes(entries'))
  BY <1>1, <1>2, <1>3, BytesAdd DEF CleanInv
<1>5. Kept' = Kept \cup {e} /\ e \notin Kept
  BY <1>1, <1>2, <1>3 DEF Kept
<1> HIDE DEF e, bigger
<1>6. total' = Cardinality(Bytes(Kept'))
  <2>1. total = Cardinality(Bytes(Kept)) /\ IsFiniteSet(Bytes(Kept))
    BY TotalKept
  <2>2. Cardinality(Bytes(Kept \cup {e})) = Cardinality(Bytes(Kept)) + e.size
    BY <1>2, <1>5, <2>1, BytesAdd
  <2> QED BY <1>1, <1>2, <1>5, <2>1, <2>2
<1>7. CleanTypeOK'
  BY <1>1, <1>2 DEF CleanInv, CleanTypeOK
<1>8. TotalExact'
  BY <1>6 DEF TotalExact, Kept
<1>9. Snapshots'
  BY <1>1, <1>2 DEF CleanInv, Snapshots
<1>10. StillThere' /\ Passed' /\ Sorted'
  BY <1>1, <1>2, <1>3 DEF CleanInv, StillThere, Passed, Sorted
<1>11. LargestKnown'
  BY <1>1, <1>2 DEF CleanInv, LargestKnown
<1>12. TakenKnown'
  BY <1>1 DEF CleanInv, TakenKnown
<1>13. EvictsOldestFirst'
  <2>1. \A f \in entries' : f.obj \in present'
    BY <1>1, <1>2, <1>3 DEF CleanInv, StillThere
  <2> QED BY <2>1 DEF EvictsOldestFirst
<1> QED BY <1>4, <1>7, <1>8, <1>9, <1>10, <1>11, <1>12, <1>13 DEF CleanInv

\* The first half of the eviction of an object that has expired, of which there is no
\* snapshot.
LEMMA EvictExpiredStep ==
    ASSUME CleanInv, EvictExpired
    PROVE  CleanInv'
<1>1. /\ sweep = "expire" /\ CloseIfIdle(victim, 0) /\ victim' = NoObject /\ sweep' = "stats"
      /\ UNCHANGED <<size, age, readers, present, todo, entries, rest, largest, largestSize>>
  BY DEF EvictExpired, objects
<1>2. victim \in Objects /\ victim \notin todo /\ \A e \in entries : e.obj # victim
  BY <1>1 DEF CleanInv, CleanTypeOK, Snapshots
<1>3. taken = NoObject
  BY <1>1 DEF CleanInv, TakenKnown
<1>4. /\ total' = total /\ refused \subseteq refused' /\ refused' \subseteq Objects
      /\ taken' \in Objects \cup {NoObject} /\ credit' \in Nat
      /\ \/ taken' = victim /\ credit' = 0
         \/ taken' = NoObject
  BY <1>1, <1>2, <1>3, CloseFacts DEF CleanInv
<1>5. \A e \in entries : e.obj \in Objects
  BY DEF CleanInv, CleanTypeOK
<1>6. todo \subseteq Objects /\ NoObject \notin Objects
  BY CleanAssumption DEF CleanInv, CleanTypeOK
<1>7. CleanTypeOK'
  BY <1>1, <1>4 DEF CleanInv, CleanTypeOK
<1>8. IsFiniteSet(Bytes(entries))' /\ TotalExact'
  BY <1>1, <1>4 DEF CleanInv, TotalExact
<1>9. Snapshots'
  BY <1>1, <1>5, <1>6 DEF CleanInv, Snapshots
<1>10. StillThere' /\ LargestKnown' /\ Passed' /\ Sorted'
  BY <1>1 DEF CleanInv, StillThere, LargestKnown, Passed, Sorted
<1>11. TakenKnown'
  BY <1>1, <1>2, <1>4, <1>6 DEF TakenKnown
<1>12. EvictsOldestFirst'
  BY <1>1, <1>4, OrderKept DEF CleanInv
<1> QED BY <1>7, <1>8, <1>9, <1>10, <1>11, <1>12 DEF CleanInv

\* The end of the first loop, which is the end of the sweep of a cache within its limit.
LEMMA StatsDoneStep ==
    ASSUME CleanInv, StatsDone
    PROVE  CleanInv'
<1>1. /\ sweep = "stats" /\ sweep' = (IF total <= MaxSize THEN "done" ELSE "largest")
      /\ taken = NoObject
      /\ UNCHANGED <<size, age, readers, present, todo, victim, taken, credit, entries, rest,
                     total, largest, largestSize, refused>>
  BY DEF StatsDone, objects, evicting
<1>2. total \in Nat /\ MaxSize \in Nat
  BY CleanAssumption DEF CleanInv, CleanTypeOK
<1>3. CleanTypeOK'
  BY <1>1 DEF CleanInv, CleanTypeOK
<1>4. IsFiniteSet(Bytes(entries))' /\ TotalExact' /\ Snapshots'
  BY <1>1 DEF CleanInv, TotalExact, Snapshots
<1>5. StillThere' /\ Sorted' /\ TakenKnown'
  BY <1>1 DEF CleanInv, StillThere, Sorted, TakenKnown
<1>6. Passed' /\ LargestKnown'
  BY <1>1, <1>2 DEF CleanInv, Passed, LargestKnown
<1>7. EvictsOldestFirst'
  BY <1>1, OrderKept DEF CleanInv
<1> QED BY <1>3, <1>4, <1>5, <1>6, <1>7 DEF CleanInv

\* The largest idle object is tried first, unless it is too large.
LEMMA EvictLargestStep ==
    ASSUME CleanInv, EvictLargest
    PROVE  CleanInv'
<1>1. /\ sweep = "largest" /\ sweep' = "lru" /\ rest' = entries
      /\ UNCHANGED <<size, age, readers, present, todo, victim, entries, largest, largestSize>>
  BY DEF EvictLargest, objects
<1>2. /\ \A e \in entries : e.obj \in present
      /\ taken = NoObject /\ total > MaxSize
      /\ todo \subseteq Objects /\ NoObject \notin Objects /\ present \subseteq Objects
      /\ MaxSize \in Nat /\ largestSize \in Nat
  BY <1>1, CleanAssumption DEF CleanInv, StillThere, TakenKnown, Passed, CleanTypeOK
<1>3. /\ total' = total /\ refused \subseteq refused' /\ refused' \subseteq Objects
      /\ taken' \in Objects \cup {NoObject} /\ credit' \in Nat
      /\ \/ largest # NoObject /\ taken' = largest /\ credit' = largestSize
         \/ taken' = NoObject
      /\ largest \in present /\ taken' # largest =>
            largest \in refused' \/ 10 * MaxSize <= 3 * largestSize
  <2>1. CASE WorthEvictingFirst
    <3>1. largest \in Objects /\ largest # NoObject /\ CloseIfIdle(largest, largestSize)
      BY <2>1 DEF WorthEvictingFirst, EvictLargest, CleanInv, CleanTypeOK
    <3> QED BY <1>2, <3>1, CloseFacts DEF CleanInv
  <2>2. CASE ~WorthEvictingFirst
    <3>1. UNCHANGED <<taken, credit, refused, total>>
      BY <2>2 DEF EvictLargest, evicting
    <3>2. largest \in present => 10 * MaxSize <= 3 * largestSize
      BY <1>2, <2>2 DEF WorthEvictingFirst
    <3>3. refused \subseteq Objects /\ taken \in Objects \cup {NoObject} /\ credit \in Nat
      BY DEF CleanInv, CleanTypeOK
    <3> QED BY <1>2, <3>1, <3>2, <3>3
  <2> QED BY <2>1, <2>2
<1>4. \A e \in entries : e.obj \in Objects
  BY DEF CleanInv, CleanTypeOK
<1>5. CleanTypeOK'
  BY <1>1, <1>3 DEF CleanInv, CleanTypeOK
<1>6. IsFiniteSet(Bytes(entries))' /\ TotalExact' /\ Snapshots'
  BY <1>1, <1>3 DEF CleanInv, TotalExact, Snapshots
<1>7. LargestKnown'
  BY <1>1, <1>3 DEF CleanInv, LargestKnown
<1>8. StillThere' /\ Passed' /\ Sorted'
  BY <1>1, <1>2 DEF StillThere, Passed, Sorted
<1>9. TakenKnown'
  <2>1. CASE largest # NoObject /\ taken' = largest /\ credit' = largestSize
    <3>1. PICK e \in entries : e.obj = largest /\ e.size = largestSize
      BY <2>1 DEF CleanInv, LargestKnown
    <3>2. TakenLast(e)'
      BY <1>1, <1>2, <1>3, <2>1, <3>1 DEF TakenLast
    <3> QED BY <1>1, <2>1, <3>1, <3>2 DEF TakenKnown
  <2>2. CASE taken' = NoObject
    BY <1>1, <1>2, <2>2 DEF TakenKnown
  <2> QED BY <1>3, <2>1, <2>2
<1>10. EvictsOldestFirst'
  BY <1>1, <1>3, OrderKept DEF CleanInv
<1> QED BY <1>5, <1>6, <1>7, <1>8, <1>9, <1>10 DEF CleanInv

\* The last loop comes to the object that was tried before it.
LEMMA SkipLargestStep ==
    ASSUME CleanInv, NEW e \in rest, SkipLargest(e)
    PROVE  CleanInv'
<1>1. /\ sweep = "lru" /\ taken = NoObject /\ e.obj = largest /\ rest' = rest \ {e}
      /\ \A f \in rest : f.age <= e.age
      /\ UNCHANGED <<size, age, readers, present, sweep, todo, victim, taken, credit, entries,
                     total, largest, largestSize, refused>>
  BY DEF SkipLargest, Oldest, objects, evicting
<1>2. CleanTypeOK'
  BY <1>1 DEF CleanInv, CleanTypeOK
<1>3. IsFiniteSet(Bytes(entries))' /\ TotalExact' /\ Snapshots' /\ LargestKnown'
  BY <1>1 DEF CleanInv, TotalExact, Snapshots, LargestKnown
<1>4. StillThere' /\ Sorted' /\ TakenKnown'
  BY <1>1 DEF CleanInv, StillThere, Sorted, TakenKnown
<1>5. Passed'
  BY <1>1 DEF CleanInv, Passed
<1>6. EvictsOldestFirst'
  BY <1>1, OrderKept DEF CleanInv
<1> QED BY <1>2, <1>3, <1>4, <1>5, <1>6 DEF CleanInv

\* The last loop tries to evict the next object.
LEMMA EvictOldestStep ==
    ASSUME CleanInv, NEW e \in rest, EvictOldest(e)
    PROVE  CleanInv'
<1>1. /\ sweep = "lru" /\ taken = NoObject /\ e.obj # largest /\ rest' = rest \ {e}
      /\ \A f \in rest : f.age <= e.age
      /\ total > MaxSize
      /\ CloseIfIdle(e.obj, e.size)
      /\ UNCHANGED <<size, age, readers, present, sweep, todo, victim, entries, largest,
                     largestSize>>
  BY DEF EvictOldest, Oldest, objects
<1>2. /\ \A f \in entries : f.obj \in Objects /\ f.age \in Nat
      /\ e \in entries /\ rest \subseteq entries /\ e.size \in Nat
      /\ \A f \in entries : f.obj = e.obj => f = e
      /\ e.obj \in present /\ present \subseteq Objects
      /\ NoObject \notin Objects
  <2>1. /\ entries \subseteq [obj : Objects, size : Sizes, age : Ages]
        /\ rest \subseteq entries /\ present \subseteq Objects
    BY DEF CleanInv, CleanTypeOK
  <2>2. Sizes \subseteq Nat /\ Ages \subseteq Nat /\ NoObject \notin Objects
    BY CleanAssumption DEF Ages
  <2>3. e.obj \in present /\ \A f \in entries : f.obj = e.obj => f = e
    BY <1>1, <2>1 DEF CleanInv, Snapshots, StillThere
  <2> QED BY <2>1, <2>2, <2>3
<1>3. /\ total' = total /\ refused \subseteq refused' /\ refused' \subseteq Objects
      /\ taken' \in Objects \cup {NoObject} /\ credit' \in Nat
      /\ \/ taken' = e.obj /\ credit' = e.size
         \/ taken' = NoObject /\ e.obj \in refused'
  BY <1>1, <1>2, CloseFacts DEF CleanInv
<1>4. CleanTypeOK'
  BY <1>1, <1>3 DEF CleanInv, CleanTypeOK
<1>5. IsFiniteSet(Bytes(entries))' /\ TotalExact' /\ Snapshots'
  BY <1>1, <1>3 DEF CleanInv, TotalExact, Snapshots
<1>6. LargestKnown'
  BY <1>1, <1>2, <1>3 DEF CleanInv, LargestKnown
<1>7. StillThere' /\ Sorted'
  BY <1>1 DEF CleanInv, StillThere, Sorted
<1>8. Passed'
  <2>1. \A f \in entries \ rest : f.obj \in present => f.obj \in refused \cup {largest, NoObject}
    BY <1>1 DEF CleanInv, Passed
  <2>2. \A f \in entries \ rest' : f.obj \in present => f.obj \in refused' \cup {largest, taken'}
    BY <1>1, <1>2, <1>3, <2>1
  <2> QED BY <1>1, <2>2 DEF Passed
<1>9. TakenKnown'
  <2>1. CASE taken' = e.obj /\ credit' = e.size
    <3>1. \A f \in entries : f.obj \notin present \cup {largest} => e.age <= f.age
      BY <1>1 DEF CleanInv, StillThere, Sorted
    <3>2. \A f \in entries : f.age > e.age => f \notin rest'
      BY <1>1, <1>2
    <3>3. TakenLast(e)'
      BY <1>1, <1>2, <1>3, <2>1, <3>1, <3>2 DEF TakenLast
    <3> QED BY <1>1, <1>2, <3>3 DEF TakenKnown
  <2>2. CASE taken' = NoObject
    BY <1>1, <2>2 DEF TakenKnown
  <2> QED BY <1>3, <2>1, <2>2
<1>10. EvictsOldestFirst'
  BY <1>1, <1>3, OrderKept DEF CleanInv
<1> QED BY <1>4, <1>5, <1>6, <1>7, <1>8, <1>9, <1>10 DEF CleanInv

\* The second half of the eviction of an object of which there is no snapshot.
LEMMA RemoveExpired ==
    ASSUME CleanInv, Remove, sweep = "stats"
    PROVE  CleanInv'
<1>1. /\ taken # NoObject /\ present' = present \ {taken} /\ total' = total - credit
      /\ taken' = NoObject
      /\ UNCHANGED <<size, age, readers, sweep, todo, victim, credit, entries, rest, largest,
                     largestSize, refused>>
  BY DEF Remove, objects
<1>2. /\ credit = 0 /\ taken \notin todo /\ \A e \in entries : e.obj # taken
      /\ total \in Nat
  BY <1>1 DEF CleanInv, TakenKnown, CleanTypeOK
<1>3. total' = total
  BY <1>1, <1>2
<1>4. Kept' = Kept
  BY <1>1, <1>2 DEF Kept
<1>5. IsFiniteSet(Bytes(entries))' /\ TotalExact'
  BY <1>1, <1>3, <1>4 DEF CleanInv, TotalExact, Kept
<1>6. CleanTypeOK'
  BY <1>1, <1>3 DEF CleanInv, CleanTypeOK
<1>7. Snapshots' /\ LargestKnown' /\ Passed' /\ Sorted' /\ TakenKnown'
  BY <1>1 DEF CleanInv, Snapshots, LargestKnown, Passed, Sorted, TakenKnown
<1>8. StillThere'
  BY <1>1, <1>2 DEF CleanInv, StillThere
<1>9. \A e \in entries' : e.obj \in present'
  BY <1>1, <1>2 DEF CleanInv, StillThere
<1>10. EvictsOldestFirst'
  BY <1>9 DEF EvictsOldestFirst
<1> QED BY <1>5, <1>6, <1>7, <1>8, <1>10 DEF CleanInv

\* The second half of the eviction of an object with a snapshot: its bytes go from the
\* total, and it was the next in order.
LEMMA RemoveCounted ==
    ASSUME CleanInv, Remove, sweep = "lru"
    PROVE  CleanInv'
<1>1. /\ taken # NoObject /\ present' = present \ {taken} /\ total' = total - credit
      /\ taken' = NoObject
      /\ UNCHANGED <<size, age, readers, sweep, todo, victim, credit, entries, rest, largest,
                     largestSize, refused>>
  BY DEF Remove, objects
<1>2. PICK e \in entries : TakenLast(e)
  BY <1>1 DEF CleanInv, TakenKnown
<1>3. /\ \A f \in entries : f.obj = e.obj => f = e
      /\ \A f \in entries : f.age \in Nat
      /\ rest \subseteq entries
      /\ e.obj = taken /\ e.size = credit /\ taken \in present /\ e.size \in Nat
      /\ total \in Nat /\ MaxSize \in Nat /\ total > MaxSize
  BY <1>2, CleanAssumption DEF CleanInv, Snapshots, TakenLast, CleanTypeOK, Ages
<1>4. e \notin Kept' /\ Kept = Kept' \cup {e} /\ Kept' \subseteq entries
  BY <1>1, <1>3 DEF Kept
<1>5. IsFiniteSet(Bytes(Kept')) /\ Cardinality(Bytes(Kept')) \in Nat
  BY <1>4, BytesSubset DEF CleanInv
<1>6. total = Cardinality(Bytes(Kept)) /\ IsFiniteSet(Bytes(Kept))
  BY TotalKept
<1>7. total' = Cardinality(Bytes(Kept')) /\ total' \in Nat /\ total' <= total
  <2>1. Cardinality(Bytes(Kept)) = Cardinality(Bytes(Kept')) + e.size
    BY <1>3, <1>4, <1>5, BytesAdd
  <2> QED BY <1>1, <1>3, <1>5, <1>6, <2>1
<1>8. CleanTypeOK'
  BY <1>1, <1>7 DEF CleanInv, CleanTypeOK
<1>9. IsFiniteSet(Bytes(entries))' /\ TotalExact'
  BY <1>1, <1>7 DEF CleanInv, TotalExact, Kept
<1>10. Snapshots' /\ Sorted' /\ TakenKnown'
  BY <1>1 DEF CleanInv, Snapshots, Sorted, TakenKnown
<1>11. LargestKnown'
  BY <1>1, <1>3 DEF CleanInv, LargestKnown
<1>12. Passed'
  <2>1. \A f \in entries \ rest : f.obj \in present => f.obj \in refused \cup {largest, taken}
    BY <1>3 DEF CleanInv, Passed
  <2> QED BY <1>1, <2>1 DEF Passed
<1>13. StillThere'
  <2>1. \A f \in rest : f.obj # largest => f.obj \in present /\ f.obj # taken
    BY <1>2, <1>3 DEF CleanInv, StillThere, TakenLast
  <2> QED BY <1>1, <2>1 DEF StillThere
<1>14. EvictsOldestFirst'
  <2>0. IsFiniteSet(Bytes(entries))
    BY DEF CleanInv
  <2> SUFFICES ASSUME NEW g \in entries, g.obj \notin present'
               PROVE  /\ MaxSize < Cardinality(Bytes(LeftBeside(g)'))
                      /\ g.obj # largest =>
                            \A f \in entries : f.age > g.age /\ f.obj \in present' =>
                                                    f.obj \in refused \cup {largest}
    BY <1>1 DEF EvictsOldestFirst
  <2>1. LeftBeside(g)' \in SUBSET entries
    BY <1>1 DEF LeftBeside
  <2>2. /\ IsFiniteSet(Bytes(LeftBeside(g)')) /\ Cardinality(Bytes(LeftBeside(g)')) \in Nat
    BY <2>0, <2>1, BytesSubset
  <2>3. CASE g.obj \notin present
    <3>1. /\ MaxSize < Cardinality(Bytes(LeftBeside(g)))
          /\ g.obj # largest =>
                \A f \in entries : f.age > g.age /\ f.obj \in present =>
                                        f.obj \in refused \cup {largest}
      BY <2>3 DEF CleanInv, EvictsOldestFirst
    <3>2. taken # largest
      BY <1>2, <2>3 DEF TakenLast
    <3>3. g.obj # largest => e.age <= g.age
      BY <1>2, <2>3, <3>2 DEF TakenLast
    <3>4. LeftBeside(g) \subseteq LeftBeside(g)'
      BY <1>1, <1>3, <3>2, <3>3 DEF LeftBeside
    <3>5. Cardinality(Bytes(LeftBeside(g))) <= Cardinality(Bytes(LeftBeside(g)'))
      BY <2>2, <3>4, BytesMonotone
    <3>6. Cardinality(Bytes(LeftBeside(g))) \in Nat
      BY <2>2, <3>4, BytesSubset
    <3>7. MaxSize < Cardinality(Bytes(LeftBeside(g)'))
      BY <1>3, <2>2, <3>1, <3>5, <3>6
    <3> QED BY <1>1, <3>1, <3>7
  <2>4. CASE g = e
    <3>1. Kept \subseteq LeftBeside(g)'
      BY <1>1, <1>3, <2>4 DEF LeftBeside, Kept
    <3>2. total <= Cardinality(Bytes(LeftBeside(g)'))
      BY <1>6, <2>2, <3>1, BytesMonotone
    <3>3. MaxSize < Cardinality(Bytes(LeftBeside(g)'))
      BY <1>3, <2>2, <3>2
    <3>4. ASSUME g.obj # largest, NEW f \in entries, f.age > g.age, f.obj \in present'
          PROVE  f.obj \in refused \cup {largest}
      <4>1. f \notin rest
        BY <1>2, <1>3, <2>4, <3>4 DEF TakenLast
      <4>2. f.obj \in refused \cup {largest, taken}
        BY <1>1, <1>3, <3>4, <4>1 DEF CleanInv, Passed
      <4> QED BY <1>1, <3>4, <4>2
    <3> QED BY <3>3, <3>4
  <2> QED BY <1>1, <1>3, <2>3, <2>4
<1> QED BY <1>8, <1>9, <1>10, <1>11, <1>12, <1>13, <1>14 DEF CleanInv

\* The second half of an eviction.
LEMMA RemoveStep ==
    ASSUME CleanInv, Remove
    PROVE  CleanInv'
<1>1. sweep \in {"stats", "lru"}
  BY DEF Remove, CleanInv, CleanTypeOK, TakenKnown
<1> QED BY <1>1, RemoveExpired, RemoveCounted

\* The last loop ends at its last snapshot or at the limit.
LEMMA CleanDoneStep ==
    ASSUME CleanInv, CleanDone
    PROVE  CleanInv'
<1>1. /\ sweep = "lru" /\ taken = NoObject /\ sweep' = "done" /\ (rest = {} \/ total <= MaxSize)
      /\ UNCHANGED <<size, age, readers, present, todo, victim, taken, credit, entries, rest,
                     total, largest, largestSize, refused>>
  BY DEF CleanDone, objects, evicting
<1>2. total \in Nat /\ MaxSize \in Nat
  BY CleanAssumption DEF CleanInv, CleanTypeOK
<1>3. CleanTypeOK'
  BY <1>1 DEF CleanInv, CleanTypeOK
<1>4. /\ IsFiniteSet(Bytes(entries))' /\ TotalExact' /\ Snapshots' /\ StillThere'
      /\ Sorted' /\ TakenKnown'
  BY <1>1 DEF CleanInv, TotalExact, Snapshots, StillThere, Sorted, TakenKnown
<1>5. Passed' /\ LargestKnown'
  BY <1>1, <1>2 DEF CleanInv, Passed, LargestKnown
<1>6. EvictsOldestFirst'
  BY <1>1, OrderKept DEF CleanInv
<1> QED BY <1>3, <1>4, <1>5, <1>6 DEF CleanInv

\* Readers that come and go and objects that grow touch nothing of the sweep.
LEMMA OthersStep ==
    ASSUME CleanInv,
           UNCHANGED <<present, sweep, todo, victim, taken, credit, entries, rest, total,
                       largest, largestSize, refused>>,
           size' \in [Objects -> Sizes], age' \in [Objects -> Ages],
           readers' \in [Objects -> {0, 1}]
    PROVE  CleanInv'
<1>1. CleanTypeOK'
  BY DEF CleanInv, CleanTypeOK
<1>2. IsFiniteSet(Bytes(entries))' /\ TotalExact' /\ LargestKnown' /\ Snapshots'
  BY DEF CleanInv, TotalExact, LargestKnown, Snapshots
<1>3. StillThere' /\ Passed' /\ Sorted'
  BY DEF CleanInv, StillThere, Passed, Sorted
<1>4. TakenKnown'
  BY DEF CleanInv, TakenKnown, TakenLast
<1>5. EvictsOldestFirst'
  BY OrderKept DEF CleanInv
<1> QED BY <1>1, <1>2, <1>3, <1>4, <1>5 DEF CleanInv

\* Every step of the sweep and of those who hold objects keeps CleanInv.
LEMMA CleanInvStep ==
    ASSUME CleanInv, [CleanNext]_cleanVars
    PROVE  CleanInv'
<1>1. /\ size \in [Objects -> Sizes] /\ age \in [Objects -> Ages]
      /\ readers \in [Objects -> {0, 1}] /\ 0 \in Ages
  BY CleanAssumption DEF CleanInv, CleanTypeOK, Ages
<1>2. ASSUME NEW o \in Objects, UseFile(o) PROVE CleanInv'
  BY <1>1, <1>2, OthersStep DEF UseFile, evicting
<1>3. ASSUME NEW o \in Objects, ReleaseFile(o) PROVE CleanInv'
  BY <1>1, <1>3, OthersStep DEF ReleaseFile, evicting
<1>4. ASSUME NEW o \in Objects, NEW n \in Sizes, Grow(o, n) PROVE CleanInv'
  BY <1>1, <1>4, OthersStep DEF Grow, evicting
<1>5. CASE UNCHANGED cleanVars
  BY <1>1, <1>5, OthersStep DEF cleanVars, objects, evicting
<1> QED
  BY <1>2, <1>3, <1>4, <1>5, StatExpiredStep, StatKeptStep, EvictExpiredStep, StatsDoneStep,
     EvictLargestStep, SkipLargestStep, EvictOldestStep, RemoveStep, CleanDoneStep
  DEF CleanNext, CleanStep

\* Nothing has been seen when a sweep begins, and everything is in the map.
LEMMA CleanInitHolds ==
    ASSUME CleanInit
    PROVE  CleanInv
<1>1. CleanTypeOK
  BY DEF CleanInit, CleanTypeOK
<1>2. Bytes({}) = {} /\ Kept = {} /\ entries = {}
  BY DEF CleanInit, Bytes, Kept
<1>3. IsFiniteSet(Bytes(entries)) /\ TotalExact
  BY <1>2, FS_EmptySet DEF CleanInit, TotalExact, Kept
<1>4. Snapshots /\ StillThere /\ LargestKnown /\ Passed
  BY <1>2, CleanAssumption DEF CleanInit, Snapshots, StillThere, LargestKnown, Passed
<1>5. Sorted /\ TakenKnown /\ EvictsOldestFirst
  BY <1>2 DEF CleanInit, Sorted, TakenKnown, EvictsOldestFirst
<1> QED BY <1>1, <1>3, <1>4, <1>5 DEF CleanInv

-----------------------------------------------------------------------------
(* The theorems *)

\* CleanInv, which says where every snapshot is at each point of a sweep, holds in
\* every reachable state.
THEOREM CleanInvInvariant == CleanSpec => []CleanInv
<1>1. CleanInit => CleanInv
  BY CleanInitHolds
<1>2. CleanInv /\ [CleanNext]_cleanVars => CleanInv'
  BY CleanInvStep
<1> QED BY <1>1, <1>2, PTL DEF CleanSpec

\* clean's running total is at all times the sum of the sizes it noted for what is
\* still in the map, whichever evictions readers prevented.
THEOREM TotalExactInvariant == CleanSpec => []TotalExact
<1>1. CleanInv => TotalExact
  BY DEF CleanInv
<1> QED BY <1>1, CleanInvInvariant, PTL

\* A sweep that ends above the limit has left in the map only what a reader kept it
\* from evicting, and possibly a largest idle object of at least 10/3 of the limit.
THEOREM CleanBoundedInvariant == CleanSpec => []CleanBounded
<1>1. CleanInv => CleanBounded
  <2> SUFFICES ASSUME CleanInv, sweep = "done", total > MaxSize,
                      NEW e \in entries, e.obj \in present, e.obj \notin refused
               PROVE  e.obj = largest /\ 10 * MaxSize <= 3 * e.size
    BY DEF CleanBounded
  <2>1. taken = NoObject /\ rest = {} /\ e.obj \in Objects /\ NoObject \notin Objects
    BY CleanAssumption DEF CleanInv, TakenKnown, Passed, CleanTypeOK
  <2>2. e.obj = largest
    BY <2>1 DEF CleanInv, Passed
  <2>3. e.size = largestSize
    BY <2>1, <2>2 DEF CleanInv, LargestKnown, Snapshots
  <2> QED BY <2>1, <2>2, <2>3 DEF CleanInv, LargestKnown
<1> QED BY <1>1, CleanInvInvariant, PTL

\* The last loop evicts in the order of use and only above the limit, with whatever
\* readers kept counted in.
THEOREM EvictsOldestFirstInvariant == CleanSpec => []EvictsOldestFirst
<1>1. CleanInv => EvictsOldestFirst
  BY DEF CleanInv
<1> QED BY <1>1, CleanInvInvariant, PTL

=============================================================================
