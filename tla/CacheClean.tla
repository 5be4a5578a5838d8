----------------------------- MODULE CacheClean -----------------------------
(***************************************************************************)
(* Cache.clean (cache/cache.go): which objects it evicts.                  *)
(*                                                                         *)
(* clean holds objectsLock, so the map only changes by its own evictions,  *)
(* but it takes each object's lock twice, once for the snapshot stats()    *)
(* takes and once in closeForEviction, and it removes the files and the    *)
(* map's entry after it has given that lock up.  Requests that already     *)
(* hold an object open and close readers in between, also on an object     *)
(* that is being removed; producers make the others grow.  What that means *)
(* for the files is CacheStore's subject; here it is what a sweep takes.   *)
(* Ages stand for time.Since(accessed); a sweep takes no time.             *)
(***************************************************************************)
EXTENDS Integers, FiniteSets

CONSTANTS Objects,
          Sizes,          \* bound: the sizes an object may have
          MaxSize,        \* Cache.maxSize
          HalfHour,       \* 30 * time.Minute
          MaxUnused,      \* Cache.maxUnusedTime
          NoObject

ASSUME CleanAssumption ==
    /\ IsFiniteSet(Objects)
    /\ Sizes \subseteq Nat
    /\ MaxSize \in Nat \ {0}
    /\ HalfHour \in Nat
    /\ MaxUnused \in Nat
    /\ HalfHour < MaxUnused
    /\ NoObject \notin Objects

Ages == 0 .. MaxUnused + 1

VARIABLES
    size, age, readers,   \* the objects' size, age and readerCount
    present,              \* the objects in the map
    sweep,                \* where clean is
    todo,                 \* objects the first loop has not reached yet
    victim,               \* object found to have expired, about to be evicted
    taken,                \* object evict has closed and not yet removed
    credit,               \* what the sweep subtracts when it is removed
    entries,              \* the snapshots, as a set of [obj, size, age]
    rest,                 \* the entries the last loop has not reached yet
    total,                \* size, the running total
    largest, largestSize,
    refused               \* history: objects closeForEviction refused

objects == <<size, age, readers>>
evicting == <<taken, credit>>
cleanVars == <<objects, present, sweep, todo, victim, evicting, entries, rest, total,
               largest, largestSize, refused>>

CleanInit ==
    /\ size \in [Objects -> Sizes]
    /\ age \in [Objects -> Ages]
    /\ readers \in [Objects -> {0, 1}]
    /\ present = Objects
    /\ sweep = "stats"
    /\ todo = Objects
    /\ victim = NoObject
    /\ taken = NoObject
    /\ credit = 0
    /\ entries = {}
    /\ rest = {}
    /\ total = 0
    /\ largest = NoObject
    /\ largestSize = 0
    /\ refused = {}

-----------------------------------------------------------------------------
(* The requests and producers that hold an object *)

\* An object that was taken can be used too, as long as its path can be opened.
UseFile(o) ==
    /\ sweep # "done"
    /\ readers[o] = 0
    /\ readers' = [readers EXCEPT ![o] = 1]
    /\ age' = [age EXCEPT ![o] = 0]
    /\ UNCHANGED <<size, present, sweep, todo, victim, evicting, entries, rest, total,
                   largest, largestSize, refused>>

ReleaseFile(o) ==
    /\ sweep # "done"
    /\ readers[o] = 1
    /\ readers' = [readers EXCEPT ![o] = 0]
    /\ UNCHANGED <<size, age, present, sweep, todo, victim, evicting, entries, rest,
                   total, largest, largestSize, refused>>

\* Write fails on an object whose file was closed.
Grow(o, n) ==
    /\ sweep # "done"
    /\ o \in present \ {taken}
    /\ size[o] < n
    /\ size' = [size EXCEPT ![o] = n]
    /\ UNCHANGED <<age, readers, present, sweep, todo, victim, evicting, entries, rest,
                   total, largest, largestSize, refused>>

-----------------------------------------------------------------------------
(* clean *)

Expired(o) == readers[o] <= 0 /\ age[o] > MaxUnused

\* The first loop, for an object that has not been used for too long.
StatExpired(o) ==
    /\ sweep = "stats" /\ taken = NoObject
    /\ o \in todo
    /\ Expired(o)
    /\ todo' = todo \ {o}
    /\ victim' = o
    /\ sweep' = "expire"
    /\ UNCHANGED <<objects, present, evicting, entries, rest, total, largest,
                   largestSize, refused>>

\* The first loop, for any other object.
StatKept(o) ==
    LET bigger == /\ readers[o] <= 0
                  /\ age[o] > HalfHour
                  /\ largest = NoObject \/ size[o] > largestSize
    IN  /\ sweep = "stats" /\ taken = NoObject
        /\ o \in todo
        /\ ~Expired(o)
        /\ todo' = todo \ {o}
        /\ largest' = IF bigger THEN o ELSE largest
        /\ largestSize' = IF bigger THEN size[o] ELSE largestSize
        /\ total' = total + size[o]
        /\ entries' = entries \cup {[obj |-> o, size |-> size[o], age |-> age[o]]}
        /\ UNCHANGED <<objects, present, sweep, victim, evicting, rest, refused>>

\* Mutant: the size is given back although a reader kept the object.
CloseIfIdleFreed(o, n) ==
    \/ /\ readers[o] > 0
       /\ refused' = refused \cup {o}
       /\ total' = total - n
       /\ UNCHANGED evicting
    \/ /\ readers[o] = 0
       /\ taken' = o
       /\ credit' = n
       /\ UNCHANGED <<refused, total>>

\* evict up to closeForEviction, which looks at readerCount again; n is what clean
\* subtracts if evict returns true.
CloseIfIdle(o, n) ==
    \/ /\ readers[o] > 0
       /\ refused' = refused \cup {o}
       /\ UNCHANGED <<evicting, total>>
    \/ /\ readers[o] = 0
       /\ taken' = o
       /\ credit' = n
       /\ UNCHANGED <<refused, total>>

\* The rest of evict: the files and the map's entry go, whoever uses the object now.
Remove ==
    /\ taken # NoObject
    /\ present' = present \ {taken}
    /\ total' = total - credit
    /\ taken' = NoObject
    /\ UNCHANGED <<objects, sweep, todo, victim, credit, entries, rest, largest,
                   largestSize, refused>>

EvictExpired ==
    /\ sweep = "expire"
    /\ CloseIfIdle(victim, 0)
    /\ victim' = NoObject
    /\ sweep' = "stats"
    /\ UNCHANGED <<objects, present, todo, entries, rest, largest, largestSize>>

StatsDone ==
    /\ sweep = "stats" /\ taken = NoObject
    /\ todo = {}
    /\ sweep' = IF total <= MaxSize THEN "done" ELSE "largest"
    /\ UNCHANGED <<objects, present, todo, victim, evicting, entries, rest, total,
                   largest, largestSize, refused>>

\* Mutant: an object that takes more than twice the limit stays.
WorthEvictingHalf == largest # NoObject /\ 2 * MaxSize > largestSize

\* maxSize / largestSize > 0.3, without the division.
WorthEvictingFirst == largest # NoObject /\ 10 * MaxSize > 3 * largestSize

EvictLargest ==
    /\ sweep = "largest"
    /\ IF WorthEvictingFirst THEN CloseIfIdle(largest, largestSize)
                             ELSE UNCHANGED <<evicting, refused, total>>
    /\ sweep' = "lru"
    /\ rest' = entries
    /\ UNCHANGED <<objects, present, todo, victim, entries, largest, largestSize>>

\* Mutant: the entries are sorted the other way round.
OldestSortedByUse(e) == e \in rest /\ \A f \in rest : e.age <= f.age

\* The entry the last loop is at: from the least recently used object on.
Oldest(e) == e \in rest /\ \A f \in rest : f.age <= e.age

\* The last loop, for the object that was tried before it.
SkipLargest(e) ==
    /\ sweep = "lru" /\ taken = NoObject
    /\ Oldest(e)
    /\ e.obj = largest
    /\ rest' = rest \ {e}
    /\ UNCHANGED <<objects, present, sweep, todo, victim, evicting, entries, total,
                   largest, largestSize, refused>>

\* The last loop, as long as the limit is not reached.
EvictOldest(e) ==
    /\ sweep = "lru" /\ taken = NoObject
    /\ Oldest(e)
    /\ e.obj # largest
    /\ total > MaxSize
    /\ rest' = rest \ {e}
    /\ CloseIfIdle(e.obj, e.size)
    /\ UNCHANGED <<objects, present, sweep, todo, victim, entries, largest, largestSize>>

CleanDone ==
    /\ sweep = "lru" /\ taken = NoObject
    /\ rest = {} \/ total <= MaxSize
    /\ sweep' = "done"
    /\ UNCHANGED <<objects, present, todo, victim, evicting, entries, rest, total,
                   largest, largestSize, refused>>

-----------------------------------------------------------------------------

CleanStep ==
    \/ \E o \in Objects : StatExpired(o) \/ StatKept(o)
    \/ EvictExpired \/ StatsDone \/ EvictLargest
    \/ \E e \in rest : SkipLargest(e) \/ EvictOldest(e)
    \/ Remove
    \/ CleanDone

CleanNext ==
    \/ CleanStep
    \/ \E o \in Objects : UseFile(o) \/ ReleaseFile(o)
    \/ \E o \in Objects, n \in Sizes : Grow(o, n)

CleanSpec == CleanInit /\ [][CleanNext]_cleanVars

-----------------------------------------------------------------------------
(* Properties *)

\* The types of the variables.
CleanTypeOK ==
    /\ size \in [Objects -> Sizes]
    /\ age \in [Objects -> Ages]
    /\ readers \in [Objects -> {0, 1}]
    /\ present \subseteq Objects
    /\ sweep \in {"stats", "expire", "largest", "lru", "done"}
    /\ todo \subseteq Objects
    /\ victim \in Objects \cup {NoObject}
    /\ taken \in Objects \cup {NoObject}
    /\ credit \in Nat
    /\ entries \subseteq [obj : Objects, size : Sizes, age : Ages]
    /\ rest \subseteq entries
    /\ total \in Nat
    /\ largest \in Objects \cup {NoObject}
    /\ largestSize \in Sizes \cup {0}
    /\ refused \subseteq Objects

\* The bytes of a set of snapshots, so that a sum of sizes is a cardinality.
Bytes(S) == UNION {{e} \X (1 .. e.size) : e \in S}

(***************************************************************************)
(* The running total is the sum of the snapshot sizes of what is still in  *)
(* the map, so the sweep stops for the right reason: an eviction a reader  *)
(* prevented is not subtracted and none is subtracted twice, the largest   *)
(* object's included.                                                      *)
(***************************************************************************)
TotalExact ==
    total = Cardinality(Bytes({e \in entries : e.obj \in present}))

(***************************************************************************)
(* A sweep that ends above the limit left only objects that a reader was   *)
(* using when it tried to evict them, and possibly one object that is at   *)
(* least 10/3 of the limit large and was not used for half an hour: clean  *)
(* gives that one up because it would not come down to the limit by it.    *)
(***************************************************************************)
CleanBounded ==
    sweep = "done" /\ total > MaxSize =>
        \A e \in entries : e.obj \in present =>
            \/ e.obj \in refused
            \/ e.obj = largest /\ 10 * MaxSize <= 3 * e.size

\* What would be left in the map if e and all that was used after it were still there.
LeftBeside(e) ==
    {f \in entries : \/ e.obj = largest
                     \/ f.obj \in present
                     \/ f.obj # largest /\ f.age <= e.age}

(***************************************************************************)
(* A sweep takes no more than the limit asks for, the least recently used  *)
(* first, though it sorted the objects before readers came and kept some   *)
(* of them.  Of the unexpired objects one other than the largest goes only *)
(* after all that were used before it, those that readers kept aside, and  *)
(* only while what is left with it in the map is above the limit; and the  *)
(* largest only if everything together is.                                 *)
(***************************************************************************)
EvictsOldestFirst ==
    \A e \in entries : e.obj \notin present =>
        /\ MaxSize < Cardinality(Bytes(LeftBeside(e)))
        /\ e.obj # largest =>
              \A f \in entries : f.age > e.age /\ f.obj \in present =>
                                      f.obj \in refused \cup {largest}

=============================================================================
