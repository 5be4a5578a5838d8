---------------------------- MODULE PlaylistProofs ----------------------------
(***************************************************************************)
(* For any clients, songs, edits and scans: the types of the variables of  *)
(* Playlist; Contiguous, that a settled playlist is numbered 0 .. n-1 and  *)
(* that every scan which overlaps no edit numbers it so; EditsExactly,     *)
(* that an edit has the effect its client asked for; and ImplementsList,   *)
(* that the table implements the list of PlaylistList.                     *)
(*                                                                         *)
(* A transaction works on its own view of the table.  The first argument   *)
(* (ListInv) follows the numbering in the view of the one client that      *)
(* holds the row of the playlist, from statement to statement (Stage), and *)
(* in that of a scan which is alone (ScanDone); both need that the         *)
(* snapshot a statement waits with is still what it would take now         *)
(* (Current).  What a transaction commits is its view.  The second one     *)
(* (Exact) follows the songs in these views: which elements of the         *)
(* committed list each statement leaves, and where.                        *)
(***************************************************************************)
EXTENDS Playlist, FiniteSetTheorems, SequenceTheorems, WellFoundedInduction, TLAPS

-----------------------------------------------------------------------------
(* Views: functions from Ids to rows or NoRow.  *)

Views == [Ids -> Rows \cup {NoRow}]

View(t) == [i \in Ids |-> Sees(t, i)]

Filled(v) == {i \in Ids : v[i] # NoRow}
TrackSet(v) == {v[i].track : i \in Filled(v)}

DistinctTracks(v) == \A i, j \in Filled(v) : v[i].track = v[j].track => i = j

\* The rows are numbered from 0 without gaps.
Segment(v) == DistinctTracks(v) /\ \E n \in Nat : TrackSet(v) = 0 .. n - 1

\* They would be with the tracks rm, which have been removed.
Holed(v, rm) ==
    /\ DistinctTracks(v)
    /\ TrackSet(v) \cap rm = {}
    /\ \E n \in Nat : TrackSet(v) \cup rm = 0 .. n - 1

-----------------------------------------------------------------------------
(* Transactions.  *)

TxFields == {"pc", "rm", "add", "count", "prog", "taken", "snap", "busy", "deferred", "alone"}

Args == (SUBSET (0 .. MaxTrack)) \cup Seq(Songs) \cup SUBSET Songs
Statements == [kind : {"remove", "shift", "add", "clear", "songs", "hidden", "fix"}, arg : Args]

\* What an edit, a replacement, a deletion and a scan have left to do.
EditProg(x) ==
    \/ x.prog = Adding(x.add)
    \/ x.rm # {} /\ x.busy /\ x.prog = <<Statement("shift", x.rm)>> \o Adding(x.add)
    \/ x.rm # {} /\ x.prog = <<Statement("remove", x.rm)>> \o
                                (<<Statement("shift", x.rm)>> \o Adding(x.add))
    \/ x.prog = <<>>

ReplaceProg(x) ==
    \/ x.prog = <<Statement("clear", {})>> \o Adding(x.add)
    \/ x.prog = Adding(x.add)
    \/ x.prog = <<>>

ScanProg(x) ==
    \E gone, hidden \in SUBSET Songs :
        \/ x.prog = <<Statement("songs", gone), Statement("hidden", hidden), Statement("fix", {})>>
        \/ x.busy /\ x.prog = <<Statement("hidden", hidden), Statement("fix", {})>>
        \/ x.busy /\ x.prog = <<Statement("fix", {})>>
        \/ x.busy /\ x.prog = <<>>

ProgOK(x) ==
    /\ x.pc \in {"idle", "found"} => x.prog = <<>> /\ ~x.busy
    /\ x.pc = "edit" => EditProg(x)
    /\ x.pc \in {"replace", "drop"} => ReplaceProg(x)
    /\ x.pc = "scan" => ScanProg(x)

\* A snapshot has rows of the table, with the numbers FixTrackNumbers gives them,
\* or the last track.
SnapOK(x) ==
    x.taken =>
        /\ x.busy
        /\ x.prog # <<>>
        /\ Head(x.prog).kind = "add" => x.snap[1] \in -1 .. MaxTrack
        /\ Head(x.prog).kind # "add" => DOMAIN x.snap \subseteq Ids
        /\ Head(x.prog).kind = "fix" => \A i \in DOMAIN x.snap : x.snap[i] \in 0 .. MaxTrack

TxOK(t, x) ==
    /\ DOMAIN x = TxFields
    /\ x.rm \in SUBSET (0 .. MaxTrack)
    /\ x.add \in Seq(Songs)
    /\ {x.taken, x.busy, x.deferred, x.alone} \subseteq BOOLEAN
    /\ x.pc \in IF t = Scan THEN {"idle", "scan"} ELSE {"idle", "found", "edit", "replace", "drop"}
    /\ t = Scan => ~x.deferred
    /\ ProgOK(x)
    /\ SnapOK(x)

NextKind(x) == IF x.prog = <<>> THEN "end" ELSE Head(x.prog).kind

\* What a client sends is what it was asked for, from the first statement on.
FullProg(x) ==
    /\ x.pc \in {"found", "edit", "replace"} => x.add \in Adds
    /\ x.pc = "edit" /\ ~x.busy => x.prog = Removing(x.rm) \o Adding(x.add)
    /\ x.pc = "replace" /\ ~x.busy => NextKind(x) = "clear"

Asked == \A c \in Clients : FullProg(tx[c])

Transactions == DOMAIN tx = Txs /\ \A t \in Txs : TxOK(t, tx[t])

\* Who has written a row is at work, and only the latest version of a locked row differs
\* from the committed one.
Locks == \A i \in Ids : IF lock[i] = NoTx THEN cur[i] = com[i] ELSE tx[lock[i]].busy

\* Clients edit while they hold the row of the playlist.
Owning == \A c \in Clients : tx[c].pc \in {"edit", "replace", "drop"} <=> owner = c

\* A scan that is alone shares no time with an edit.
Apart == \A c \in Clients : tx[c].busy /\ tx[Scan].busy => ~tx[Scan].alone

-----------------------------------------------------------------------------
(* The numbering.  *)

\* Undisturbed, as far as the properties claim something of it.
Calm(t) == IF t = Scan THEN tx[Scan].alone ELSE settled

\* What statement st finds in view v, of which f is its snapshot.
Fresh(v, st, f) ==
    LET n == Cardinality(Filled(v))
    IN  /\ st.kind = "remove" => DOMAIN f = {i \in Filled(v) : v[i].track \in st.arg}
        /\ st.kind = "shift" => DOMAIN f = {i \in Filled(v) : v[i].track > Min(st.arg)}
        /\ st.kind = "clear" => DOMAIN f = Filled(v)
        /\ st.kind = "add" => f[1] = Max(TrackSet(v) \cup {-1})
        /\ st.kind = "fix" =>
              /\ DOMAIN f \subseteq Filled(v)
              /\ \A i \in DOMAIN f : f[i] \in 0 .. n - 1 /\ f[i] # v[i].track
              /\ \A i \in Filled(v) \ DOMAIN f : v[i].track \in 0 .. n - 1

\* The snapshot of a calm transaction is what it would take now.
Current == \A t \in Txs :
    tx[t].taken /\ Calm(t) => Fresh(View(t), Head(tx[t].prog), tx[t].snap)

\* The primary key.
Keys == DistinctTracks(com)

Numbers == settled => Segment(com)

\* The view of a client that edits: without gaps but between removing tracks and
\* closing the gaps.
StageOf(v, prog, rm) ==
    IF prog # <<>> /\ Head(prog).kind = "shift" THEN Holed(v, rm) ELSE Segment(v)

Stage == \A c \in Clients : settled /\ owner = c => StageOf(View(c), tx[c].prog, tx[c].rm)

ScanDone ==
    tx[Scan].pc = "scan" /\ tx[Scan].prog = <<>> /\ tx[Scan].alone => Segment(View(Scan))

ListInv ==
    /\ TypeOK
    /\ Transactions
    /\ Locks
    /\ Owning
    /\ Apart
    /\ Current
    /\ Keys
    /\ Numbers
    /\ Stage
    /\ ScanDone

-----------------------------------------------------------------------------
(* Counting.  *)

\* Ids and what a view has are finite sets, and a row is not NoRow.
LEMMA Finite ==
    /\ MaxRows \in Nat /\ MaxTrack \in Nat /\ MaxRows <= MaxTrack + 1
    /\ IsFiniteSet(Ids) /\ Cardinality(Ids) = MaxRows
    /\ NoRow \notin Rows
    /\ \A v : IsFiniteSet(Filled(v)) /\ Cardinality(Filled(v)) \in 0 .. MaxRows
  <1>1. MaxRows \in Nat /\ MaxTrack \in Nat /\ MaxRows <= MaxTrack + 1 /\ NoRow \notin Rows
    BY PlaylistAssumption DEF Rows
  <1>2. IsFiniteSet(Ids) /\ Cardinality(Ids) = MaxRows
    BY <1>1, FS_Interval DEF Ids
  <1>3. ASSUME NEW v
        PROVE  IsFiniteSet(Filled(v)) /\ Cardinality(Filled(v)) \in 0 .. MaxRows
    <2>1. Filled(v) \subseteq Ids
      BY DEF Filled
    <2>2. IsFiniteSet(Filled(v)) /\ Cardinality(Filled(v)) <= Cardinality(Ids)
      BY <1>2, <2>1, FS_Subset
    <2>3. Cardinality(Filled(v)) \in Nat
      BY <2>2, FS_CardinalityType
    <2>. QED
      BY <1>1, <1>2, <2>2, <2>3
  <1>. QED
    BY <1>1, <1>2, <1>3

RankIn(T, a) == Cardinality({b \in T : b < a})

\* The elements below one of a finite set of numbers are fewer than those below a
\* greater one, and fewer than all.
LEMMA Ranks ==
    ASSUME NEW T \in SUBSET Int, IsFiniteSet(T), NEW a \in T
    PROVE  /\ IsFiniteSet({x \in T : x < a})
           /\ Cardinality({x \in T : x < a}) \in Nat
           /\ Cardinality({x \in T : x < a}) < Cardinality(T)
           /\ \A b \in T : a < b =>
                 Cardinality({x \in T : x < a}) < Cardinality({x \in T : x < b})
  <1>. DEFINE B(b) == {x \in T : x < b}
  <1>1. \A b \in T : IsFiniteSet(B(b)) /\ Cardinality(B(b)) \in Nat
    BY FS_Subset, FS_CardinalityType
  <1>2. Cardinality(T) \in Nat
    BY FS_CardinalityType
  <1>3. Cardinality(B(a)) < Cardinality(T)
    <2>1. B(a) \subseteq T /\ a \notin B(a)
      OBVIOUS
    <2>. HIDE DEF B
    <2>2. Cardinality(B(a)) <= Cardinality(T) /\ (Cardinality(B(a)) = Cardinality(T) => B(a) = T)
      BY <2>1, FS_Subset
    <2>. QED
      BY <1>1, <1>2, <2>1, <2>2
  <1>4. ASSUME NEW b \in T, a < b
        PROVE  Cardinality(B(a)) < Cardinality(B(b))
    <2>1. /\ \A x \in T : x < a => x < b
          /\ ~(a < a)
      BY <1>4
    <2>1a. B(a) \subseteq B(b) /\ a \notin B(a) /\ a \in B(b)
      BY <1>4, <2>1
    <2>2. IsFiniteSet(B(b)) /\ Cardinality(B(b)) \in Nat /\ Cardinality(B(a)) \in Nat
      BY <1>1
    <2>. HIDE DEF B
    <2>3. /\ Cardinality(B(a)) <= Cardinality(B(b))
          /\ Cardinality(B(a)) = Cardinality(B(b)) => B(a) = B(b)
      BY <2>1a, <2>2, FS_Subset
    <2>. QED
      BY <2>1a, <2>2, <2>3
  <1>. QED
    BY <1>1, <1>3, <1>4

\* A numbering without gaps ends at the number of rows.
LEMMA SegmentCount ==
    ASSUME NEW v, Segment(v)
    PROVE  TrackSet(v) = 0 .. Cardinality(Filled(v)) - 1
  <1>1. PICK n \in Nat : TrackSet(v) = 0 .. n - 1
    BY DEF Segment
  <1>. DEFINE f == [i \in Filled(v) |-> v[i].track]
  <1>2. f \in Bijection(Filled(v), TrackSet(v))
    BY DEF Segment, DistinctTracks, TrackSet, Bijection, Injection, Surjection, IsInjective
  <1>3. Cardinality(TrackSet(v)) = Cardinality(Filled(v))
    BY <1>2, Finite, FS_Bijection DEF ExistsBijection
  <1>4. Cardinality(0 .. n - 1) = n
    BY FS_Interval
  <1>. QED
    BY <1>1, <1>3, <1>4

\* Different numbers below the number of rows leave no gap.
LEMMA Pigeons ==
    ASSUME NEW v, DistinctTracks(v), TrackSet(v) \subseteq 0 .. Cardinality(Filled(v)) - 1
    PROVE  Segment(v)
  <1>. DEFINE n == Cardinality(Filled(v))
              f == [i \in Filled(v) |-> v[i].track]
  <1>1. n \in Nat /\ IsFiniteSet(Filled(v))
    BY Finite
  <1>2. IsFiniteSet(0 .. n - 1) /\ Cardinality(0 .. n - 1) = n
    BY <1>1, FS_Interval, SMTT(30)
  <1>3. f \in Injection(Filled(v), 0 .. n - 1)
    BY DEF DistinctTracks, TrackSet, Injection, IsInjective
  <1>. HIDE DEF n, f
  <1>4. f \in Surjection(Filled(v), 0 .. n - 1)
    BY <1>2, <1>3, FS_Injection DEF n
  <1>5. 0 .. n - 1 \subseteq TrackSet(v)
    BY <1>4 DEF Surjection, TrackSet, f
  <1>. QED
    BY <1>1, <1>5 DEF Segment, n

-----------------------------------------------------------------------------
(* What statements do to a view.  *)

\* View w is view v without the tracks rm, which were all there.
Cut(v, w, rm) ==
    LET A == {i \in Filled(v) : v[i].track \in rm}
    IN  /\ Cardinality(A) = Cardinality(rm)
        /\ \A i \in Ids : w[i] = IF i \in A THEN NoRow ELSE v[i]

\* RemoveTracks: deleting the tracks rm from a numbered list leaves the gaps rm.
LEMMA RemovedView ==
    ASSUME NEW v, NEW w, NEW rm \in SUBSET (0 .. MaxTrack), Segment(v), Cut(v, w, rm)
    PROVE  /\ Holed(w, rm)
           /\ rm \subseteq TrackSet(v) /\ TrackSet(w) = TrackSet(v) \ rm
           /\ \A i \in Filled(w) : i \in Filled(v) /\ w[i] = v[i]
  <1>. DEFINE A == {i \in Filled(v) : v[i].track \in rm}
              f == [i \in A |-> v[i].track]
  <1>0. /\ Cardinality(A) = Cardinality(rm)
        /\ \A i \in Ids : w[i] = IF i \in A THEN NoRow ELSE v[i]
    BY DEF Cut
  <1>1. PICK n \in Nat : TrackSet(v) = 0 .. n - 1
    BY DEF Segment
  <1>2. IsFiniteSet(rm)
    <2>1. IsFiniteSet(0 .. MaxTrack)
      BY Finite, FS_Interval
    <2>. QED
      BY <2>1, FS_Subset
  <1>3. f \in Injection(A, rm)
    BY DEF Segment, DistinctTracks, Injection, IsInjective
  <1>4. f \in Surjection(A, rm)
    <2>. HIDE DEF A, f
    <2>. QED
      BY <1>0, <1>2, <1>3, FS_Injection
  <1>5. rm \subseteq TrackSet(v)
    <2>1. ASSUME NEW r \in rm PROVE r \in TrackSet(v)
      <3>1. PICK i \in A : f[i] = r
        BY <1>4 DEF Surjection
      <3>2. i \in Filled(v) /\ v[i].track = r
        BY <3>1
      <3>. QED
        BY <3>2 DEF TrackSet
    <2>. QED
      BY <2>1
  <1>6. Filled(w) = Filled(v) \ A /\ \A i \in Filled(w) : w[i] = v[i]
    BY <1>0 DEF Filled
  <1>7. TrackSet(w) = TrackSet(v) \ rm
    BY <1>6 DEF TrackSet
  <1>8. DistinctTracks(w)
    BY <1>6 DEF Segment, DistinctTracks
  <1>. QED
    BY <1>1, <1>5, <1>6, <1>7, <1>8 DEF Holed

\* RemoveTracks: moving every row down by the removed tracks below it closes the gaps.
LEMMA ShiftedView ==
    ASSUME NEW v, NEW w, NEW rm \in SUBSET (0 .. MaxTrack), Holed(v, rm),
           Filled(w) = Filled(v),
           \A i \in Filled(v) : w[i].track = Shifted(v[i].track, rm)
    PROVE  /\ Segment(w)
           /\ \A i \in Filled(v) : w[i].track = RankIn(TrackSet(v), v[i].track)
  <1>. DEFINE T == TrackSet(v)
              B(a) == {x \in T : x < a}
  <1>1. PICK n \in Nat : T \cup rm = 0 .. n - 1
    BY DEF Holed
  <1>2. IsFiniteSet(T) /\ T \in SUBSET Int
    <2>1. IsFiniteSet(0 .. n - 1)
      BY FS_Interval
    <2>2. T \subseteq 0 .. n - 1
      BY <1>1
    <2>3. T \in SUBSET Int
      BY <1>1
    <2>. HIDE DEF T
    <2>4. IsFiniteSet(T)
      BY <2>1, <2>2, FS_Subset
    <2>. QED
      BY <2>3, <2>4
  <1>3. ASSUME NEW a \in T
        PROVE  Shifted(a, rm) = Cardinality(B(a))
    <2>. DEFINE R == {r \in rm : r < a}
    <2>1. a \in 0 .. n - 1
      BY <1>1
    <2>2. B(a) \cup R = 0 .. a - 1 /\ B(a) \cap R = {}
      BY <1>1, <2>1 DEF Holed
    <2>3. IsFiniteSet(0 .. a - 1) /\ Cardinality(0 .. a - 1) = a
      BY <2>1, FS_Interval
    <2>. HIDE DEF B, R
    <2>4. IsFiniteSet(B(a)) /\ IsFiniteSet(R)
      BY <2>2, <2>3, FS_Subset
    <2>5. Cardinality(B(a) \cup R) = Cardinality(B(a)) + Cardinality(R) - Cardinality(B(a) \cap R)
      BY <2>4, FS_Union
    <2>6. Cardinality(B(a) \cap R) = 0
      BY <2>2, FS_EmptySet
    <2>7. Cardinality(B(a)) \in Nat /\ Cardinality(R) \in Nat
      BY <2>4, FS_CardinalityType
    <2>8. Cardinality(B(a)) + Cardinality(R) = a
      <3>1. PICK x \in Nat : x = Cardinality(B(a))
        BY <2>7
      <3>2. PICK y \in Nat : y = Cardinality(R)
        BY <2>7
      <3>3. a = Cardinality(B(a) \cup R)
        BY <2>2, <2>3
      <3>. QED
        BY <2>1, <2>5, <2>6, <3>1, <3>2, <3>3
    <2>. QED
      BY <2>1, <2>7, <2>8 DEF Shifted, R
  <1>4. \A a \in T : /\ Cardinality(B(a)) \in Nat
                     /\ Cardinality(B(a)) < Cardinality(T)
                     /\ \A b \in T : a < b => Cardinality(B(a)) < Cardinality(B(b))
    BY <1>2, Ranks
  <1>5. Cardinality(T) = Cardinality(Filled(v))
    <2>. DEFINE f == [i \in Filled(v) |-> v[i].track]
    <2>1. f \in Bijection(Filled(v), T)
      BY DEF Holed, DistinctTracks, TrackSet, Bijection, Injection, Surjection, IsInjective
    <2>. QED
      BY <2>1, Finite, FS_Bijection DEF ExistsBijection
  <1>6. \A i \in Filled(v) : v[i].track \in T
    BY DEF TrackSet
  <1>. HIDE DEF T, B
  <1>7. DistinctTracks(w)
    <2>. SUFFICES ASSUME NEW i \in Filled(w), NEW j \in Filled(w), w[i].track = w[j].track
                  PROVE  i = j
      BY DEF DistinctTracks
    <2>1. Cardinality(B(v[i].track)) = Cardinality(B(v[j].track))
      BY <1>3, <1>6
    <2>2. v[i].track = v[j].track
      <3>1. v[i].track \in T /\ v[j].track \in T
        BY <1>6
      <3>2. ASSUME NEW a \in T, NEW b \in T, a < b
            PROVE  Cardinality(B(a)) # Cardinality(B(b))
        BY <1>4, <3>2
      <3>3. PICK a \in T, b \in T : a = v[i].track /\ b = v[j].track
        BY <3>1
      <3>4. ~(a < b) /\ ~(b < a)
        BY <2>1, <3>2, <3>3
      <3>5. a \in Int /\ b \in Int
        BY <1>2
      <3>. QED
        BY <3>3, <3>4, <3>5
    <2>. QED
      BY <2>2 DEF Holed, DistinctTracks
  <1>8. TrackSet(w) \subseteq 0 .. Cardinality(Filled(w)) - 1
    <2>1. Cardinality(Filled(w)) \in Nat
      BY Finite
    <2>2. ASSUME NEW i \in Filled(w)
          PROVE  w[i].track \in 0 .. Cardinality(Filled(w)) - 1
      BY <1>3, <1>4, <1>5, <1>6, <2>1
    <2>. QED
      BY <2>2 DEF TrackSet
  <1>9. \A i \in Filled(v) : w[i].track = Cardinality(B(v[i].track))
    BY <1>3, <1>6
  <1>10. \A a : Cardinality(B(a)) = RankIn(TrackSet(v), a)
    BY DEF B, T, RankIn
  <1>. QED
    BY <1>7, <1>8, <1>9, <1>10, Pigeons

PlaceIn(F, i) == Cardinality({j \in F : j <= i})

\* Rows are placed at 1, 2, ... in the order of their ids.
LEMMA Places ==
    ASSUME NEW F \in SUBSET Ids
    PROVE  /\ \A i \in F : PlaceIn(F, i) \in 1 .. Cardinality(F)
           /\ \A i, k \in F : PlaceIn(F, i) = PlaceIn(F, k)
                                 => i = k
           /\ \A p \in 1 .. Cardinality(F) : \E i \in F : PlaceIn(F, i) = p
  <1>. DEFINE B(i) == {j \in F : j < i}
              P(i) == Cardinality({j \in F : j <= i})
              n == Cardinality(F)
  <1>1. F \in SUBSET Int /\ IsFiniteSet(F)
    <2>1. Ids \subseteq Int
      BY Finite DEF Ids
    <2>2. IsFiniteSet(F)
      BY Finite, FS_Subset
    <2>. QED
      BY <2>1, <2>2
  <1>2. n \in Nat
    BY <1>1, FS_CardinalityType
  <1>3. \A i \in F : /\ IsFiniteSet(B(i)) /\ Cardinality(B(i)) \in Nat
                     /\ Cardinality(B(i)) < n
                     /\ \A k \in F : i < k => Cardinality(B(i)) < Cardinality(B(k))
    BY <1>1, Ranks
  <1>4. ASSUME NEW i \in F
        PROVE  P(i) = Cardinality(B(i)) + 1
    <2>0. /\ \A j \in F : j <= i <=> j < i \/ j = i
          /\ ~(i < i)
      BY <1>1
    <2>1. {j \in F : j <= i} = B(i) \cup {i} /\ i \notin B(i)
      BY <2>0
    <2>2. IsFiniteSet(B(i))
      BY <1>3
    <2>. HIDE DEF B
    <2>3. Cardinality(B(i) \cup {i}) = Cardinality(B(i)) + 1
      BY <2>1, <2>2, FS_AddElement
    <2>. QED
      BY <2>1, <2>3
  <1>. HIDE DEF B, P, n
  <1>5. \A i \in F : P(i) \in 1 .. n
    BY <1>2, <1>3, <1>4
  <1>6. ASSUME NEW i \in F, NEW k \in F, P(i) = P(k)
        PROVE  i = k
    <2>1. Cardinality(B(i)) = Cardinality(B(k))
      BY <1>3, <1>4, <1>6
    <2>2. ~(i < k) /\ ~(k < i)
      BY <1>3, <2>1
    <2>3. i \in Int /\ k \in Int
      BY <1>1
    <2>. QED
      BY <2>2, <2>3
  <1>. DEFINE g == [i \in F |-> P(i)]
  <1>7. g \in Injection(F, 1 .. n)
    BY <1>5, <1>6 DEF Injection, IsInjective
  <1>8. IsFiniteSet(1 .. n) /\ Cardinality(1 .. n) = n
    BY <1>2, FS_Interval
  <1>9. g \in Surjection(F, 1 .. n)
    BY <1>7, <1>8, FS_Injection DEF n
  <1>10. \A p \in 1 .. n : \E i \in F : P(i) = p
    BY <1>9 DEF Surjection
  <1>. QED
    BY <1>5, <1>6, <1>10 DEF P, n, PlaceIn

\* The greatest track of a numbering without gaps, as AddTracks reads it.
LEMMA LastTrack ==
    ASSUME NEW n \in Nat
    PROVE  Max(0 .. n - 1 \cup {-1}) = n - 1
  <1>1. n - 1 \in 0 .. n - 1 \cup {-1} /\ \A y \in 0 .. n - 1 \cup {-1} : n - 1 >= y
    OBVIOUS
  <1>2. \A x \in 0 .. n - 1 \cup {-1} :
           (\A y \in 0 .. n - 1 \cup {-1} : x >= y) => x = n - 1
    OBVIOUS
  <1>. QED
    BY <1>1, <1>2 DEF Max

\* View w is view v with k more rows, at ids in F, numbered after the track m.
Lengthened(v, w, F, k, m) ==
    /\ m = Max(TrackSet(v) \cup {-1})
    /\ k <= Cardinality(F)
    /\ \A i \in F : v[i] = NoRow
    /\ \A i \in Ids : IF i \in F /\ PlaceIn(F, i) <= k
                      THEN w[i] # NoRow /\ w[i].track = m + PlaceIn(F, i)
                      ELSE w[i] = v[i]

\* AddTracks: rows that take the numbers after the last one keep the list numbered.
LEMMA InsertedView ==
    ASSUME NEW v, NEW w, NEW F \in SUBSET Ids, NEW k \in Nat, NEW m, Segment(v),
           Lengthened(v, w, F, k, m)
    PROVE  /\ Segment(w)
           /\ \E n \in Nat : TrackSet(v) = 0 .. n - 1 /\ TrackSet(w) = 0 .. n + k - 1
  <1>. DEFINE P(i) == PlaceIn(F, i)
              new == {i \in F : P(i) <= k}
  <1>0. /\ m = Max(TrackSet(v) \cup {-1}) /\ k <= Cardinality(F)
        /\ \A i \in F : v[i] = NoRow
        /\ \A i \in Ids : IF i \in F /\ P(i) <= k
                          THEN w[i] # NoRow /\ w[i].track = m + P(i) ELSE w[i] = v[i]
    BY DEF Lengthened
  <1>1. PICK n \in Nat : TrackSet(v) = 0 .. n - 1
    BY DEF Segment
  <1>2. m = n - 1
    BY <1>0, <1>1, LastTrack
  <1>3. /\ \A i \in F : P(i) \in 1 .. Cardinality(F)
        /\ \A i, j \in F : P(i) = P(j) => i = j
        /\ \A p \in 1 .. Cardinality(F) : \E i \in F : P(i) = p
    BY Places
  <1>4. Cardinality(F) \in Nat
    BY Finite, FS_Subset, FS_CardinalityType
  <1>5. /\ \A i \in new : i \in Ids /\ w[i] # NoRow /\ w[i].track = m + P(i)
        /\ \A i \in Ids \ new : w[i] = v[i]
        /\ \A i \in new : v[i] = NoRow
    BY <1>0
  <1>. HIDE DEF P
  <1>5a. PICK N \in Nat : N = Cardinality(F)
    BY <1>4
  <1>6. \A i \in new : P(i) \in 1 .. k
    <2>1. ASSUME NEW i \in new PROVE P(i) \in 1 .. k
      <3>1. PICK p \in 1 .. N : p = P(i)
        BY <1>3, <1>5a
      <3>2. p <= k
        BY <3>1
      <3>. QED
        BY <3>1, <3>2
    <2>. QED
      BY <2>1
  <1>7. \A p \in 1 .. k : \E i \in new : P(i) = p
    <2>1. ASSUME NEW p \in 1 .. k PROVE \E i \in new : P(i) = p
      <3>1. p \in 1 .. N /\ p <= k
        BY <1>0, <1>5a
      <3>2. PICK i \in F : P(i) = p
        BY <1>3, <1>5a, <3>1
      <3>3. i \in new
        BY <3>1, <3>2
      <3>. QED
        BY <3>2, <3>3
    <2>. QED
      BY <2>1
  <1>8. \A i, j \in new : P(i) = P(j) => i = j
    BY <1>3
  <1>. HIDE DEF new
  <1>9. Filled(w) = Filled(v) \cup new /\ Filled(v) \cap new = {}
    BY <1>5 DEF Filled
  <1>10. \A i \in Filled(v) : w[i] = v[i] /\ v[i].track \in 0 .. n - 1
    BY <1>1, <1>5, <1>9 DEF TrackSet, Filled
  <1>11. ASSUME NEW i \in new
         PROVE  w[i].track \in n .. n + k - 1 /\ P(i) = w[i].track - n + 1
    <2>1. PICK p \in 1 .. k : p = P(i)
      BY <1>6
    <2>2. w[i].track = n - 1 + p
      BY <1>2, <1>5, <2>1
    <2>. QED
      BY <2>1, <2>2
  <1>12. DistinctTracks(w)
    <2>. SUFFICES ASSUME NEW i \in Filled(w), NEW j \in Filled(w), w[i].track = w[j].track
                  PROVE  i = j
      BY DEF DistinctTracks
    <2>1. CASE i \in Filled(v) /\ j \in Filled(v)
      BY <1>10, <2>1 DEF Segment, DistinctTracks
    <2>2. CASE i \in new /\ j \in new
      BY <1>8, <1>11, <2>2
    <2>3. CASE (i \in new /\ j \in Filled(v)) \/ (i \in Filled(v) /\ j \in new)
      BY <1>10, <1>11, <2>3
    <2>. QED
      BY <1>9, <2>1, <2>2, <2>3
  <1>13. TrackSet(w) = 0 .. n + k - 1
    <2>1. ASSUME NEW x \in TrackSet(w) PROVE x \in 0 .. n + k - 1
      BY <1>9, <1>10, <1>11 DEF TrackSet
    <2>2. ASSUME NEW x \in 0 .. n - 1 PROVE x \in TrackSet(w)
      <3>1. x \in TrackSet(v)
        BY <1>1
      <3>. QED
        BY <1>9, <1>10, <3>1 DEF TrackSet
    <2>3. ASSUME NEW x \in n .. n + k - 1 PROVE x \in TrackSet(w)
      <3>1. x - n + 1 \in 1 .. k
        OBVIOUS
      <3>2. PICK i \in new : P(i) = x - n + 1
        BY <1>7, <3>1
      <3>3. w[i].track = x
        BY <1>11, <3>2
      <3>. QED
        BY <1>9, <3>3 DEF TrackSet
    <2>4. \A x \in 0 .. n + k - 1 : x \in 0 .. n - 1 \/ x \in n .. n + k - 1
      OBVIOUS
    <2>. QED
      BY <2>1, <2>2, <2>3, <2>4
  <1>14. PICK q \in Nat : q = n + k
    OBVIOUS
  <1>15. TrackSet(w) = 0 .. q - 1
    BY <1>13, <1>14
  <1>. QED
    BY <1>1, <1>12, <1>13, <1>15 DEF Segment

\* A list without rows is numbered.
LEMMA EmptyView ==
    ASSUME NEW v, Filled(v) = {}
    PROVE  Segment(v)
  <1>1. TrackSet(v) = 0 .. 0 - 1
    BY DEF TrackSet
  <1>. QED
    BY <1>1 DEF Segment, DistinctTracks

-----------------------------------------------------------------------------
(* Least and greatest numbers.  *)

\* Min of a set of tracks is its least element.
LEMMA LeastOf ==
    ASSUME NEW S \in SUBSET Nat, S # {}
    PROVE  Min(S) \in S /\ \A y \in S : Min(S) <= y
  <1>. DEFINE R == OpToRel(<, Nat)
  <1>0. \A x, y \in Nat : x < y => <<x, y>> \in R
    BY DEF OpToRel
  <1>0a. IsWellFoundedOn(R, Nat)
    BY NatLessThanWellFounded
  <1>. HIDE DEF R
  <1>1. S \subseteq Nat
    OBVIOUS
  <1>2. \E x \in S : \A y \in S : ~(<<y, x>> \in R)
    BY <1>0a, <1>1, WFMin
  <1>3. PICK x \in S : \A y \in S : ~(<<y, x>> \in R)
    BY <1>2
  <1>4. \A y \in S : ~(y < x)
    BY <1>0, <1>1, <1>3
  <1>5. \A y \in S : x <= y
    BY <1>1, <1>4
  <1>. QED
    BY <1>5 DEF Min

\* Max of the tracks and -1 is their greatest element.
LEMMA GreatestOf ==
    ASSUME NEW m \in Nat, NEW T \in SUBSET (-1 .. m), T # {}
    PROVE  Max(T) \in T /\ \A y \in T : Max(T) >= y
  <1>. DEFINE S == {n \in Nat : m - n \in T}
  <1>1. S # {}
    <2>1. PICK x \in T : TRUE
      OBVIOUS
    <2>2. m - x \in Nat /\ m - (m - x) = x
      OBVIOUS
    <2>. QED
      BY <2>1, <2>2
  <1>2. Min(S) \in S /\ \A y \in S : Min(S) <= y
    BY <1>1, LeastOf
  <1>3. PICK k \in S : \A y \in S : k <= y
    BY <1>2
  <1>4. m - k \in T
    OBVIOUS
  <1>5. ASSUME NEW y \in T PROVE m - k >= y
    <2>1. m - y \in Nat /\ m - (m - y) = y
      OBVIOUS
    <2>2. m - y \in S
      BY <2>1
    <2>. QED
      BY <1>3, <2>2
  <1>. QED
    BY <1>4, <1>5 DEF Max

-----------------------------------------------------------------------------
(* Programs.  *)

\* Head and tail of a sequence that one element was put in front of.
LEMMA ConsParts ==
    ASSUME NEW S, NEW a \in S, NEW q \in Seq(S)
    PROVE  /\ <<a>> \o q # <<>>
           /\ <<a>> \o q \in Seq(S)
           /\ Head(<<a>> \o q) = a
           /\ Tail(<<a>> \o q) = q
  <1>. DEFINE p == <<a>> \o q
  <1>1. <<a>> \in Seq(S) /\ Len(<<a>>) = 1 /\ <<a>>[1] = a
    OBVIOUS
  <1>2. /\ p \in Seq(S)
        /\ Len(p) = 1 + Len(q)
        /\ \A i \in 1 .. 1 + Len(q) : p[i] = IF i <= 1 THEN a ELSE q[i - 1]
    BY <1>1, ConcatProperties
  <1>3. Len(q) \in Nat
    OBVIOUS
  <1>. HIDE DEF p
  <1>4. p # <<>>
    BY <1>2, <1>3
  <1>5. p[1] = a
    BY <1>2, <1>3
  <1>6. /\ Tail(p) \in Seq(S)
        /\ Len(Tail(p)) = Len(p) - 1
        /\ \A i \in 1 .. Len(Tail(p)) : Tail(p)[i] = p[i + 1]
    BY <1>2, <1>4, HeadTailProperties
  <1>7. Len(Tail(p)) = Len(q)
    BY <1>2, <1>3, <1>6
  <1>8. ASSUME NEW i \in 1 .. Len(q) PROVE Tail(p)[i] = q[i]
    <2>1. i + 1 \in 1 .. 1 + Len(q) /\ ~(i + 1 <= 1) /\ (i + 1) - 1 = i
      BY <1>3
    <2>. QED
      BY <1>2, <1>6, <1>7, <2>1
  <1>9. Tail(p) = q
    BY <1>6, <1>7, <1>8, SeqEqual
  <1>. QED
    BY <1>2, <1>4, <1>5, <1>9 DEF p

\* The sequence of one statement.
LEMMA Single ==
    ASSUME NEW a
    PROVE  <<a>> # <<>> /\ Head(<<a>>) = a /\ Tail(<<a>>) = <<>>
  OBVIOUS

\* The statements that add songs are a program.
LEMMA AddingProg ==
    ASSUME NEW add \in Seq(Songs)
    PROVE  /\ Adding(add) \in Seq(Statements)
           /\ Adding(add) # <<>> => /\ Head(Adding(add)) = Statement("add", add)
                                    /\ Tail(Adding(add)) = <<>>
  <1>1. Statement("add", add) \in Statements
    BY DEF Statement, Statements, Args
  <1>2. <<>> \in Seq(Statements) /\ <<Statement("add", add)>> \in Seq(Statements)
    BY <1>1
  <1>. QED
    BY <1>2, Single DEF Adding

\* A statement has the kind and argument it was built with.
LEMMA StatementFields ==
    ASSUME NEW k, NEW a
    PROVE  Statement(k, a).kind = k /\ Statement(k, a).arg = a
  BY DEF Statement

\* The program of an edit, as Touch makes it.
LEMMA TouchProg ==
    ASSUME NEW rm \in SUBSET (0 .. MaxTrack), NEW add \in Seq(Songs)
    PROVE  IF rm = {} THEN Removing(rm) \o Adding(add) = Adding(add)
           ELSE Removing(rm) \o Adding(add) =
                   <<Statement("remove", rm)>> \o (<<Statement("shift", rm)>> \o Adding(add))
  <1>1. Adding(add) \in Seq(Statements)
    BY AddingProg
  <1>2. CASE rm = {}
    BY <1>1, <1>2, ConcatEmptySeq DEF Removing
  <1>3. CASE rm # {}
    <2>. DEFINE a == Statement("remove", rm)
                b == Statement("shift", rm)
    <2>1. a \in Statements /\ b \in Statements
      BY DEF Statement, Statements, Args
    <2>. HIDE DEF a, b
    <2>2. <<a>> \in Seq(Statements) /\ <<b>> \in Seq(Statements)
      BY <2>1
    <2>3. <<a, b>> = <<a>> \o <<b>>
      <3>. DEFINE p == <<a>> \o <<b>>
      <3>1. <<a, b>> \in Seq(Statements) /\ Len(<<a, b>>) = 2 /\ <<a, b>>[1] = a /\ <<a, b>>[2] = b
        BY <2>1
      <3>2. /\ p \in Seq(Statements)
            /\ Len(p) = Len(<<a>>) + Len(<<b>>)
            /\ \A i \in 1 .. Len(<<a>>) + Len(<<b>>) :
                  p[i] = IF i <= Len(<<a>>) THEN <<a>>[i] ELSE <<b>>[i - Len(<<a>>)]
        BY <2>2, ConcatProperties
      <3>. HIDE DEF p
      <3>3. Len(p) = 2 /\ p[1] = a /\ p[2] = b
        BY <3>2
      <3>4. \A i \in 1 .. 2 : p[i] = <<a, b>>[i]
        BY <3>1, <3>3
      <3>5. p = <<a, b>>
        BY <3>1, <3>2, <3>3, <3>4, SeqEqual
      <3>. QED
        BY <3>5 DEF p
    <2>4. (<<a>> \o <<b>>) \o Adding(add) = <<a>> \o (<<b>> \o Adding(add))
      BY <1>1, <2>2, ConcatAssociative
    <2>. QED
      BY <1>3, <2>3, <2>4 DEF Removing, a, b
  <1>. QED
    BY <1>2, <1>3

\* What the next statement of a program is, and that the rest is a program.
ProgFacts(t, x, st, rest) ==
    /\ t = Scan => st.kind \in {"songs", "hidden", "fix"}
    /\ t # Scan => st.kind \in {"remove", "shift", "clear", "add"}
    /\ st.kind \in {"remove", "shift"} => x.pc = "edit" /\ st.arg = x.rm /\ x.rm # {}
    /\ st.kind = "shift" => x.busy
    /\ st.kind = "add" => st.arg = x.add /\ rest = <<>>
    /\ st.kind = "clear" => x.pc \in {"replace", "drop"}
    /\ st.kind \in {"shift", "clear"} => rest = Adding(x.add)
    /\ IF st.kind = "remove" THEN rest # <<>> /\ Head(rest).kind = "shift"
       ELSE rest # <<>> => Head(rest).kind # "shift"
    /\ st.kind = "fix" => rest = <<>>
    /\ st.kind \in {"songs", "hidden"} => rest # <<>>
    /\ \A y : y.pc = x.pc /\ y.rm = x.rm /\ y.add = x.add /\ y.busy /\ y.prog = rest => ProgOK(y)

\* The first statement of a program, for each kind, and the program left after it.
LEMMA Programs ==
    ASSUME NEW t \in Txs, NEW x, TxOK(t, x), x.prog # <<>>
    PROVE  ProgFacts(t, x, Head(x.prog), Tail(x.prog))
  <1>. DEFINE A == Adding(x.add)
              sh == Statement("shift", x.rm)
              re == Statement("remove", x.rm)
              cl == Statement("clear", {})
  <1>1. x.rm \in SUBSET (0 .. MaxTrack) /\ x.add \in Seq(Songs)
    BY DEF TxOK
  <1>2. A \in Seq(Statements) /\ (A # <<>> => Head(A) = Statement("add", x.add) /\ Tail(A) = <<>>)
    BY <1>1, AddingProg
  <1>3. sh \in Statements /\ re \in Statements /\ cl \in Statements
    BY <1>1 DEF Statement, Statements, Args
  <1>4. /\ sh.kind = "shift" /\ sh.arg = x.rm
        /\ re.kind = "remove" /\ re.arg = x.rm
        /\ cl.kind = "clear"
        /\ Statement("add", x.add).kind = "add" /\ Statement("add", x.add).arg = x.add
    BY StatementFields
  <1>. HIDE DEF A, sh, re, cl
  <1>5. /\ <<sh>> \o A # <<>> /\ <<sh>> \o A \in Seq(Statements)
        /\ Head(<<sh>> \o A) = sh /\ Tail(<<sh>> \o A) = A
    BY <1>2, <1>3, ConsParts
  <1>6. /\ <<cl>> \o A # <<>>
        /\ Head(<<cl>> \o A) = cl /\ Tail(<<cl>> \o A) = A
    BY <1>2, <1>3, ConsParts
  <1>7. /\ Head(<<re>> \o (<<sh>> \o A)) = re /\ Tail(<<re>> \o (<<sh>> \o A)) = <<sh>> \o A
    BY <1>3, <1>5, ConsParts
  <1>8. /\ t = Scan => x.pc \in {"idle", "scan"}
        /\ t # Scan => x.pc \in {"idle", "found", "edit", "replace", "drop"}
        /\ x.pc \in {"idle", "found"} => x.prog = <<>>
        /\ x.pc = "edit" => EditProg(x)
        /\ x.pc \in {"replace", "drop"} => ReplaceProg(x)
        /\ x.pc = "scan" => ScanProg(x)
    BY DEF TxOK, ProgOK
  <1>9. CASE x.pc = "edit"
    <2>0. t # Scan /\ EditProg(x)
      BY <1>8, <1>9
    <2>1. CASE x.prog = A
      <3>1. Head(x.prog) = Statement("add", x.add) /\ Tail(x.prog) = <<>>
        BY <1>2, <2>1
      <3>2. \A y : y.pc = x.pc /\ y.prog = <<>> => ProgOK(y)
        BY <1>9 DEF ProgOK, EditProg
      <3>. QED
        BY <1>4, <2>0, <3>1, <3>2 DEF ProgFacts
    <2>2. CASE x.rm # {} /\ x.busy /\ x.prog = <<sh>> \o A
      <3>1. Head(x.prog) = sh /\ Tail(x.prog) = A
        BY <1>5, <2>2
      <3>2. \A y : y.pc = x.pc /\ y.add = x.add /\ y.prog = A => ProgOK(y)
        BY <1>9 DEF ProgOK, EditProg, A
      <3>. QED
        BY <1>2, <1>4, <1>9, <2>0, <2>2, <3>1, <3>2 DEF ProgFacts, A
    <2>3. CASE x.rm # {} /\ x.prog = <<re>> \o (<<sh>> \o A)
      <3>1. Head(x.prog) = re /\ Tail(x.prog) = <<sh>> \o A
        BY <1>7, <2>3
      <3>2. \A y : y.pc = x.pc /\ y.add = x.add /\ y.rm = x.rm /\ y.busy /\ y.prog = <<sh>> \o A
                       => ProgOK(y)
        BY <1>9, <2>3 DEF ProgOK, EditProg, A, sh
      <3>. QED
        BY <1>4, <1>5, <1>9, <2>0, <2>3, <3>1, <3>2 DEF ProgFacts
    <2>. QED
      BY <2>0, <2>1, <2>2, <2>3 DEF EditProg, A, sh, re
  <1>10. CASE x.pc \in {"replace", "drop"}
    <2>0. t # Scan /\ ReplaceProg(x)
      BY <1>8, <1>10
    <2>1. CASE x.prog = A
      <3>1. Head(x.prog) = Statement("add", x.add) /\ Tail(x.prog) = <<>>
        BY <1>2, <2>1
      <3>2. \A y : y.pc = x.pc /\ y.prog = <<>> => ProgOK(y)
        BY <1>10 DEF ProgOK, ReplaceProg
      <3>. QED
        BY <1>4, <2>0, <3>1, <3>2 DEF ProgFacts
    <2>2. CASE x.prog = <<cl>> \o A
      <3>1. Head(x.prog) = cl /\ Tail(x.prog) = A
        BY <1>6, <2>2
      <3>2. \A y : y.pc = x.pc /\ y.add = x.add /\ y.prog = A => ProgOK(y)
        BY <1>10 DEF ProgOK, ReplaceProg, A
      <3>. QED
        BY <1>2, <1>4, <1>10, <2>0, <3>1, <3>2 DEF ProgFacts, A
    <2>. QED
      BY <2>0, <2>1, <2>2 DEF ReplaceProg, A, cl
  <1>11. CASE x.pc = "scan"
    <2>0. t = Scan /\ ScanProg(x)
      BY <1>8, <1>11
    <2>1. PICK gone \in SUBSET Songs, hidden \in SUBSET Songs :
            \/ x.prog = <<Statement("songs", gone), Statement("hidden", hidden), Statement("fix", {})>>
            \/ x.prog = <<Statement("hidden", hidden), Statement("fix", {})>>
            \/ x.prog = <<Statement("fix", {})>>
      BY <2>0 DEF ScanProg
    <2>. DEFINE so == Statement("songs", gone)
                hi == Statement("hidden", hidden)
                fi == Statement("fix", {})
    <2>2. so.kind = "songs" /\ hi.kind = "hidden" /\ fi.kind = "fix"
      BY StatementFields
    <2>. HIDE DEF so, hi, fi
    <2>3. CASE x.prog = <<so, hi, fi>>
      <3>1. Head(x.prog) = so /\ Tail(x.prog) = <<hi, fi>> /\ <<hi, fi>> # <<>> /\ Head(<<hi, fi>>) = hi
        BY <2>3
      <3>2. \A y : y.pc = x.pc /\ y.busy /\ y.prog = <<hi, fi>> => ProgOK(y)
        BY <1>11 DEF ProgOK, ScanProg, hi, fi
      <3>. QED
        BY <2>0, <2>2, <3>1, <3>2 DEF ProgFacts
    <2>4. CASE x.prog = <<hi, fi>>
      <3>1. Head(x.prog) = hi /\ Tail(x.prog) = <<fi>> /\ <<fi>> # <<>> /\ Head(<<fi>>) = fi
        BY <2>4
      <3>2. \A y : y.pc = x.pc /\ y.busy /\ y.prog = <<fi>> => ProgOK(y)
        BY <1>11 DEF ProgOK, ScanProg, hi, fi
      <3>. QED
        BY <2>0, <2>2, <3>1, <3>2 DEF ProgFacts
    <2>5. CASE x.prog = <<fi>>
      <3>1. Head(x.prog) = fi /\ Tail(x.prog) = <<>>
        BY <2>5
      <3>2. \A y : y.pc = x.pc /\ y.busy /\ y.prog = <<>> => ProgOK(y)
        BY <1>11 DEF ProgOK, ScanProg, hi, fi
      <3>. QED
        BY <2>0, <2>2, <3>1, <3>2 DEF ProgFacts
    <2>. QED
      BY <2>1, <2>3, <2>4, <2>5 DEF so, hi, fi
  <1>. QED
    BY <1>8, <1>9, <1>10, <1>11

-----------------------------------------------------------------------------
(* Views.  *)

\* What a transaction sees of a row.
LEMMA ViewParts ==
    ASSUME NEW t
    PROVE  /\ \A i \in Ids : View(t)[i] = Sees(t, i)
           /\ Filled(View(t)) = Visible(t)
           /\ TrackSet(View(t)) = Tracks(t)
  <1>1. \A i \in Ids : View(t)[i] = Sees(t, i)
    BY DEF View
  <1>2. Filled(View(t)) = Visible(t)
    BY <1>1 DEF Filled, Visible
  <1>3. TrackSet(View(t)) = Tracks(t)
    BY <1>1, <1>2 DEF TrackSet, Tracks, Visible
  <1>. QED
    BY <1>1, <1>2, <1>3

\* A view consists of rows.
LEMMA ViewType ==
    ASSUME TypeOK, NEW t
    PROVE  View(t) \in Views
  BY DEF TypeOK, View, Sees, Views

\* Rows that are filled have songs and tracks.
LEMMA RowType ==
    ASSUME NEW v \in Views, NEW i \in Filled(v)
    PROVE  v[i] \in Rows /\ v[i].track \in 0 .. MaxTrack /\ v[i].song \in Songs
  BY DEF Views, Filled, Rows

\* Without a lock of its own a transaction sees what is committed.
LEMMA ViewOfIdle ==
    ASSUME TypeOK, Locks, NEW t, ~tx[t].busy, t # NoTx
    PROVE  View(t) = com /\ \A i \in Ids : lock[i] # t
  <1>1. \A i \in Ids : lock[i] # t
    BY DEF Locks
  <1>. QED
    BY <1>1 DEF View, Sees, TypeOK

\* A new number of FixTrackNumbers is below the number of rows.
LEMMA NewTrackBound ==
    ASSUME NEW t, NEW i \in Visible(t), TypeOK
    PROVE  NewTrack(t, i) \in 0 .. Cardinality(Visible(t)) - 1
  <1>. DEFINE B == {j \in Visible(t) : Sees(t, j).track < Sees(t, i).track}
              V == Visible(t)
  <1>1. IsFiniteSet(V) /\ Cardinality(V) \in Nat
    BY Finite, ViewParts, FS_CardinalityType
  <1>2. Sees(t, i).track \in 0 .. MaxTrack
    <2>1. i \in Ids
      BY DEF Visible
    <2>2. i \in Filled(View(t)) /\ View(t)[i] = Sees(t, i)
      BY <2>1, ViewParts
    <2>3. View(t) \in Views
      BY ViewType
    <2>. QED
      BY <2>2, <2>3, RowType
  <1>3. B \subseteq V /\ i \notin B
    BY <1>2
  <1>4. NewTrack(t, i) = Cardinality(B)
    BY DEF NewTrack
  <1>. HIDE DEF B, V
  <1>5. IsFiniteSet(B) /\ Cardinality(B) <= Cardinality(V) /\ (Cardinality(B) = Cardinality(V) => B = V)
    BY <1>1, <1>3, FS_Subset
  <1>6. Cardinality(B) \in Nat
    BY <1>5, FS_CardinalityType
  <1>7. Cardinality(B) # Cardinality(V)
    BY <1>3, <1>5 DEF V
  <1>8. Cardinality(B) \in 0 .. Cardinality(V) - 1
    BY <1>1, <1>5, <1>6, <1>7
  <1>. QED
    BY <1>4, <1>8 DEF V

\* A snapshot just taken.
LEMMA TakenFresh ==
    ASSUME TypeOK, NEW t, NEW st, NEW f \in Snapshots(t, st),
           st.kind \in {"remove", "shift", "clear", "add", "songs", "hidden", "fix"}
    PROVE  /\ Fresh(View(t), st, f)
           /\ st.kind = "add" => f[1] \in -1 .. MaxTrack
           /\ st.kind # "add" => DOMAIN f \subseteq Ids
           /\ st.kind = "fix" => \A i \in DOMAIN f : f[i] \in 0 .. MaxTrack
  <1>. DEFINE v == View(t)
  <1>1. /\ \A i \in Ids : v[i] = Sees(t, i)
        /\ Filled(v) = Visible(t)
        /\ TrackSet(v) = Tracks(t)
    BY ViewParts
  <1>2. v \in Views /\ Visible(t) \subseteq Ids
    BY ViewType DEF Visible
  <1>. HIDE DEF v
  <1>3. CASE st.kind = "add"
    <2>1. f = <<Max(Tracks(t) \cup {-1})>>
      BY <1>3 DEF Snapshots
    <2>2. f[1] = Max(Tracks(t) \cup {-1})
      BY <2>1
    <2>3. TrackSet(v) \subseteq 0 .. MaxTrack
      BY <1>2, RowType DEF TrackSet
    <2>4. TrackSet(v) \cup {-1} \in SUBSET (-1 .. MaxTrack) /\ TrackSet(v) \cup {-1} # {}
      BY <2>3, Finite
    <2>5. Max(TrackSet(v) \cup {-1}) \in TrackSet(v) \cup {-1}
      BY <2>4, Finite, GreatestOf
    <2>. QED
      BY <1>1, <1>3, <2>2, <2>4, <2>5 DEF Fresh, v
  <1>4. CASE st.kind = "fix"
    <2>. DEFINE T == {i \in Visible(t) : FixCandidates(t, i) # {}}
                n == Cardinality(Visible(t))
    <2>1. DOMAIN f = T /\ \A i \in T : f[i] \in FixCandidates(t, i)
      BY <1>4 DEF Snapshots
    <2>2. n \in 0 .. MaxRows
      BY <1>1, Finite
    <2>3. \A i \in Visible(t) : NewTrack(t, i) \in 0 .. n - 1
      BY NewTrackBound
    <2>4. ASSUME NEW i \in T
          PROVE  f[i] \in 0 .. n - 1 /\ f[i] # v[i].track
      <3>1. f[i] \in FixCandidates(t, i) /\ i \in Visible(t)
        BY <2>1
      <3>2. PICK j \in Visible(t) : f[i] = NewTrack(t, j)
        BY <3>1 DEF FixCandidates
      <3>3. f[i] # Sees(t, i).track
        BY <3>1 DEF FixCandidates
      <3>. QED
        BY <1>1, <1>2, <2>3, <3>1, <3>2, <3>3
    <2>5. ASSUME NEW i \in Visible(t) \ T
          PROVE  v[i].track \in 0 .. n - 1
      <3>1. FixCandidates(t, i) = {}
        OBVIOUS
      <3>2. NewTrack(t, i) = Sees(t, i).track
        BY <3>1 DEF FixCandidates
      <3>. QED
        BY <1>1, <1>2, <2>3, <3>2
    <2>6. \A k \in 0 .. n - 1 : k \in 0 .. MaxTrack
      BY <2>2, Finite
    <2>7. T \subseteq Visible(t)
      OBVIOUS
    <2>. HIDE DEF T, n
    <2>8. Fresh(v, st, f)
      BY <1>1, <1>4, <2>1, <2>4, <2>5, <2>7 DEF Fresh, n
    <2>9. DOMAIN f \subseteq Ids /\ \A i \in DOMAIN f : f[i] \in 0 .. MaxTrack
      BY <1>2, <2>1, <2>4, <2>6, <2>7
    <2>. QED
      BY <1>4, <2>8, <2>9 DEF v
  <1>5. CASE st.kind \notin {"add", "fix"}
    <2>1. f = [i \in {i \in Visible(t) : Matches(st, <<>>, i, Sees(t, i))} |-> 0]
      BY <1>5 DEF Snapshots
    <2>2. DOMAIN f = {i \in Visible(t) : Matches(st, <<>>, i, Sees(t, i))}
      BY <2>1
    <2>3. DOMAIN f = {i \in Filled(v) : Matches(st, <<>>, i, v[i])}
      BY <1>1, <1>2, <2>2
    <2>4. CASE st.kind = "remove"
      BY <1>1, <1>2, <2>3, <2>4 DEF Fresh, Matches, v
    <2>5. CASE st.kind = "shift"
      BY <1>1, <1>2, <2>3, <2>5 DEF Fresh, Matches, v
    <2>6. CASE st.kind = "clear"
      BY <1>1, <1>2, <2>3, <2>6 DEF Fresh, Matches, v
    <2>7. CASE st.kind \in {"songs", "hidden"}
      BY <1>1, <1>2, <2>3, <2>7 DEF Fresh, v
    <2>. QED
      BY <1>5, <2>4, <2>5, <2>6, <2>7
  <1>. QED
    BY <1>3, <1>4, <1>5

-----------------------------------------------------------------------------
(* A transaction that begins, or takes the row of the playlist.  *)

\* Clients are neither the scan nor NoTx.
LEMMA Names ==
    /\ Scan \in Txs /\ NoTx \notin Txs /\ Scan \notin Clients
    /\ \A t \in Txs : t \in Clients \/ t = Scan
    /\ \A c \in Clients : c \in Txs /\ c # Scan /\ c # NoTx
  BY PlaylistAssumption DEF Txs

\* Views depend only on the versions of the rows and their locks.
LEMMA SameViews ==
    ASSUME UNCHANGED table, NEW t
    PROVE  View(t)' = View(t)
  BY DEF table, View, Sees

Begins(t, x) ==
    /\ tx[t].pc \in {"idle", "found"}
    /\ TxOK(t, x) /\ ~x.busy /\ ~x.taken
    /\ tx' = [tx EXCEPT ![t] = x]
    /\ UNCHANGED <<table, exists, songs, settled>>
    /\ \/ owner' = owner /\ x.pc \in {"idle", "found", "scan"}
       \/ /\ t \in Clients /\ owner = NoTx /\ owner' = t
          /\ x.pc \in {"edit", "replace", "drop"}
          /\ x.prog # <<>> => Head(x.prog).kind # "shift"
    /\ t = Scan => x.prog # <<>>

\* A transaction that begins without a write keeps the invariant.
LEMMA BeginKeeps ==
    ASSUME ListInv, NEW t \in Txs, NEW x, Begins(t, x)
    PROVE  ListInv'
  <1>. USE DEF Begins
  <1>1. /\ UNCHANGED <<com, cur, lock, exists, songs, settled>>
        /\ \A u : View(u)' = View(u)
    BY SameViews DEF table
  <1>2. DOMAIN tx = Txs /\ \A u \in Txs : TxOK(u, tx[u])
    BY DEF ListInv, Transactions
  <1>3. tx'[t] = x /\ DOMAIN tx' = Txs /\ \A u \in Txs \ {t} : tx'[u] = tx[u]
    BY <1>2
  <1>4. ~tx[t].busy
    BY <1>2 DEF TxOK, ProgOK
  <1>5. View(t) = com /\ \A i \in Ids : lock[i] # t
    BY <1>4, ViewOfIdle, Names DEF ListInv
  <1>6. TypeOK'
    <2>1. \A u \in Txs : tx'[u].pc \in {"idle", "found", "edit", "replace", "drop", "scan"}
      BY <1>2, <1>3 DEF TxOK
    <2>. QED
      BY <1>1, <2>1 DEF ListInv, TypeOK
  <1>7. Transactions'
    BY <1>2, <1>3 DEF Transactions
  <1>8. Locks'
    BY <1>1, <1>3, <1>5 DEF ListInv, Locks, TypeOK
  <1>9. Owning'
    BY <1>3, Names DEF ListInv, Owning
  <1>10. Apart'
    BY <1>3, Names DEF ListInv, Apart
  <1>11. Current'
    <2>. SUFFICES ASSUME NEW u \in Txs, tx'[u].taken, Calm(u)'
                  PROVE  Fresh(View(u), Head(tx[u].prog), tx[u].snap)'
      BY DEF Current
    <2>1. u # t
      BY <1>3
    <2>2. tx'[u] = tx[u] /\ Calm(u)
      BY <1>1, <1>3, <2>1 DEF Calm
    <2>3. Fresh(View(u), Head(tx[u].prog), tx[u].snap)
      BY <2>2 DEF ListInv, Current
    <2>. QED
      BY <1>1, <2>2, <2>3
  <1>12. Keys' /\ Numbers'
    BY <1>1 DEF ListInv, Keys, Numbers
  <1>13. Stage'
    <2>. SUFFICES ASSUME NEW c \in Clients, settled', owner' = c
                  PROVE  StageOf(View(c), tx[c].prog, tx[c].rm)'
      BY DEF Stage
    <2>1. CASE c = t
      <3>1. x.prog # <<>> => Head(x.prog).kind # "shift"
        BY <1>2, <2>1, Names DEF ListInv, Owning
      <3>2. Segment(com)
        BY <1>1 DEF ListInv, Numbers
      <3>3. StageOf(com, x.prog, x.rm)
        BY <3>1, <3>2 DEF StageOf
      <3>. QED
        BY <1>1, <1>3, <1>5, <2>1, <3>3
    <2>2. CASE c # t
      <3>1. owner = c /\ c \in Txs /\ tx'[c] = tx[c]
        BY <1>3, <2>2, Names
      <3>2. StageOf(View(c), tx[c].prog, tx[c].rm)
        BY <1>1, <3>1 DEF ListInv, Stage
      <3>. QED
        BY <1>1, <3>1, <3>2
    <2>. QED
      BY <2>1, <2>2
  <1>14. ScanDone'
    <2>. SUFFICES ASSUME tx'[Scan].pc = "scan", tx'[Scan].prog = <<>>, tx'[Scan].alone
                  PROVE  Segment(View(Scan))'
      BY DEF ScanDone
    <2>1. t # Scan /\ tx'[Scan] = tx[Scan]
      BY <1>3, Names
    <2>2. Segment(View(Scan))
      BY <2>1 DEF ListInv, ScanDone
    <2>. QED
      BY <1>1, <2>2
  <1>. QED
    BY <1>6, <1>7, <1>8, <1>9, <1>10, <1>11, <1>12, <1>13, <1>14 DEF ListInv

\* A transaction that has begun, and has no snapshot yet.
LEMMA Begun ==
    ASSUME NEW x, DOMAIN x = TxFields, NEW t \in Txs,
           x.rm \in SUBSET (0 .. MaxTrack), x.add \in Seq(Songs), x.taken = FALSE,
           x.busy = FALSE, x.deferred = FALSE, x.alone = TRUE,
           x.pc \in IF t = Scan THEN {"idle", "scan"} ELSE {"idle", "found", "edit", "replace", "drop"},
           x.pc \in {"idle", "found"} => x.prog = <<>>,
           x.pc = "edit" => EditProg(x),
           x.pc \in {"replace", "drop"} => ReplaceProg(x),
           x.pc = "scan" => ScanProg(x)
    PROVE  TxOK(t, x)
  BY DEF TxOK, ProgOK, SnapOK

\* The fields of an idle transaction.
LEMMA IdleFields ==
    /\ DOMAIN Idle = TxFields
    /\ Idle.pc = "idle" /\ Idle.rm = {} /\ Idle.add = <<>> /\ Idle.prog = <<>>
    /\ Idle.taken = FALSE /\ Idle.busy = FALSE /\ Idle.deferred = FALSE /\ Idle.alone = TRUE
    /\ Idle.add \in Seq(Songs)
    /\ \A t \in Txs : TxOK(t, Idle)
  <1>1. /\ DOMAIN Idle = TxFields
        /\ Idle.pc = "idle" /\ Idle.rm = {} /\ Idle.add = <<>> /\ Idle.prog = <<>>
        /\ Idle.taken = FALSE /\ Idle.busy = FALSE /\ Idle.deferred = FALSE /\ Idle.alone = TRUE
    BY DEF Idle, TxFields
  <1>2. Idle.add \in Seq(Songs)
    BY <1>1, EmptySeq
  <1>3. \A t \in Txs : TxOK(t, Idle)
    BY <1>1, <1>2, Begun
  <1>. QED
    BY <1>1, <1>2, <1>3

\* Reading the playlist, before the transaction.
LEMMA FindBegins ==
    ASSUME ListInv, NEW c \in Clients, NEW rm \in Removals, NEW add \in Adds,
           FindForUpdate(c, rm, add)
    PROVE  \E x : Begins(c, x) /\ (Asked => FullProg(x))
  <1>. DEFINE n == Cardinality(Visible(c))
              x == [Idle EXCEPT !.pc = "found", !.rm = rm, !.add = add, !.count = n]
  <1>1. /\ DOMAIN x = TxFields
        /\ x.pc = "found" /\ x.rm = rm /\ x.add = add /\ x.prog = <<>>
        /\ x.taken = FALSE /\ x.busy = FALSE /\ x.deferred = FALSE /\ x.alone = TRUE
    BY DEF Idle, TxFields
  <1>2. /\ tx' = [tx EXCEPT ![c] = x]
        /\ tx[c].pc = "idle"
        /\ UNCHANGED <<table, owner, exists, songs, settled>>
    BY DEF FindForUpdate
  <1>. HIDE DEF x
  <1>3. rm \in SUBSET (0 .. MaxTrack) /\ add \in Seq(Songs)
    BY PlaylistAssumption
  <1>4. TxOK(c, x)
    BY <1>1, <1>3, Begun, Names
  <1>9. Begins(c, x)
    BY <1>1, <1>2, <1>4, Names DEF Begins
  <1>10. FullProg(x)
    BY <1>1 DEF FullProg
  <1>. QED
    BY <1>9, <1>10

\* Update of the playlist row and validation of the indices.
LEMMA TouchBegins ==
    ASSUME ListInv, NEW c \in Clients, Touch(c)
    PROVE  \E x : Begins(c, x) /\ (Asked => FullProg(x))
  <1>. DEFINE y == tx[c]
              pr == Removing(y.rm) \o Adding(y.add)
              x == [y EXCEPT !.pc = "edit", !.count = 0, !.prog = pr]
  <1>1. DOMAIN tx = Txs /\ TxOK(c, y)
    BY Names DEF ListInv, Transactions
  <1>2. /\ y.pc = "found" /\ owner = NoTx /\ owner' = c
        /\ UNCHANGED <<table, exists, songs, settled>>
    BY DEF Touch
  <1>3. tx' = [tx EXCEPT ![c] = x]
    BY <1>1, Names DEF Touch
  <1>4. DOMAIN y = TxFields
    BY <1>1 DEF TxOK
  <1>5. /\ y.rm \in SUBSET (0 .. MaxTrack) /\ y.add \in Seq(Songs)
        /\ ~y.busy /\ ~y.taken
        /\ {y.taken, y.busy, y.deferred, y.alone} \subseteq BOOLEAN
    BY <1>1, <1>2 DEF TxOK, ProgOK, SnapOK
  <1>. HIDE DEF y, pr
  <1>6. /\ DOMAIN x = TxFields
        /\ x.pc = "edit" /\ x.rm = y.rm /\ x.add = y.add /\ x.prog = pr
        /\ x.taken = y.taken /\ x.busy = y.busy /\ x.deferred = y.deferred /\ x.alone = y.alone
    BY <1>4 DEF TxFields
  <1>. HIDE DEF x
  <1>7. EditProg(x) /\ (x.prog # <<>> => Head(x.prog).kind # "shift")
    <2>. DEFINE A == Adding(y.add)
                sh == Statement("shift", y.rm)
                re == Statement("remove", y.rm)
    <2>1. CASE y.rm = {}
      <3>1. pr = A
        BY <1>5, <2>1, TouchProg DEF pr
      <3>2. A # <<>> => Head(A) = Statement("add", y.add)
        BY <1>5, AddingProg
      <3>. QED
        BY <1>6, <3>1, <3>2, StatementFields DEF EditProg
    <2>2. CASE y.rm # {}
      <3>1. pr = <<re>> \o (<<sh>> \o A)
        BY <1>5, <2>2, TouchProg DEF pr
      <3>2. A \in Seq(Statements) /\ sh \in Statements /\ re \in Statements
        BY <1>5, AddingProg DEF Statement, Statements, Args
      <3>3. re.kind = "remove"
        BY StatementFields
      <3>4. EditProg(x)
        BY <1>6, <2>2, <3>1 DEF EditProg
      <3>. HIDE DEF A, sh, re
      <3>5. <<sh>> \o A \in Seq(Statements)
        BY <3>2, ConsParts
      <3>6. Head(pr) = re
        BY <3>1, <3>2, <3>5, ConsParts
      <3>. QED
        BY <1>6, <3>3, <3>4, <3>6
    <2>. QED
      BY <2>1, <2>2
  <1>8. TxOK(c, x)
    BY <1>5, <1>6, <1>7, Names DEF TxOK, ProgOK, SnapOK
  <1>9. Begins(c, x)
    BY <1>2, <1>3, <1>5, <1>6, <1>7, <1>8, Names DEF Begins, y
  <1>10. Asked => FullProg(x)
    <2>1. Asked => y.add \in Adds
      BY <1>2 DEF Asked, FullProg, y
    <2>. QED
      BY <1>6, <2>1 DEF FullProg, pr
  <1>. QED
    BY <1>9, <1>10

\* The beginning of a replacement.
LEMMA ReplaceBegins ==
    ASSUME ListInv, NEW c \in Clients, NEW add \in Adds, ReplaceTracks(c, add)
    PROVE  \E x : Begins(c, x) /\ (Asked => FullProg(x))
  <1>. DEFINE cl == Statement("clear", {})
              pr == <<cl>> \o Adding(add)
              x == [Idle EXCEPT !.pc = "replace", !.add = add, !.prog = pr]
  <1>1. /\ DOMAIN x = TxFields
        /\ x.pc = "replace" /\ x.rm = {} /\ x.add = add /\ x.prog = pr
        /\ x.taken = FALSE /\ x.busy = FALSE /\ x.deferred = FALSE /\ x.alone = TRUE
    BY DEF Idle, TxFields
  <1>2. /\ tx' = [tx EXCEPT ![c] = x]
        /\ tx[c].pc = "idle" /\ owner = NoTx /\ owner' = c
        /\ UNCHANGED <<table, exists, songs, settled>>
    BY DEF ReplaceTracks
  <1>. HIDE DEF x
  <1>3. add \in Seq(Songs)
    BY PlaylistAssumption
  <1>4. Adding(add) \in Seq(Statements) /\ cl \in Statements /\ cl.kind = "clear"
    BY <1>3, AddingProg DEF Statement, Statements, Args
  <1>5. ReplaceProg(x)
    BY <1>1 DEF ReplaceProg
  <1>. HIDE DEF cl
  <1>6. Head(pr) = cl
    BY <1>4, ConsParts
  <1>7. TxOK(c, x)
    BY <1>1, <1>3, <1>5, Begun, Names
  <1>9. Begins(c, x)
    BY <1>1, <1>2, <1>4, <1>6, <1>7, Names DEF Begins
  <1>10. FullProg(x)
    <2>1. pr # <<>>
      BY <1>4, ConsParts
    <2>. QED
      BY <1>1, <1>4, <1>6, <2>1 DEF FullProg, NextKind
  <1>. QED
    BY <1>9, <1>10

\* The beginning of a deletion.
LEMMA DeleteBegins ==
    ASSUME ListInv, NEW c \in Clients, Delete(c)
    PROVE  \E x : Begins(c, x) /\ (Asked => FullProg(x))
  <1>. DEFINE cl == Statement("clear", {})
              pr == <<cl>>
              x == [Idle EXCEPT !.pc = "drop", !.prog = pr]
  <1>1. /\ DOMAIN x = TxFields
        /\ x.pc = "drop" /\ x.rm = {} /\ x.add = <<>> /\ x.prog = pr
        /\ x.taken = FALSE /\ x.busy = FALSE /\ x.deferred = FALSE /\ x.alone = TRUE
    BY DEF Idle, TxFields
  <1>2. /\ tx' = [tx EXCEPT ![c] = x]
        /\ tx[c].pc = "idle" /\ owner = NoTx /\ owner' = c
        /\ UNCHANGED <<table, exists, songs, settled>>
    BY DEF Delete
  <1>. HIDE DEF x
  <1>3. x.add \in Seq(Songs)
    BY <1>1, EmptySeq
  <1>4. cl \in Statements /\ cl.kind = "clear"
    BY DEF Statement, Statements, Args
  <1>5. ReplaceProg(x)
    <2>1. Adding(<<>>) = <<>>
      BY DEF Adding
    <2>2. <<cl>> \in Seq(Statements)
      BY <1>4
    <2>3. <<cl>> \o <<>> = <<cl>>
      BY <2>2, ConcatEmptySeq
    <2>. QED
      BY <1>1, <2>1, <2>3 DEF ReplaceProg
  <1>. HIDE DEF cl
  <1>6. Head(pr) = cl
    OBVIOUS
  <1>7. TxOK(c, x)
    BY <1>1, <1>3, <1>5, Begun, Names
  <1>9. Begins(c, x)
    BY <1>1, <1>2, <1>4, <1>6, <1>7, Names DEF Begins
  <1>10. FullProg(x)
    BY <1>1 DEF FullProg
  <1>. QED
    BY <1>9, <1>10

\* The beginning of a scan.
LEMMA StartScanBegins ==
    ASSUME ListInv, NEW gone \in Purges, NEW hidden \in Purges, StartScan(gone, hidden)
    PROVE  \E x : Begins(Scan, x) /\ (Asked => FullProg(x))
  <1>. DEFINE pr == <<Statement("songs", gone), Statement("hidden", hidden), Statement("fix", {})>>
              x == [Idle EXCEPT !.pc = "scan", !.prog = pr]
  <1>1. /\ DOMAIN x = TxFields
        /\ x.pc = "scan" /\ x.rm = {} /\ x.add = <<>> /\ x.prog = pr
        /\ x.taken = FALSE /\ x.busy = FALSE /\ x.deferred = FALSE /\ x.alone = TRUE
    BY DEF Idle, TxFields
  <1>2. /\ tx' = [tx EXCEPT ![Scan] = x]
        /\ tx[Scan].pc = "idle" /\ owner' = owner
        /\ UNCHANGED <<table, exists, songs, settled>>
    BY DEF StartScan
  <1>. HIDE DEF x
  <1>3. x.add \in Seq(Songs)
    BY <1>1, EmptySeq
  <1>4. gone \in SUBSET Songs /\ hidden \in SUBSET Songs
    BY PlaylistAssumption
  <1>5. ScanProg(x)
    BY <1>1, <1>4 DEF ScanProg
  <1>6. pr # <<>>
    OBVIOUS
  <1>7. TxOK(Scan, x)
    BY <1>1, <1>3, <1>5, Begun, Names
  <1>9. Begins(Scan, x)
    BY <1>1, <1>2, <1>6, <1>7, Names DEF Begins
  <1>10. FullProg(x)
    BY <1>1 DEF FullProg
  <1>. QED
    BY <1>9, <1>10

-----------------------------------------------------------------------------
(* A statement takes its snapshot.  *)

\* Of two transactions only the program, what has been asked for and deferred are the same.
SameProgram(x, y) ==
    /\ DOMAIN y = DOMAIN x
    /\ y.pc = x.pc /\ y.rm = x.rm /\ y.add = x.add /\ y.prog = x.prog /\ y.deferred = x.deferred

\* The transaction that takes the snapshot, and the others.
Took(x, f, a) == [x EXCEPT !.taken = TRUE, !.snap = f, !.busy = TRUE, !.alone = a]
Beside(x, a) == [x EXCEPT !.alone = a]

\* What a snapshot changes: the fields of its transaction and who is alone.
LEMMA TakeEffect ==
    ASSUME ListInv, NEW t \in Txs, TakeSnapshot(t)
    PROVE  /\ tx[t].prog # <<>>
           /\ DOMAIN tx' = Txs
           /\ \A u \in Txs : /\ SameProgram(tx[u], tx'[u])
                             /\ tx'[u].alone \in BOOLEAN
                             /\ tx'[u].alone => tx[u].alone
           /\ \A u \in Txs \ {t} : /\ tx'[u].taken = tx[u].taken /\ tx'[u].snap = tx[u].snap
                                   /\ tx'[u].busy = tx[u].busy
           /\ tx'[t].taken = TRUE /\ tx'[t].busy = TRUE
           /\ tx'[t].snap \in Snapshots(t, Head(tx[t].prog))
           /\ t = Scan /\ tx'[t].alone => \A c \in Clients : ~tx[c].busy
           /\ t # Scan /\ tx'[Scan].alone => ~tx[Scan].busy
  <1>1. DOMAIN tx = Txs /\ \A u \in Txs : DOMAIN tx[u] = TxFields /\ tx[u].alone \in BOOLEAN
    BY DEF ListInv, Transactions, TxOK
  <1>. DEFINE own == tx[t].alone /\ \A c \in Clients : t = Scan => ~tx[c].busy
              oth(u) == tx[u].alone /\ ~(u = Scan /\ tx[u].busy)
  <1>2. own \in BOOLEAN /\ \A u \in Txs : oth(u) \in BOOLEAN
    BY <1>1
  <1>3. PICK f \in Snapshots(t, Head(tx[t].prog)) :
           tx' = [u \in Txs |->
                    IF u = t
                    THEN Took(tx[t], f, own) ELSE Beside(tx[u], oth(u))]
    BY DEF TakeSnapshot, Took, Beside
  <1>. HIDE DEF own, oth
  <1>4. tx'[t] = Took(tx[t], f, own)
    BY <1>3
  <1>5. \A u \in Txs \ {t} : tx'[u] = Beside(tx[u], oth(u))
    BY <1>3
  <1>6. /\ SameProgram(tx[t], tx'[t])
        /\ tx'[t].taken = TRUE /\ tx'[t].snap = f /\ tx'[t].busy = TRUE /\ tx'[t].alone = own
    <2>1. DOMAIN tx[t] = TxFields
      BY <1>1
    <2>2. PICK x, y, a : x = tx[t] /\ y = tx'[t] /\ a = own
      OBVIOUS
    <2>3. y = Took(x, f, a) /\ DOMAIN x = TxFields
      BY <1>4, <2>1, <2>2
    <2>4. /\ SameProgram(x, y)
          /\ y.taken = TRUE /\ y.snap = f /\ y.busy = TRUE /\ y.alone = a
      BY <2>3 DEF Took, TxFields, SameProgram
    <2>. QED
      BY <2>2, <2>4
  <1>7. ASSUME NEW u \in Txs \ {t}
        PROVE  /\ SameProgram(tx[u], tx'[u])
               /\ tx'[u].taken = tx[u].taken /\ tx'[u].snap = tx[u].snap
               /\ tx'[u].busy = tx[u].busy /\ tx'[u].alone = oth(u)
    <2>1. DOMAIN tx[u] = TxFields
      BY <1>1
    <2>2. tx'[u] = Beside(tx[u], oth(u))
      BY <1>5
    <2>3. PICK x, y, a : x = tx[u] /\ y = tx'[u] /\ a = oth(u)
      OBVIOUS
    <2>4. y = Beside(x, a) /\ DOMAIN x = TxFields
      BY <2>1, <2>2, <2>3
    <2>5. /\ SameProgram(x, y)
          /\ y.taken = x.taken /\ y.snap = x.snap /\ y.busy = x.busy /\ y.alone = a
      BY <2>4 DEF Beside, TxFields, SameProgram
    <2>. QED
      BY <2>3, <2>5
  <1>8. own => tx[t].alone /\ (t = Scan => \A c \in Clients : ~tx[c].busy)
    BY DEF own
  <1>9. \A u \in Txs : oth(u) => tx[u].alone /\ (u = Scan => ~tx[u].busy)
    BY DEF oth
  <1>10. tx[t].prog # <<>> /\ DOMAIN tx' = Txs
    BY <1>3 DEF TakeSnapshot
  <1>. QED
    BY <1>2, <1>3, <1>6, <1>7, <1>8, <1>9, <1>10, Names

\* Taking the snapshot of a statement keeps the invariant.
LEMMA TakeKeeps ==
    ASSUME ListInv, NEW t \in Txs, TakeSnapshot(t)
    PROVE  ListInv'
  <1>1. /\ tx[t].prog # <<>>
        /\ DOMAIN tx' = Txs
        /\ \A u \in Txs : /\ SameProgram(tx[u], tx'[u])
                          /\ tx'[u].alone \in BOOLEAN
                          /\ tx'[u].alone => tx[u].alone
        /\ \A u \in Txs \ {t} : /\ tx'[u].taken = tx[u].taken /\ tx'[u].snap = tx[u].snap
                                /\ tx'[u].busy = tx[u].busy
        /\ tx'[t].taken = TRUE /\ tx'[t].busy = TRUE
        /\ tx'[t].snap \in Snapshots(t, Head(tx[t].prog))
        /\ t = Scan /\ tx'[t].alone => \A c \in Clients : ~tx[c].busy
        /\ t # Scan /\ tx'[Scan].alone => ~tx[Scan].busy
    BY TakeEffect
  <1>2. /\ UNCHANGED <<com, cur, lock, owner, exists, settled>>
        /\ \A u : View(u)' = View(u)
    BY SameViews DEF TakeSnapshot, table
  <1>3. DOMAIN tx = Txs /\ \A u \in Txs : TxOK(u, tx[u])
    BY DEF ListInv, Transactions
  <1>4. PICK st : st = Head(tx[t].prog)
    OBVIOUS
  <1>5. st.kind \in {"remove", "shift", "clear", "add", "songs", "hidden", "fix"}
    <2>1. ProgFacts(t, tx[t], st, Tail(tx[t].prog))
      BY <1>1, <1>3, <1>4, Programs
    <2>. QED
      BY <2>1 DEF ProgFacts
  <1>6. PICK f \in Snapshots(t, st) : tx'[t].snap = f
    BY <1>1, <1>4
  <1>7. /\ Fresh(View(t), st, f)
        /\ st.kind = "add" => f[1] \in -1 .. MaxTrack
        /\ st.kind # "add" => DOMAIN f \subseteq Ids
        /\ st.kind = "fix" => \A i \in DOMAIN f : f[i] \in 0 .. MaxTrack
    <2>1. TypeOK
      BY DEF ListInv
    <2>. QED
      BY <1>5, <2>1, TakenFresh
  <1>8. Head(tx'[t].prog) = st
    BY <1>1, <1>4 DEF SameProgram
  <1>9. ASSUME NEW u \in Txs PROVE TxOK(u, tx'[u])
    <2>1. SameProgram(tx[u], tx'[u]) /\ TxOK(u, tx[u])
      BY <1>1, <1>3
    <2>2. tx[u].busy => tx'[u].busy
      BY <1>1
    <2>3. ~tx'[u].busy => ~tx[u].busy
      BY <2>2
    <2>4. tx'[u].pc \in {"idle", "found"} => ~tx'[u].busy
      BY <1>1, <2>1 DEF TxOK, ProgOK, SameProgram
    <2>5. ProgOK(tx'[u])
      <3>1. tx[u].pc = "edit" => EditProg(tx'[u])
        BY <2>1, <2>2 DEF TxOK, ProgOK, SameProgram, EditProg
      <3>2. tx[u].pc \in {"replace", "drop"} => ReplaceProg(tx'[u])
        BY <2>1 DEF TxOK, ProgOK, SameProgram, ReplaceProg
      <3>3. tx[u].pc = "scan" => ScanProg(tx'[u])
        BY <2>1, <2>2 DEF TxOK, ProgOK, SameProgram, ScanProg
      <3>4. tx[u].pc \in {"idle", "found"} => tx'[u].prog = <<>>
        BY <2>1 DEF TxOK, ProgOK, SameProgram
      <3>5. tx'[u].pc = tx[u].pc
        BY <2>1 DEF SameProgram
      <3>. QED
        BY <2>4, <3>1, <3>2, <3>3, <3>4, <3>5 DEF ProgOK
    <2>6. SnapOK(tx'[u])
      <3>1. CASE u = t
        BY <1>1, <1>6, <1>7, <1>8, <2>1, <3>1 DEF SnapOK, SameProgram
      <3>2. CASE u # t
        BY <1>1, <2>1, <3>2 DEF TxOK, SnapOK, SameProgram
      <3>. QED
        BY <3>1, <3>2
    <2>7. {tx'[u].taken, tx'[u].busy, tx'[u].alone} \subseteq BOOLEAN
      BY <1>1, <2>1 DEF TxOK
    <2>. QED
      BY <2>1, <2>5, <2>6, <2>7 DEF TxOK, SameProgram
  <1>10. songs' \in [Songs -> {"live", "dying", "dead"}]
    BY DEF TakeSnapshot, ListInv, TypeOK
  <1>11. TypeOK'
    <2>1. \A u \in Txs : tx'[u].pc \in {"idle", "found", "edit", "replace", "drop", "scan"}
      BY <1>9 DEF TxOK
    <2>. QED
      BY <1>2, <1>10, <2>1 DEF ListInv, TypeOK
  <1>12. Transactions'
    BY <1>1, <1>9 DEF Transactions
  <1>13. Locks'
    BY <1>1, <1>2 DEF ListInv, Locks, TypeOK
  <1>14. Owning'
    BY <1>1, <1>2, Names DEF ListInv, Owning, SameProgram
  <1>15. Apart'
    <2>. SUFFICES ASSUME NEW c \in Clients, tx'[c].busy, tx'[Scan].busy
                  PROVE  ~tx'[Scan].alone
      BY DEF Apart
    <2>1. CASE t = Scan
      BY <1>1, <2>1, Names
    <2>2. CASE t # Scan /\ t = c
      BY <1>1, <2>2, Names
    <2>3. CASE t # Scan /\ t # c
      BY <1>1, <2>3, Names
    <2>. QED
      BY <2>1, <2>2, <2>3
  <1>16. Current'
    <2>. SUFFICES ASSUME NEW u \in Txs, tx'[u].taken, Calm(u)'
                  PROVE  Fresh(View(u), Head(tx[u].prog), tx[u].snap)'
      BY DEF Current
    <2>1. CASE u = t
      BY <1>2, <1>6, <1>7, <1>8, <2>1
    <2>2. CASE u # t
      <3>1. tx[u].taken /\ tx'[u].snap = tx[u].snap /\ tx'[u].prog = tx[u].prog
        BY <1>1, <2>2 DEF SameProgram
      <3>2. Calm(u)
        BY <1>1, <1>2, Names DEF Calm
      <3>3. Fresh(View(u), Head(tx[u].prog), tx[u].snap)
        BY <3>1, <3>2 DEF ListInv, Current
      <3>. QED
        BY <1>2, <3>1, <3>3
    <2>. QED
      BY <2>1, <2>2
  <1>17. Keys' /\ Numbers'
    BY <1>2 DEF ListInv, Keys, Numbers
  <1>18. Stage'
    <2>. SUFFICES ASSUME NEW c \in Clients, settled', owner' = c
                  PROVE  StageOf(View(c), tx[c].prog, tx[c].rm)'
      BY DEF Stage
    <2>1. StageOf(View(c), tx[c].prog, tx[c].rm)
      BY <1>2 DEF ListInv, Stage
    <2>2. SameProgram(tx[c], tx'[c])
      BY <1>1, Names
    <2>3. StageOf(View(c), tx'[c].prog, tx'[c].rm)
      BY <2>1, <2>2 DEF StageOf, SameProgram
    <2>. QED
      BY <1>2, <2>3
  <1>19. ScanDone'
    <2>. SUFFICES ASSUME tx'[Scan].pc = "scan", tx'[Scan].prog = <<>>, tx'[Scan].alone
                  PROVE  Segment(View(Scan))'
      BY DEF ScanDone
    <2>1. tx[Scan].pc = "scan" /\ tx[Scan].prog = <<>> /\ tx[Scan].alone
      BY <1>1, Names DEF SameProgram
    <2>2. Segment(View(Scan))
      BY <2>1 DEF ListInv, ScanDone
    <2>. QED
      BY <1>2, <2>2
  <1>. QED
    BY <1>11, <1>12, <1>13, <1>14, <1>15, <1>16, <1>17, <1>18, <1>19 DEF ListInv

-----------------------------------------------------------------------------
(* A statement is executed.  *)

\* A transaction that has executed a statement goes on with the rest of its program.
LEMMA Advanced ==
    ASSUME ListInv, NEW t \in Txs, tx[t].taken, Advance(t)
    PROVE  /\ DOMAIN tx' = Txs
           /\ \A u \in Txs \ {t} : tx'[u] = tx[u]
           /\ tx[t].prog # <<>> /\ tx[t].busy
           /\ tx'[t].pc = tx[t].pc /\ tx'[t].rm = tx[t].rm /\ tx'[t].add = tx[t].add
           /\ tx'[t].busy = tx[t].busy /\ tx'[t].alone = tx[t].alone
           /\ tx'[t].prog = Tail(tx[t].prog)
           /\ tx'[t].taken = FALSE
           /\ TxOK(t, tx'[t])
  <1>1. DOMAIN tx = Txs /\ TxOK(t, tx[t])
    BY DEF ListInv, Transactions
  <1>2. DOMAIN tx[t] = TxFields /\ tx[t].prog # <<>> /\ tx[t].busy
    BY <1>1 DEF TxOK, SnapOK
  <1>3. ProgFacts(t, tx[t], Head(tx[t].prog), Tail(tx[t].prog))
    BY <1>1, <1>2, Programs
  <1>4. PICK d \in BOOLEAN : d = (tx[t].deferred \/ Head(tx[t].prog).kind = "shift")
    OBVIOUS
  <1>5. PICK x : x = tx[t]
    OBVIOUS
  <1>6. PICK q : q = Tail(x.prog)
    OBVIOUS
  <1>7. PICK y : y = [x EXCEPT !.prog = q, !.taken = FALSE, !.snap = <<>>, !.deferred = d]
    OBVIOUS
  <1>8. tx' = [tx EXCEPT ![t] = y]
    BY <1>1, <1>4, <1>5, <1>6, <1>7 DEF Advance
  <1>9. /\ DOMAIN y = TxFields
        /\ y.pc = x.pc /\ y.rm = x.rm /\ y.add = x.add /\ y.busy = x.busy /\ y.alone = x.alone
        /\ y.prog = q /\ y.taken = FALSE /\ y.deferred = d
    BY <1>2, <1>5, <1>7 DEF TxFields
  <1>10. ProgOK(y)
    BY <1>2, <1>3, <1>5, <1>6, <1>9 DEF ProgFacts
  <1>11. t = Scan => ~d
    BY <1>1, <1>3, <1>4 DEF ProgFacts, TxOK
  <1>12. TxOK(t, x)
    BY <1>1, <1>5
  <1>13. SnapOK(y)
    BY <1>9 DEF SnapOK
  <1>14. TxOK(t, y)
    BY <1>4, <1>9, <1>10, <1>11, <1>12, <1>13 DEF TxOK
  <1>. QED
    BY <1>1, <1>2, <1>5, <1>6, <1>8, <1>9, <1>14

\* View v after the rows in A have become N.
Written(v, A, N) == [i \in Ids |-> IF i \in A THEN N[i] ELSE v[i]]

Writes(t, A, N) ==
    /\ tx[t].taken
    /\ A \subseteq Ids
    /\ \A i \in A : lock[i] \in {t, NoTx} /\ N[i] \in Rows \cup {NoRow}
    /\ cur' = [i \in Ids |-> IF i \in A THEN N[i] ELSE cur[i]]
    /\ lock' = [i \in Ids |-> IF i \in A THEN t ELSE lock[i]]
    /\ Advance(t)
    /\ UNCHANGED <<com, owner, exists, songs, settled>>

\* A write changes the view of its transaction and no other.
LEMMA WriteViews ==
    ASSUME NEW t \in Txs, NEW A, NEW N, Writes(t, A, N)
    PROVE  /\ View(t)' = Written(View(t), A, N)
           /\ \A u \in Txs \ {t} : View(u)' = View(u)
  <1>1. /\ \A i \in A : lock[i] \in {t, NoTx}
        /\ cur' = [i \in Ids |-> IF i \in A THEN N[i] ELSE cur[i]]
        /\ lock' = [i \in Ids |-> IF i \in A THEN t ELSE lock[i]]
        /\ com' = com
    BY DEF Writes
  <1>2. \A i \in Ids : Sees(t, i)' = IF i \in A THEN N[i] ELSE Sees(t, i)
    BY <1>1 DEF Sees
  <1>3. View(t)' = Written(View(t), A, N)
    BY <1>1, <1>2 DEF View, Sees, Written
  <1>4. ASSUME NEW u \in Txs \ {t} PROVE View(u)' = View(u)
    <2>1. u # t /\ u # NoTx
      BY Names
    <2>. QED
      BY <1>1, <2>1 DEF View, Sees
  <1>. QED
    BY <1>3, <1>4

\* A write that takes the view of its transaction to its next stage keeps the invariant.
LEMMA WriteKeeps ==
    ASSUME ListInv, NEW t \in Txs, NEW A, NEW N, Writes(t, A, N),
           t \in Clients /\ settled =>
              StageOf(Written(View(t), A, N), Tail(tx[t].prog), tx[t].rm),
           t = Scan /\ tx[t].alone /\ Tail(tx[t].prog) = <<>> => Segment(Written(View(t), A, N))
    PROVE  ListInv'
  <1>1. /\ DOMAIN tx' = Txs
        /\ \A u \in Txs \ {t} : tx'[u] = tx[u]
        /\ tx[t].prog # <<>> /\ tx[t].busy
        /\ tx'[t].pc = tx[t].pc /\ tx'[t].rm = tx[t].rm /\ tx'[t].add = tx[t].add
        /\ tx'[t].busy = tx[t].busy /\ tx'[t].alone = tx[t].alone
        /\ tx'[t].prog = Tail(tx[t].prog)
        /\ tx'[t].taken = FALSE
        /\ TxOK(t, tx'[t])
    <2>1. tx[t].taken /\ Advance(t)
      BY DEF Writes
    <2>. QED
      BY <2>1, Advanced
  <1>2. View(t)' = Written(View(t), A, N) /\ \A u \in Txs \ {t} : View(u)' = View(u)
    BY WriteViews
  <1>3. /\ A \subseteq Ids
        /\ \A i \in A : lock[i] \in {t, NoTx} /\ N[i] \in Rows \cup {NoRow}
        /\ cur' = [i \in Ids |-> IF i \in A THEN N[i] ELSE cur[i]]
        /\ lock' = [i \in Ids |-> IF i \in A THEN t ELSE lock[i]]
        /\ UNCHANGED <<com, owner, exists, songs, settled>>
    BY DEF Writes
  <1>4. TypeOK
    BY DEF ListInv
  <1>5. TypeOK'
    <2>1. cur' \in [Ids -> Rows \cup {NoRow}] /\ lock' \in [Ids -> Txs \cup {NoTx}]
      BY <1>3, <1>4 DEF TypeOK
    <2>2. \A u \in Txs : tx'[u].pc \in {"idle", "found", "edit", "replace", "drop", "scan"}
      BY <1>1, <1>4 DEF TypeOK
    <2>. QED
      BY <1>3, <1>4, <2>1, <2>2 DEF TypeOK
  <1>6. Transactions'
    BY <1>1 DEF ListInv, Transactions
  <1>7. Locks'
    <2>. SUFFICES ASSUME NEW i \in Ids
                  PROVE  IF lock'[i] = NoTx THEN cur'[i] = com'[i] ELSE tx'[lock'[i]].busy
      BY DEF Locks
    <2>1. CASE i \in A
      BY <1>1, <1>3, <2>1, Names
    <2>2. CASE i \notin A
      <3>1. lock'[i] = lock[i] /\ cur'[i] = cur[i] /\ com'[i] = com[i] /\ lock[i] \in Txs \cup {NoTx}
        BY <1>3, <1>4, <2>2 DEF TypeOK
      <3>2. IF lock[i] = NoTx THEN cur[i] = com[i] ELSE tx[lock[i]].busy
        BY DEF ListInv, Locks
      <3>. QED
        BY <1>1, <3>1, <3>2
    <2>. QED
      BY <2>1, <2>2
  <1>8. Owning'
    BY <1>1, <1>3, Names DEF ListInv, Owning
  <1>9. Apart'
    BY <1>1, Names DEF ListInv, Apart
  <1>10. Current'
    <2>. SUFFICES ASSUME NEW u \in Txs, tx'[u].taken, Calm(u)'
                  PROVE  Fresh(View(u), Head(tx[u].prog), tx[u].snap)'
      BY DEF Current
    <2>1. u # t
      BY <1>1
    <2>2. tx'[u] = tx[u] /\ Calm(u)
      BY <1>1, <1>3, <2>1 DEF Calm
    <2>3. Fresh(View(u), Head(tx[u].prog), tx[u].snap)
      BY <2>2 DEF ListInv, Current
    <2>. QED
      BY <1>2, <2>1, <2>2, <2>3
  <1>11. Keys' /\ Numbers'
    BY <1>3 DEF ListInv, Keys, Numbers
  <1>12. Stage'
    <2>. SUFFICES ASSUME NEW c \in Clients, settled', owner' = c
                  PROVE  StageOf(View(c), tx[c].prog, tx[c].rm)'
      BY DEF Stage
    <2>1. CASE c = t
      <3>1. StageOf(Written(View(t), A, N), Tail(tx[t].prog), tx[t].rm)
        BY <1>3, <2>1
      <3>. QED
        BY <1>1, <1>2, <2>1, <3>1
    <2>2. CASE c # t
      <3>1. owner = c /\ c \in Txs \ {t} /\ tx'[c] = tx[c]
        BY <1>1, <1>3, <2>2, Names
      <3>2. StageOf(View(c), tx[c].prog, tx[c].rm)
        BY <1>3, <3>1 DEF ListInv, Stage
      <3>. QED
        BY <1>2, <3>1, <3>2
    <2>. QED
      BY <2>1, <2>2
  <1>13. ScanDone'
    <2>. SUFFICES ASSUME tx'[Scan].pc = "scan", tx'[Scan].prog = <<>>, tx'[Scan].alone
                  PROVE  Segment(View(Scan))'
      BY DEF ScanDone
    <2>1. CASE t = Scan
      <3>1. Segment(Written(View(t), A, N))
        BY <1>1, <2>1
      <3>. QED
        BY <1>2, <2>1, <3>1
    <2>2. CASE t # Scan
      <3>1. Scan \in Txs \ {t} /\ tx'[Scan] = tx[Scan]
        BY <1>1, <2>2, Names
      <3>2. Segment(View(Scan))
        BY <3>1 DEF ListInv, ScanDone
      <3>. QED
        BY <1>2, <3>1, <3>2
    <2>. QED
      BY <2>1, <2>2
  <1>. QED
    BY <1>5, <1>6, <1>7, <1>8, <1>9, <1>10, <1>11, <1>12, <1>13 DEF ListInv

\* The number of removed tracks below a track is at most the track.
LEMMA ShiftedType ==
    ASSUME NEW rm \in SUBSET (0 .. MaxTrack), NEW a \in 0 .. MaxTrack
    PROVE  /\ Shifted(a, rm) \in 0 .. MaxTrack
           /\ (\A r \in rm : ~(r < a)) => Shifted(a, rm) = a
  <1>. DEFINE R == {r \in rm : r < a}
  <1>1. IsFiniteSet(0 .. a - 1) /\ Cardinality(0 .. a - 1) = a
    BY Finite, FS_Interval
  <1>2. R \subseteq 0 .. a - 1
    <2>1. MaxTrack \in Nat
      BY Finite
    <2>2. ASSUME NEW r \in rm, r < a PROVE r \in 0 .. a - 1
      BY <2>1, <2>2
    <2>. QED
      BY <2>2
  <1>3. Shifted(a, rm) = a - Cardinality(R)
    BY DEF Shifted
  <1>4. (\A r \in rm : ~(r < a)) => R = {}
    OBVIOUS
  <1>. HIDE DEF R
  <1>5. IsFiniteSet(R) /\ Cardinality(R) <= a
    BY <1>1, <1>2, FS_Subset
  <1>6. Cardinality(R) \in Nat
    BY <1>5, FS_CardinalityType
  <1>7. R = {} => Cardinality(R) = 0
    BY FS_EmptySet
  <1>8. PICK k \in Nat : k = Cardinality(R)
    BY <1>6
  <1>9. MaxTrack \in Nat
    BY Finite
  <1>10. a - k \in 0 .. MaxTrack /\ (k = 0 => a - k = a)
    BY <1>5, <1>8, <1>9
  <1>. QED
    BY <1>3, <1>4, <1>7, <1>8, <1>10

\* A row with another track number within the bound is a row.
LEMMA Retracked ==
    ASSUME NEW r \in Rows, NEW k \in 0 .. MaxTrack
    PROVE  /\ [r EXCEPT !.track = k] \in Rows
           /\ [r EXCEPT !.track = k].track = k
           /\ [r EXCEPT !.track = k].song = r.song
           /\ [r EXCEPT !.track = k] # NoRow
  BY Finite DEF Rows

\* The primary key as KeysUnique has checked it, in the view of the transaction.
LEMMA KeysDistinct ==
    ASSUME NEW t, NEW c, NEW l, DistinctTracks(com), KeysUnique(t, c, l),
           NEW w, w = [i \in Ids |-> IF l[i] = t THEN c[i] ELSE com[i]]
    PROVE  DistinctTracks(w)
  <1>. SUFFICES ASSUME NEW i \in Filled(w), NEW j \in Filled(w), w[i].track = w[j].track, i # j
                PROVE  FALSE
    BY DEF DistinctTracks
  <1>1. i \in Ids /\ j \in Ids /\ w[i] # NoRow /\ w[j] # NoRow
    BY DEF Filled
  <1>2. \A k \in Ids : l[k] = t /\ c[k] # NoRow => Rivals(t, c, l, k) = {}
    BY DEF KeysUnique
  <1>3. ASSUME NEW a \in Ids, NEW b \in Ids, a # b, w[a] # NoRow, w[b] # NoRow,
               w[a].track = w[b].track, l[a] = t
        PROVE  FALSE
    <2>1. w[a] = c[a] /\ Rivals(t, c, l, a) = {}
      BY <1>2, <1>3
    <2>2. b \in Rivals(t, c, l, a)
      <3>1. CASE l[b] = t
        BY <1>3, <2>1, <3>1 DEF Rivals
      <3>2. CASE l[b] # t
        BY <1>3, <2>1, <3>2 DEF Rivals
      <3>. QED
        BY <3>1, <3>2
    <2>. QED
      BY <2>1, <2>2
  <1>4. CASE l[i] = t \/ l[j] = t
    BY <1>1, <1>3, <1>4
  <1>5. CASE l[i] # t /\ l[j] # t
    <2>1. w[i] = com[i] /\ w[j] = com[j] /\ i \in Filled(com) /\ j \in Filled(com)
      BY <1>1, <1>5 DEF Filled
    <2>. QED
      BY <2>1 DEF DistinctTracks
  <1>. QED
    BY <1>4, <1>5

\* A client with a statement to execute holds the row of the playlist.
LEMMA ClientWorks ==
    ASSUME ListInv, NEW t \in Clients, tx[t].prog # <<>>
    PROVE  owner = t
  <1>1. TxOK(t, tx[t]) /\ t # Scan
    BY Names DEF ListInv, Transactions
  <1>2. tx[t].pc \in {"edit", "replace", "drop"}
    BY <1>1 DEF TxOK, ProgOK
  <1>. QED
    BY <1>2 DEF ListInv, Owning

\* What an UPDATE or DELETE writes, and to which rows.
Affected(t, st, f) == {i \in DOMAIN f : Sees(t, i) # NoRow /\ Matches(st, f, i, Sees(t, i))}
NewRows(t, st, f) == [i \in Ids |-> NewVersion(st, f, i, Sees(t, i))]

\* Execute is such a step.
LEMMA ExecuteWrites ==
    ASSUME ListInv, NEW t \in Txs, Execute(t), NEW st, st = Head(tx[t].prog), NEW f, f = tx[t].snap
    PROVE  /\ Writes(t, Affected(t, st, f), NewRows(t, st, f))
           /\ tx[t].prog # <<>> /\ tx[t].taken
           /\ ProgFacts(t, tx[t], st, Tail(tx[t].prog))
           /\ st.kind # "add"
           /\ st.kind = "remove" => Cardinality(Affected(t, st, f)) = Cardinality(st.arg)
           /\ st.kind = "remove" => \A i \in Affected(t, st, f) : NewRows(t, st, f)[i] = NoRow
           /\ st.kind = "shift" => \A i \in Affected(t, st, f) : NewRows(t, st, f)[i] # NoRow
           /\ t = Scan => KeysUnique(t, cur', lock')
           /\ DOMAIN f \subseteq Ids
  <1>. DEFINE A == Affected(t, st, f)
              N == NewRows(t, st, f)
  <1>1. TxOK(t, tx[t]) /\ TypeOK
    BY DEF ListInv, Transactions
  <1>2. tx[t].taken /\ st.kind # "add"
    BY DEF Execute
  <1>3. /\ tx[t].prog # <<>>
        /\ DOMAIN f \subseteq Ids
        /\ st.kind = "fix" => \A i \in DOMAIN f : f[i] \in 0 .. MaxTrack
    BY <1>1, <1>2 DEF TxOK, SnapOK
  <1>4. ProgFacts(t, tx[t], st, Tail(tx[t].prog))
    BY <1>1, <1>3, Programs
  <1>5. A \subseteq Ids /\ A \subseteq DOMAIN f
    BY <1>3 DEF Affected
  <1>6. \A i \in Ids : i \in A => N[i] = NewVersion(st, f, i, Sees(t, i))
    BY DEF NewRows
  <1>7. cur' = [i \in Ids |-> IF i \in A THEN N[i] ELSE cur[i]]
    <2>1. cur' = [i \in Ids |-> IF i \in A THEN NewVersion(st, f, i, Sees(t, i)) ELSE cur[i]]
      BY DEF Execute, Affected
    <2>. QED
      BY <1>6, <2>1
  <1>8. /\ lock' = [i \in Ids |-> IF i \in A THEN t ELSE lock[i]]
        /\ \A i \in DOMAIN f : lock[i] \in {t, NoTx}
        /\ Advance(t)
        /\ UNCHANGED <<com, owner, exists, songs, settled>>
        /\ Complete(st, A)
        /\ tx[t].deferred \/ st.kind = "shift" \/ KeysUnique(t, cur', lock')
    BY DEF Execute, Affected
  <1>9. ASSUME NEW i \in A
        PROVE  /\ N[i] \in Rows \cup {NoRow}
               /\ st.kind = "remove" => N[i] = NoRow
               /\ st.kind = "shift" => N[i] # NoRow
    <2>1. i \in Ids /\ i \in DOMAIN f /\ Sees(t, i) # NoRow
      BY <1>5 DEF Affected
    <2>2. PICK r \in Rows : r = Sees(t, i)
      BY <1>1, <2>1 DEF TypeOK, Sees
    <2>3. r.track \in 0 .. MaxTrack
      BY DEF Rows
    <2>4. CASE st.kind = "shift"
      <3>1. st.arg \in SUBSET (0 .. MaxTrack)
        BY <1>1, <1>4, <2>4 DEF ProgFacts, TxOK
      <3>2. Shifted(r.track, st.arg) \in 0 .. MaxTrack
        BY <2>3, <3>1, ShiftedType
      <3>3. N[i] = [r EXCEPT !.track = Shifted(r.track, st.arg)]
        BY <1>6, <2>1, <2>2, <2>4 DEF NewVersion
      <3>. QED
        BY <2>4, <3>2, <3>3, Retracked
    <2>5. CASE st.kind = "fix"
      <3>1. f[i] \in 0 .. MaxTrack
        BY <1>3, <2>1, <2>5
      <3>2. N[i] = [r EXCEPT !.track = f[i]]
        BY <1>6, <2>1, <2>2, <2>5 DEF NewVersion
      <3>. QED
        BY <2>5, <3>1, <3>2, Retracked
    <2>6. CASE st.kind \notin {"shift", "fix"}
      <3>1. N[i] = NoRow
        BY <1>6, <2>1, <2>6 DEF NewVersion
      <3>. QED
        BY <2>6, <3>1
    <2>. QED
      BY <2>4, <2>5, <2>6
  <1>. HIDE DEF A, N
  <1>10. Writes(t, A, N)
    BY <1>2, <1>5, <1>7, <1>8, <1>9 DEF Writes
  <1>11. st.kind = "remove" => Cardinality(A) = Cardinality(st.arg)
    BY <1>8 DEF Complete
  <1>12. t = Scan => KeysUnique(t, cur', lock')
    BY <1>1, <1>4, <1>8 DEF TxOK, ProgFacts
  <1>. QED
    BY <1>2, <1>3, <1>4, <1>9, <1>10, <1>11, <1>12 DEF A, N

\* What a statement of an edit does to the rows the client sees.
ClientWrites(v, w, st, x, rest) ==
    /\ st.kind \in {"remove", "shift", "clear"}
    /\ st.kind = "remove" =>
          Segment(v) /\ rest # <<>> /\ Head(rest).kind = "shift" /\ Cut(v, w, x.rm)
    /\ st.kind = "shift" =>
          /\ Holed(v, x.rm) /\ (rest # <<>> => Head(rest).kind # "shift")
          /\ Filled(w) = Filled(v)
          /\ \A i \in Filled(v) : w[i].track = Shifted(v[i].track, x.rm) /\ w[i].song = v[i].song
    /\ st.kind = "clear" =>
          (rest # <<>> => Head(rest).kind # "shift") /\ \A i \in Ids : w[i] = NoRow

\* In a settled playlist a statement of a client does so to all rows that match.
LEMMA ClientRows ==
    ASSUME ListInv, NEW t \in Clients, Execute(t), settled,
           NEW st, st = Head(tx[t].prog), NEW f, f = tx[t].snap
    PROVE  ClientWrites(View(t), Written(View(t), Affected(t, st, f), NewRows(t, st, f)),
                        st, tx[t], Tail(tx[t].prog))
  <1>. DEFINE A == Affected(t, st, f)
              N == NewRows(t, st, f)
              v == View(t)
              w == Written(v, A, N)
              rm == tx[t].rm
              rest == Tail(tx[t].prog)
  <1>1. t \in Txs /\ t # Scan
    BY Names
  <1>2. /\ tx[t].prog # <<>> /\ tx[t].taken
        /\ ProgFacts(t, tx[t], st, rest)
        /\ st.kind # "add"
        /\ st.kind = "remove" => Cardinality(A) = Cardinality(st.arg)
        /\ DOMAIN f \subseteq Ids
    BY <1>1, ExecuteWrites
  <1>3. TypeOK /\ TxOK(t, tx[t]) /\ rm \in SUBSET (0 .. MaxTrack)
    BY <1>1 DEF ListInv, Transactions, TxOK
  <1>4. Fresh(v, st, f)
    BY <1>1, <1>2 DEF ListInv, Current, Calm
  <1>5. StageOf(v, tx[t].prog, rm)
    BY <1>2, ClientWorks DEF ListInv, Stage
  <1>6. v \in Views /\ \A i \in Ids : v[i] = Sees(t, i)
    BY <1>3, ViewType, ViewParts
  <1>7. A = {i \in DOMAIN f : v[i] # NoRow /\ Matches(st, f, i, v[i])}
    BY <1>2, <1>6 DEF Affected
  <1>8. \A i \in A : i \in Ids /\ N[i] = NewVersion(st, f, i, v[i])
    BY <1>2, <1>6, <1>7 DEF NewRows
  <1>9. \A i \in Ids : w[i] = IF i \in A THEN N[i] ELSE v[i]
    BY DEF Written
  <1>10. Filled(v) \subseteq Ids /\ \A i \in Ids : i \in Filled(v) <=> v[i] # NoRow
    BY DEF Filled
  <1>. HIDE DEF A, N, v, w, rm, rest
  <1>11. st.kind \in {"remove", "shift", "clear"}
    BY <1>1, <1>2 DEF ProgFacts
  <1>12. CASE st.kind = "remove"
    <2>1. st.arg = rm /\ rest # <<>> /\ Head(rest).kind = "shift"
      BY <1>2, <1>12 DEF ProgFacts, rm
    <2>2. Segment(v)
      BY <1>2, <1>5, <1>12 DEF StageOf
    <2>3. DOMAIN f = {i \in Filled(v) : v[i].track \in rm}
      BY <1>4, <1>12, <2>1 DEF Fresh
    <2>4. A = {i \in Filled(v) : v[i].track \in rm}
      BY <1>7, <1>10, <1>12, <2>1, <2>3 DEF Matches
    <2>5. \A i \in Ids : w[i] = IF i \in A THEN NoRow ELSE v[i]
      BY <1>8, <1>9, <1>12 DEF NewVersion
    <2>6. Cardinality(A) = Cardinality(rm)
      BY <1>2, <1>12, <2>1
    <2>7. ClientWrites(v, w, st, tx[t], rest)
      BY <1>12, <2>1, <2>2, <2>4, <2>5, <2>6 DEF ClientWrites, Cut, rm
    <2>. QED
      BY <2>7 DEF A, N, v, w, rest
  <1>13. CASE st.kind = "shift"
    <2>1. st.arg = rm /\ rm # {} /\ (rest # <<>> => Head(rest).kind # "shift")
      BY <1>2, <1>13 DEF ProgFacts, rm
    <2>2. Holed(v, rm)
      BY <1>2, <1>5, <1>13 DEF StageOf
    <2>3. DOMAIN f = {i \in Filled(v) : v[i].track > Min(rm)}
      BY <1>4, <1>13, <2>1 DEF Fresh
    <2>4. A = {i \in Filled(v) : v[i].track > Min(rm)}
      BY <1>7, <1>10, <1>13, <2>1, <2>3 DEF Matches
    <2>5. rm \in SUBSET Nat
      BY <1>3, Finite
    <2>6. Min(rm) \in Nat /\ \A r \in rm : Min(rm) <= r
      BY <2>1, <2>5, LeastOf
    <2>7. ASSUME NEW i \in Filled(v)
          PROVE  w[i] # NoRow /\ w[i].track = Shifted(v[i].track, rm) /\ w[i].song = v[i].song
      <3>1. v[i] \in Rows /\ v[i].track \in 0 .. MaxTrack /\ i \in Ids
        BY <1>6, <1>10, RowType
      <3>2. CASE i \in A
        <4>1. w[i] = [v[i] EXCEPT !.track = Shifted(v[i].track, rm)]
          BY <1>8, <1>9, <1>13, <2>1, <3>2 DEF NewVersion
        <4>2. Shifted(v[i].track, rm) \in 0 .. MaxTrack
          BY <1>3, <3>1, ShiftedType
        <4>. QED
          BY <3>1, <4>1, <4>2, Retracked
      <3>3. CASE i \notin A
        <4>1. w[i] = v[i] /\ ~(v[i].track > Min(rm))
          BY <1>9, <2>4, <3>1, <3>3
        <4>2. PICK m \in Nat : m = Min(rm)
          BY <2>6
        <4>3. PICK a \in 0 .. MaxTrack : a = v[i].track
          BY <3>1
        <4>4. \A r \in rm : ~(r < a)
          BY <2>5, <2>6, <4>1, <4>2, <4>3
        <4>5. Shifted(a, rm) = a
          BY <1>3, <4>4, ShiftedType
        <4>. QED
          BY <1>10, <4>1, <4>3, <4>5
      <3>. QED
        BY <3>2, <3>3
    <2>8. Filled(w) = Filled(v)
      <3>1. \A i \in Ids \ Filled(v) : w[i] = NoRow
        BY <1>9, <1>10, <2>4
      <3>. QED
        BY <1>10, <2>7, <3>1 DEF Filled
    <2>9. ClientWrites(v, w, st, tx[t], rest)
      BY <1>13, <2>1, <2>2, <2>7, <2>8 DEF ClientWrites, rm
    <2>. QED
      BY <2>9 DEF A, N, v, w, rest
  <1>14. CASE st.kind = "clear"
    <2>1. rest # <<>> => Head(rest).kind # "shift"
      BY <1>2, <1>14 DEF ProgFacts
    <2>2. DOMAIN f = Filled(v)
      BY <1>4, <1>14 DEF Fresh
    <2>3. A = Filled(v)
      BY <1>7, <1>10, <1>14, <2>2 DEF Matches
    <2>4. \A i \in Ids : w[i] = NoRow
      BY <1>8, <1>9, <1>10, <1>14, <2>3 DEF NewVersion
    <2>5. ClientWrites(v, w, st, tx[t], rest)
      BY <1>14, <2>1, <2>4 DEF ClientWrites
    <2>. QED
      BY <2>5 DEF A, N, v, w, rest
  <1>. QED
    BY <1>11, <1>12, <1>13, <1>14

\* A statement of an edit takes the view of the client to the next stage.
LEMMA ClientExecutes ==
    ASSUME ListInv, NEW t \in Clients, Execute(t), settled,
           NEW st, st = Head(tx[t].prog), NEW f, f = tx[t].snap
    PROVE  StageOf(Written(View(t), Affected(t, st, f), NewRows(t, st, f)),
                   Tail(tx[t].prog), tx[t].rm)
  <1>1. PICK v, w, x, rest : /\ v = View(t) /\ x = tx[t] /\ rest = Tail(tx[t].prog)
                             /\ w = Written(View(t), Affected(t, st, f), NewRows(t, st, f))
    OBVIOUS
  <1>2. ClientWrites(v, w, st, x, rest)
    BY <1>1, ClientRows
  <1>3. x.rm \in SUBSET (0 .. MaxTrack)
    BY <1>1, Names DEF ListInv, Transactions, TxOK
  <1>4. CASE st.kind = "remove"
    <2>1. Holed(w, x.rm)
      BY <1>2, <1>3, <1>4, RemovedView DEF ClientWrites
    <2>. QED
      BY <1>1, <1>2, <1>4, <2>1 DEF ClientWrites, StageOf
  <1>5. CASE st.kind = "shift"
    <2>1. Segment(w)
      BY <1>2, <1>3, <1>5, ShiftedView DEF ClientWrites
    <2>. QED
      BY <1>1, <1>2, <1>5, <2>1 DEF ClientWrites, StageOf
  <1>6. CASE st.kind = "clear"
    <2>1. Segment(w)
      BY <1>2, <1>6, EmptyView DEF ClientWrites, Filled
    <2>. QED
      BY <1>1, <1>2, <1>6, <2>1 DEF ClientWrites, StageOf
  <1>. QED
    BY <1>2, <1>4, <1>5, <1>6 DEF ClientWrites

\* What a statement of a scan that is alone does to the rows it sees.
ScanWrites(v, w, st, f) ==
    /\ st.kind \in {"songs", "hidden"} =>
          \A i \in Ids : w[i] = IF i \in DOMAIN f /\ v[i] # NoRow /\ v[i].song \in st.arg
                                THEN NoRow ELSE v[i]
    /\ st.kind = "fix" =>
          /\ DOMAIN f \subseteq Filled(v)
          /\ Filled(w) = Filled(v)
          /\ \A i \in Filled(v) : /\ w[i].song = v[i].song
                                  /\ w[i].track = IF i \in DOMAIN f THEN f[i] ELSE v[i].track
                                  /\ w[i].track \in 0 .. Cardinality(Filled(v)) - 1
          /\ DistinctTracks(w)

\* The rows of the songs are deleted, or the rows have the numbers of the snapshot.
LEMMA ScanRows ==
    ASSUME ListInv, Execute(Scan), tx[Scan].alone,
           NEW st, st = Head(tx[Scan].prog), NEW f, f = tx[Scan].snap
    PROVE  ScanWrites(View(Scan), Written(View(Scan), Affected(Scan, st, f), NewRows(Scan, st, f)),
                      st, f)
  <1>. DEFINE A == Affected(Scan, st, f)
              N == NewRows(Scan, st, f)
              v == View(Scan)
              w == Written(v, A, N)
              n == Cardinality(Filled(v))
  <1>1. /\ Writes(Scan, A, N)
        /\ tx[Scan].prog # <<>> /\ tx[Scan].taken
        /\ ProgFacts(Scan, tx[Scan], st, Tail(tx[Scan].prog))
        /\ KeysUnique(Scan, cur', lock')
        /\ DOMAIN f \subseteq Ids
    BY Names, ExecuteWrites
  <1>2. st.kind \in {"songs", "hidden", "fix"}
    BY <1>1 DEF ProgFacts
  <1>3. Fresh(v, st, f)
    BY <1>1, Names DEF ListInv, Current, Calm
  <1>4. v \in Views /\ \A i \in Ids : v[i] = Sees(Scan, i)
    BY ViewType, ViewParts DEF ListInv
  <1>5. w = View(Scan)'
    BY <1>1, WriteViews, Names
  <1>6. DistinctTracks(w)
    <2>1. com' = com
      BY <1>1 DEF Writes
    <2>2. w = [i \in Ids |-> IF lock'[i] = Scan THEN cur'[i] ELSE com[i]]
      BY <1>5, <2>1 DEF View, Sees
    <2>3. DistinctTracks(com)
      BY DEF ListInv, Keys
    <2>. HIDE DEF w
    <2>4. PICK c, l : c = cur' /\ l = lock'
      OBVIOUS
    <2>5. KeysUnique(Scan, c, l) /\ w = [i \in Ids |-> IF l[i] = Scan THEN c[i] ELSE com[i]]
      BY <1>1, <2>2, <2>4
    <2>. QED
      BY <2>3, <2>5, KeysDistinct
  <1>7. A = {i \in DOMAIN f : v[i] # NoRow /\ Matches(st, f, i, v[i])}
    BY <1>1, <1>4 DEF Affected
  <1>8. \A i \in A : i \in Ids /\ N[i] = NewVersion(st, f, i, v[i])
    BY <1>1, <1>4, <1>7 DEF NewRows
  <1>9. \A i \in Ids : w[i] = IF i \in A THEN N[i] ELSE v[i]
    BY DEF Written
  <1>10. Filled(v) \subseteq Ids /\ \A i \in Ids : i \in Filled(v) <=> v[i] # NoRow
    BY DEF Filled
  <1>. HIDE DEF A, N, v, w, n
  <1>11. CASE st.kind \in {"songs", "hidden"}
    <2>1. A = {i \in DOMAIN f : v[i] # NoRow /\ v[i].song \in st.arg}
      BY <1>7, <1>11 DEF Matches
    <2>2. \A i \in A : N[i] = NoRow
      BY <1>8, <1>11 DEF NewVersion
    <2>3. ScanWrites(v, w, st, f)
      BY <1>9, <1>11, <2>1, <2>2 DEF ScanWrites
    <2>. QED
      BY <2>3 DEF A, N, v, w
  <1>12. CASE st.kind = "fix"
    <2>1. /\ DOMAIN f \subseteq Filled(v)
          /\ \A i \in DOMAIN f : f[i] \in 0 .. n - 1 /\ f[i] # v[i].track
          /\ \A i \in Filled(v) \ DOMAIN f : v[i].track \in 0 .. n - 1
      BY <1>3, <1>12 DEF Fresh, n
    <2>2. A = DOMAIN f
      BY <1>7, <1>10, <1>12, <2>1 DEF Matches
    <2>3. n \in 0 .. MaxRows /\ MaxRows \in Nat /\ MaxTrack \in Nat /\ MaxRows <= MaxTrack + 1
      BY Finite DEF n
    <2>4. \A k \in 0 .. n - 1 : k \in 0 .. MaxTrack
      BY <2>3
    <2>5. ASSUME NEW i \in Filled(v)
          PROVE  /\ w[i] # NoRow /\ w[i].track \in 0 .. n - 1 /\ w[i].song = v[i].song
                 /\ w[i].track = IF i \in DOMAIN f THEN f[i] ELSE v[i].track
      <3>1. v[i] \in Rows /\ i \in Ids
        BY <1>4, <1>10, RowType
      <3>2. CASE i \in A
        <4>1. w[i] = [v[i] EXCEPT !.track = f[i]]
          BY <1>8, <1>9, <1>12, <3>2 DEF NewVersion
        <4>2. f[i] \in 0 .. n - 1 /\ f[i] \in 0 .. MaxTrack
          BY <2>1, <2>2, <2>4, <3>2
        <4>. QED
          BY <2>2, <3>1, <3>2, <4>1, <4>2, Retracked
      <3>3. CASE i \notin A
        BY <1>9, <1>10, <2>1, <2>2, <3>1, <3>3
      <3>. QED
        BY <3>2, <3>3
    <2>6. Filled(w) = Filled(v)
      <3>1. \A i \in Ids \ Filled(v) : w[i] = NoRow
        BY <1>9, <1>10, <2>1, <2>2
      <3>. QED
        BY <1>10, <2>5, <3>1 DEF Filled
    <2>7. ScanWrites(v, w, st, f)
      BY <1>6, <1>12, <2>1, <2>5, <2>6 DEF ScanWrites, n
    <2>. QED
      BY <2>7 DEF A, N, v, w
  <1>. QED
    BY <1>2, <1>11, <1>12

\* FixTrackNumbers of a scan that is alone numbers its view from 0 without gaps.
LEMMA ScanFixes ==
    ASSUME ListInv, Execute(Scan), tx[Scan].alone, Tail(tx[Scan].prog) = <<>>,
           NEW st, st = Head(tx[Scan].prog), NEW f, f = tx[Scan].snap
    PROVE  Segment(Written(View(Scan), Affected(Scan, st, f), NewRows(Scan, st, f)))
  <1>1. PICK v, w : /\ v = View(Scan)
                    /\ w = Written(View(Scan), Affected(Scan, st, f), NewRows(Scan, st, f))
    OBVIOUS
  <1>2. st.kind = "fix"
    <2>1. ProgFacts(Scan, tx[Scan], st, Tail(tx[Scan].prog))
      BY Names, ExecuteWrites
    <2>. QED
      BY <2>1 DEF ProgFacts
  <1>3. ScanWrites(v, w, st, f)
    BY <1>1, ScanRows
  <1>4. /\ DistinctTracks(w)
        /\ TrackSet(w) \subseteq 0 .. Cardinality(Filled(w)) - 1
    BY <1>2, <1>3 DEF ScanWrites, TrackSet
  <1>. QED
    BY <1>1, <1>4, Pigeons

\* UPDATE and DELETE statements keep the invariant.
LEMMA ExecuteKeeps ==
    ASSUME ListInv, NEW t \in Txs, Execute(t)
    PROVE  ListInv'
  <1>1. PICK st, f : st = Head(tx[t].prog) /\ f = tx[t].snap
    OBVIOUS
  <1>2. PICK A, N : A = Affected(t, st, f) /\ N = NewRows(t, st, f)
    OBVIOUS
  <1>3. Writes(t, A, N)
    BY <1>1, <1>2, ExecuteWrites
  <1>4. t \in Clients /\ settled => StageOf(Written(View(t), A, N), Tail(tx[t].prog), tx[t].rm)
    BY <1>1, <1>2, ClientExecutes
  <1>5. t = Scan /\ tx[t].alone /\ Tail(tx[t].prog) = <<>> => Segment(Written(View(t), A, N))
    BY <1>1, <1>2, ScanFixes
  <1>. QED
    BY <1>3, <1>4, <1>5, WriteKeeps

\* The rows AddTracks inserts.
NewIds(F, n) == {i \in F : PlaceIn(F, i) <= n}
Inserted(F, add, m) ==
    [i \in Ids |-> [song |-> add[PlaceIn(F, i)], track |-> m + PlaceIn(F, i)]]

\* INSERT writes them to rows nobody uses.
LEMMA InsertWrites ==
    ASSUME ListInv, NEW t \in Txs, Insert(t), NEW add, add = tx[t].add, NEW F, F = FreeIds,
           NEW m, m = tx[t].snap[1]
    PROVE  /\ Writes(t, NewIds(F, Len(add)), Inserted(F, add, m))
           /\ t \in Clients /\ tx[t].taken
           /\ tx[t].prog # <<>> /\ Head(tx[t].prog).kind = "add" /\ Tail(tx[t].prog) = <<>>
           /\ add \in Seq(Songs)
           /\ F \in SUBSET Ids /\ Len(add) <= Cardinality(F)
           /\ \A i \in F : com[i] = NoRow /\ lock[i] = NoTx
           /\ m \in -1 .. MaxTrack
           /\ \A i \in NewIds(F, Len(add)) :
                 /\ PlaceIn(F, i) \in 1 .. Len(add)
                 /\ Inserted(F, add, m)[i] \in Rows
                 /\ Inserted(F, add, m)[i].song = add[PlaceIn(F, i)]
                 /\ Inserted(F, add, m)[i].track = m + PlaceIn(F, i)
  <1>1. PICK st, f, n : st = Head(tx[t].prog) /\ f = tx[t].snap /\ n = Len(add) /\ m = f[1]
    OBVIOUS
  <1>. DEFINE A == NewIds(F, n)
              N == Inserted(F, add, m)
  <1>2. TypeOK /\ TxOK(t, tx[t]) /\ tx[t].taken /\ st.kind = "add"
    BY <1>1 DEF ListInv, Transactions, Insert
  <1>3. tx[t].prog # <<>> /\ m \in -1 .. MaxTrack
    BY <1>1, <1>2 DEF TxOK, SnapOK
  <1>4. ProgFacts(t, tx[t], st, Tail(tx[t].prog))
    BY <1>1, <1>2, <1>3, Programs
  <1>5. t \in Clients /\ st.arg = add /\ add \in Seq(Songs) /\ n \in Nat /\ Tail(tx[t].prog) = <<>>
    <2>1. t # Scan /\ st.arg = add /\ Tail(tx[t].prog) = <<>>
      BY <1>2, <1>4 DEF ProgFacts
    <2>2. add \in Seq(Songs)
      BY <1>2 DEF TxOK
    <2>. QED
      BY <1>1, <2>1, <2>2, Names
  <1>6. /\ F \in SUBSET Ids
        /\ \A i \in F : com[i] = NoRow /\ lock[i] = NoTx
    BY DEF FreeIds
  <1>7. \A i : Place(i) = PlaceIn(F, i)
    BY DEF Place, PlaceIn
  <1>8. /\ Cardinality(F) >= n
        /\ m + n <= MaxTrack
        /\ Advance(t)
        /\ UNCHANGED <<com, owner, exists, songs, settled>>
        /\ lock' = [i \in Ids |-> IF i \in {j \in F : Place(j) <= n} THEN t ELSE lock[i]]
        /\ cur' = [i \in Ids |-> IF i \in {j \in F : Place(j) <= n}
                                 THEN [song |-> add[Place(i)], track |-> m + Place(i)]
                                 ELSE cur[i]]
    BY <1>1, <1>5 DEF Insert
  <1>9. {j \in F : Place(j) <= n} = A
    BY <1>7 DEF NewIds
  <1>10. \A i \in Ids : N[i] = [song |-> add[Place(i)], track |-> m + Place(i)]
    BY <1>7 DEF Inserted
  <1>11. \A i \in F : PlaceIn(F, i) \in 1 .. Cardinality(F)
    BY <1>6, Places
  <1>12. IsFiniteSet(F) /\ Cardinality(F) \in Nat
    BY <1>6, Finite, FS_Subset, FS_CardinalityType
  <1>13. MaxTrack \in Nat
    BY Finite
  <1>14. A \subseteq F
    BY DEF NewIds
  <1>. HIDE DEF N
  <1>15. ASSUME NEW i \in A
         PROVE  /\ i \in Ids /\ i \in F
                /\ PlaceIn(F, i) \in 1 .. n
                /\ N[i] \in Rows
                /\ N[i].song = add[PlaceIn(F, i)]
                /\ N[i].track = m + PlaceIn(F, i)
    <2>1. i \in Ids /\ i \in F
      BY <1>6, <1>14
    <2>2. PICK c \in Nat : c = Cardinality(F)
      BY <1>12
    <2>3. PICK p \in 1 .. c : p = PlaceIn(F, i)
      BY <1>11, <2>1, <2>2
    <2>4. p \in 1 .. n
      BY <1>5, <2>3 DEF NewIds
    <2>5. m + p \in 0 .. MaxTrack
      BY <1>3, <1>5, <1>8, <1>13, <2>4, SMTT(30)
    <2>6. add[p] \in Songs
      BY <1>1, <1>5, <2>4, ElementOfSeq
    <2>7. N[i] = [song |-> add[p], track |-> m + p]
      BY <1>7, <1>10, <2>1, <2>3
    <2>8. [song |-> add[p], track |-> m + p] \in Rows
      BY <2>5, <2>6 DEF Rows
    <2>. QED
      BY <2>1, <2>3, <2>4, <2>7, <2>8
  <1>. HIDE DEF A
  <1>16. Writes(t, A, N)
    <2>1. A \subseteq Ids /\ \A i \in A : lock[i] \in {t, NoTx} /\ N[i] \in Rows \cup {NoRow}
      BY <1>6, <1>15
    <2>2. cur' = [i \in Ids |-> IF i \in A THEN N[i] ELSE cur[i]]
      BY <1>8, <1>9, <1>10
    <2>. QED
      BY <1>2, <1>8, <1>9, <2>1, <2>2 DEF Writes
  <1>. QED
    BY <1>1, <1>2, <1>3, <1>5, <1>6, <1>8, <1>12, <1>15, <1>16 DEF A, N

AddsRows(v, w, F, add, m) ==
    /\ m = Max(TrackSet(v) \cup {-1})
    /\ \A i \in F : v[i] = NoRow
    /\ \A i \in Ids :
          IF i \in F /\ PlaceIn(F, i) <= Len(add)
          THEN /\ w[i] # NoRow /\ w[i].track = m + PlaceIn(F, i)
               /\ w[i].song = add[PlaceIn(F, i)] /\ PlaceIn(F, i) \in 1 .. Len(add)
          ELSE w[i] = v[i]

\* The view of the client after it, in a settled playlist.
LEMMA InsertedRows ==
    ASSUME ListInv, NEW t \in Txs, Insert(t), NEW add, add = tx[t].add, NEW F, F = FreeIds,
           NEW m, m = tx[t].snap[1], settled,
           NEW w, w = Written(View(t), NewIds(F, Len(add)), Inserted(F, add, m))
    PROVE  Segment(View(t)) /\ AddsRows(View(t), w, F, add, m)
  <1>. DEFINE A == NewIds(F, Len(add))
              N == Inserted(F, add, m)
              v == View(t)
  <1>1. /\ t \in Clients /\ tx[t].taken
        /\ tx[t].prog # <<>> /\ Head(tx[t].prog).kind = "add"
        /\ F \in SUBSET Ids
        /\ \A i \in F : com[i] = NoRow /\ lock[i] = NoTx
        /\ \A i \in A : /\ PlaceIn(F, i) \in 1 .. Len(add)
                        /\ N[i] \in Rows
                        /\ N[i].song = add[PlaceIn(F, i)]
                        /\ N[i].track = m + PlaceIn(F, i)
    BY InsertWrites
  <1>2. \A i \in Ids : w[i] = IF i \in A THEN N[i] ELSE v[i]
    BY DEF Written
  <1>. HIDE DEF N
  <1>3. Fresh(v, Head(tx[t].prog), tx[t].snap)
    BY <1>1, Names DEF ListInv, Current, Calm
  <1>4. m = Max(TrackSet(v) \cup {-1})
    BY <1>1, <1>3 DEF Fresh
  <1>5. StageOf(v, tx[t].prog, tx[t].rm)
    BY <1>1, ClientWorks DEF ListInv, Stage
  <1>6. Segment(v)
    BY <1>1, <1>5 DEF StageOf
  <1>7. \A i \in F : v[i] = NoRow
    BY <1>1, Names DEF View, Sees
  <1>8. \A i \in Ids : i \in A <=> i \in F /\ PlaceIn(F, i) <= Len(add)
    BY DEF NewIds
  <1>. HIDE DEF A, v
  <1>9. \A i \in Ids : i \in A => w[i] # NoRow
    BY <1>1, <1>2, Finite
  <1>10. ASSUME NEW i \in Ids
         PROVE  IF i \in F /\ PlaceIn(F, i) <= Len(add)
                THEN /\ w[i] # NoRow /\ w[i].track = m + PlaceIn(F, i)
                     /\ w[i].song = add[PlaceIn(F, i)] /\ PlaceIn(F, i) \in 1 .. Len(add)
                ELSE w[i] = v[i]
    <2>1. CASE i \in A
      <3>1. w[i] = N[i]
        BY <1>2, <2>1
      <3>. QED
        BY <1>1, <1>8, <1>9, <2>1, <3>1
    <2>2. CASE i \notin A
      BY <1>2, <1>8, <2>2
    <2>. QED
      BY <2>1, <2>2
  <1>. QED
    BY <1>4, <1>6, <1>7, <1>10 DEF v, AddsRows

\* INSERT of the songs of AddTracks keeps the invariant.
LEMMA InsertKeeps ==
    ASSUME ListInv, NEW t \in Txs, Insert(t)
    PROVE  ListInv'
  <1>1. PICK add, F, m : add = tx[t].add /\ F = FreeIds /\ m = tx[t].snap[1]
    OBVIOUS
  <1>2. PICK A, N : A = NewIds(F, Len(add)) /\ N = Inserted(F, add, m)
    OBVIOUS
  <1>3. PICK v, w : v = View(t) /\ w = Written(View(t), A, N)
    OBVIOUS
  <1>4. /\ Writes(t, A, N) /\ t \in Clients
        /\ Tail(tx[t].prog) = <<>> /\ add \in Seq(Songs)
        /\ F \in SUBSET Ids /\ Len(add) <= Cardinality(F)
    BY <1>1, <1>2, InsertWrites
  <1>5. ASSUME settled
        PROVE  StageOf(w, Tail(tx[t].prog), tx[t].rm)
    <2>1. Segment(v) /\ AddsRows(v, w, F, add, m)
      BY <1>1, <1>2, <1>3, <1>5, InsertedRows
    <2>2. PICK k \in Nat : k = Len(add)
      BY <1>4
    <2>3. Lengthened(v, w, F, k, m)
      BY <1>4, <2>1, <2>2 DEF Lengthened, AddsRows
    <2>4. Segment(w)
      BY <1>4, <2>1, <2>3, InsertedView
    <2>. QED
      BY <1>4, <2>4 DEF StageOf
  <1>6. t # Scan
    BY <1>4, Names
  <1>. QED
    BY <1>3, <1>4, <1>5, <1>6, WriteKeeps

-----------------------------------------------------------------------------
(* The end of a transaction.  *)

\* A transaction that has ended is idle.
LEMMA Ended ==
    ASSUME ListInv, NEW t \in Txs, End(t)
    PROVE  /\ DOMAIN tx' = Txs /\ tx'[t] = Idle
           /\ \A u \in Txs \ {t} : tx'[u] = tx[u]
           /\ \A u \in Txs : TxOK(u, tx'[u])
           /\ lock' \in [Ids -> Txs \cup {NoTx}]
           /\ \A i \in Ids : lock'[i] = IF lock[i] = t THEN NoTx ELSE lock[i]
           /\ owner' \in Clients \cup {NoTx}
           /\ \A c \in Clients : owner' = c <=> owner = c /\ c # t
  <1>1. DOMAIN tx = Txs /\ \A u \in Txs : TxOK(u, tx[u])
    BY DEF ListInv, Transactions
  <1>2. tx' = [tx EXCEPT ![t] = Idle]
    BY DEF End
  <1>3. DOMAIN tx' = Txs /\ tx'[t] = Idle /\ \A u \in Txs \ {t} : tx'[u] = tx[u]
    BY <1>1, <1>2
  <1>4. \A u \in Txs : TxOK(u, tx'[u])
    BY <1>1, <1>3, IdleFields
  <1>5. /\ lock' \in [Ids -> Txs \cup {NoTx}]
        /\ \A i \in Ids : lock'[i] = IF lock[i] = t THEN NoTx ELSE lock[i]
    BY DEF End, ListInv, TypeOK
  <1>6. /\ owner' \in Clients \cup {NoTx}
        /\ \A c \in Clients : owner' = c <=> owner = c /\ c # t
    BY Names DEF End, ListInv, TypeOK
  <1>. QED
    BY <1>3, <1>4, <1>5, <1>6

\* Idle has no part in these.
LEMMA EndKeeps ==
    ASSUME ListInv, NEW t \in Txs, End(t)
    PROVE  Transactions' /\ Owning' /\ Apart'
  <1>1. /\ DOMAIN tx' = Txs /\ tx'[t] = Idle
        /\ \A u \in Txs \ {t} : tx'[u] = tx[u]
        /\ \A u \in Txs : TxOK(u, tx'[u])
        /\ \A c \in Clients : owner' = c <=> owner = c /\ c # t
    BY Ended
  <1>2. Idle.pc = "idle" /\ ~Idle.busy
    BY IdleFields
  <1>3. Transactions'
    BY <1>1 DEF Transactions
  <1>4. Owning'
    BY <1>1, <1>2, Names DEF ListInv, Owning
  <1>5. Apart'
    BY <1>1, <1>2, Names DEF ListInv, Apart
  <1>. QED
    BY <1>3, <1>4, <1>5

\* A rollback at any point keeps the invariant.
LEMMA RollbackKeeps ==
    ASSUME ListInv, NEW t \in Txs, Rollback(t)
    PROVE  ListInv'
  <1>1. End(t)
    BY DEF Rollback
  <1>2. /\ DOMAIN tx' = Txs /\ tx'[t] = Idle
        /\ \A u \in Txs \ {t} : tx'[u] = tx[u]
        /\ \A u \in Txs : TxOK(u, tx'[u])
        /\ lock' \in [Ids -> Txs \cup {NoTx}]
        /\ \A i \in Ids : lock'[i] = IF lock[i] = t THEN NoTx ELSE lock[i]
        /\ owner' \in Clients \cup {NoTx}
        /\ \A c \in Clients : owner' = c <=> owner = c /\ c # t
    BY <1>1, Ended
  <1>3. TypeOK
    BY DEF ListInv
  <1>4. /\ cur' \in [Ids -> Rows \cup {NoRow}]
        /\ \A i \in Ids : cur'[i] = IF lock[i] = t THEN com[i] ELSE cur[i]
        /\ songs' \in [Songs -> {"live", "dying", "dead"}]
        /\ UNCHANGED <<com, exists, settled>>
    BY <1>3 DEF Rollback, TypeOK
  <1>5. ASSUME NEW u \in Txs \ {t}
        PROVE  View(u)' = View(u)
    <2>1. u # t /\ u # NoTx
      BY Names
    <2>. QED
      BY <1>2, <1>4, <2>1 DEF View, Sees
  <1>6. TypeOK'
    <2>1. \A u \in Txs : tx'[u].pc \in {"idle", "found", "edit", "replace", "drop", "scan"}
      BY <1>2 DEF TxOK
    <2>. QED
      BY <1>2, <1>3, <1>4, <2>1 DEF TypeOK
  <1>7. Transactions' /\ Owning' /\ Apart'
    BY <1>1, EndKeeps
  <1>8. Locks'
    <2>. SUFFICES ASSUME NEW i \in Ids
                  PROVE  IF lock'[i] = NoTx THEN cur'[i] = com'[i] ELSE tx'[lock'[i]].busy
      BY DEF Locks
    <2>1. IF lock[i] = NoTx THEN cur[i] = com[i] ELSE tx[lock[i]].busy
      BY DEF ListInv, Locks
    <2>2. lock[i] \in Txs \cup {NoTx}
      BY <1>3 DEF TypeOK
    <2>. QED
      BY <1>2, <1>4, <2>1, <2>2, Names
  <1>9. Current'
    <2>. SUFFICES ASSUME NEW u \in Txs, tx'[u].taken, Calm(u)'
                  PROVE  Fresh(View(u), Head(tx[u].prog), tx[u].snap)'
      BY DEF Current
    <2>1. u # t
      BY <1>2, IdleFields
    <2>2. tx'[u] = tx[u] /\ Calm(u)
      BY <1>2, <1>4, <2>1 DEF Calm
    <2>3. Fresh(View(u), Head(tx[u].prog), tx[u].snap)
      BY <2>2 DEF ListInv, Current
    <2>. QED
      BY <1>5, <2>1, <2>2, <2>3
  <1>10. Keys' /\ Numbers'
    BY <1>4 DEF ListInv, Keys, Numbers
  <1>11. Stage'
    <2>. SUFFICES ASSUME NEW c \in Clients, settled', owner' = c
                  PROVE  StageOf(View(c), tx[c].prog, tx[c].rm)'
      BY DEF Stage
    <2>1. owner = c /\ c \in Txs \ {t} /\ tx'[c] = tx[c]
      BY <1>2, Names
    <2>2. StageOf(View(c), tx[c].prog, tx[c].rm)
      BY <1>4, <2>1 DEF ListInv, Stage
    <2>. QED
      BY <1>5, <2>1, <2>2
  <1>12. ScanDone'
    <2>. SUFFICES ASSUME tx'[Scan].pc = "scan", tx'[Scan].prog = <<>>, tx'[Scan].alone
                  PROVE  Segment(View(Scan))'
      BY DEF ScanDone
    <2>1. Scan \in Txs \ {t} /\ tx'[Scan] = tx[Scan]
      BY <1>2, Names, IdleFields
    <2>2. Segment(View(Scan))
      BY <2>1 DEF ListInv, ScanDone
    <2>. QED
      BY <1>5, <2>1, <2>2
  <1>. QED
    BY <1>6, <1>7, <1>8, <1>9, <1>10, <1>11, <1>12 DEF ListInv

\* A scan with nothing left to do has done something.
LEMMA DoneScanIsBusy ==
    ASSUME ListInv, tx[Scan].pc = "scan", tx[Scan].prog = <<>>
    PROVE  tx[Scan].busy
  <1>1. ScanProg(tx[Scan])
    BY Names DEF ListInv, Transactions, TxOK, ProgOK
  <1>2. \A a, b, c : <<a, b, c>> # <<>> /\ <<a, b>> # <<>> /\ <<a>> # <<>>
    OBVIOUS
  <1>. QED
    BY <1>1, <1>2 DEF ScanProg

\* A commit makes the view of its transaction the committed rows.
LEMMA CommitViews ==
    ASSUME ListInv, NEW t \in Txs, Commit(t)
    PROVE  /\ com' = View(t)
           /\ IF t = Scan THEN tx[t].pc = "scan" /\ tx[t].busy ELSE t \in Clients /\ owner = t
           /\ \A u \in Txs \ {t} : ~tx[t].busy => View(u)' = View(u) /\ com' = com
           /\ \A u \in Txs \ {t} : ~tx[u].busy => View(u)' = com'
           /\ t = Scan /\ settled' => \A c \in Clients : ~tx[c].busy
  <1>1. End(t) /\ tx[t].pc \notin {"idle", "found"} /\ tx[t].prog = <<>>
    BY DEF Commit
  <1>2. /\ DOMAIN tx' = Txs /\ tx'[t] = Idle
        /\ \A u \in Txs \ {t} : tx'[u] = tx[u]
        /\ \A u \in Txs : TxOK(u, tx'[u])
        /\ lock' \in [Ids -> Txs \cup {NoTx}]
        /\ \A i \in Ids : lock'[i] = IF lock[i] = t THEN NoTx ELSE lock[i]
        /\ owner' \in Clients \cup {NoTx}
        /\ \A c \in Clients : owner' = c <=> owner = c /\ c # t
    BY <1>1, Ended
  <1>3. TypeOK /\ Locks /\ \A u \in Txs : TxOK(u, tx[u])
    BY DEF ListInv, Transactions
  <1>4. /\ com' \in [Ids -> Rows \cup {NoRow}]
        /\ \A i \in Ids : com'[i] = IF lock[i] = t THEN cur[i] ELSE com[i]
        /\ songs' \in [Songs -> {"live", "dying", "dead"}]
        /\ exists' \in BOOLEAN
        /\ cur' = cur
        /\ KeysUnique(t, cur, lock)
        /\ settled' = IF t = Scan THEN tx[t].alone ELSE settled
    BY <1>3 DEF Commit, TypeOK
  <1>5. com' = View(t)
    BY <1>4 DEF Commit, View, Sees
  <1>6. IF t = Scan THEN tx[t].pc = "scan" /\ tx[t].busy ELSE t \in Clients /\ owner = t
    <2>1. CASE t = Scan
      <3>1. tx[t].pc = "scan"
        BY <1>1, <1>3, <2>1 DEF TxOK
      <3>. QED
        BY <1>1, <2>1, <3>1, DoneScanIsBusy
    <2>2. CASE t # Scan
      <3>1. t \in Clients /\ tx[t].pc \in {"edit", "replace", "drop"}
        BY <1>1, <1>3, <2>2, Names DEF TxOK
      <3>. QED
        BY <2>2, <3>1 DEF ListInv, Owning
    <2>. QED
      BY <2>1, <2>2
  <1>7. ASSUME NEW u \in Txs \ {t}, ~tx[t].busy
        PROVE  View(u)' = View(u) /\ com' = com
    <2>1. u # t /\ u # NoTx /\ t # NoTx
      BY Names
    <2>2. \A i \in Ids : lock[i] # t
      BY <1>3, <1>7, <2>1, ViewOfIdle
    <2>. QED
      BY <1>2, <1>3, <1>4, <2>1, <2>2 DEF TypeOK, View, Sees
  <1>8. ASSUME NEW u \in Txs \ {t}, ~tx[u].busy
        PROVE  View(u)' = com'
    <2>1. u # t /\ u # NoTx
      BY Names
    <2>2. \A i \in Ids : lock[i] # u
      BY <1>3, <1>8, <2>1, ViewOfIdle
    <2>3. \A i \in Ids : lock'[i] # u
      BY <1>2, <2>1, <2>2
    <2>. QED
      BY <1>4, <2>3 DEF View, Sees
  <1>9. t = Scan /\ settled' => \A c \in Clients : ~tx[c].busy
    BY <1>4, <1>6 DEF ListInv, Apart
  <1>. QED
    BY <1>5, <1>6, <1>7, <1>8, <1>9

\* A commit, which makes the view of its transaction the committed rows, keeps the invariant.
LEMMA CommitKeeps ==
    ASSUME ListInv, NEW t \in Txs, Commit(t)
    PROVE  ListInv'
  <1>1. End(t) /\ tx[t].pc \notin {"idle", "found"} /\ tx[t].prog = <<>>
    BY DEF Commit
  <1>2. /\ DOMAIN tx' = Txs /\ tx'[t] = Idle
        /\ \A u \in Txs \ {t} : tx'[u] = tx[u]
        /\ \A u \in Txs : TxOK(u, tx'[u])
        /\ lock' \in [Ids -> Txs \cup {NoTx}]
        /\ \A i \in Ids : lock'[i] = IF lock[i] = t THEN NoTx ELSE lock[i]
        /\ owner' \in Clients \cup {NoTx}
        /\ \A c \in Clients : owner' = c <=> owner = c /\ c # t
    BY <1>1, Ended
  <1>3. TypeOK /\ Locks /\ \A u \in Txs : TxOK(u, tx[u])
    BY DEF ListInv, Transactions
  <1>4. /\ com' \in [Ids -> Rows \cup {NoRow}]
        /\ \A i \in Ids : com'[i] = IF lock[i] = t THEN cur[i] ELSE com[i]
        /\ songs' \in [Songs -> {"live", "dying", "dead"}]
        /\ exists' \in BOOLEAN
        /\ cur' = cur
        /\ KeysUnique(t, cur, lock)
        /\ settled' = IF t = Scan THEN tx[t].alone ELSE settled
    BY <1>3 DEF Commit, TypeOK
  <1>5. /\ com' = View(t)
        /\ IF t = Scan THEN tx[t].pc = "scan" /\ tx[t].busy ELSE t \in Clients /\ owner = t
        /\ \A u \in Txs \ {t} : ~tx[t].busy => View(u)' = View(u) /\ com' = com
        /\ \A u \in Txs \ {t} : ~tx[u].busy => View(u)' = com'
        /\ t = Scan /\ settled' => \A c \in Clients : ~tx[c].busy
    BY CommitViews
  <1>6. IF t = Scan THEN tx[t].pc = "scan" /\ tx[t].busy ELSE t \in Clients /\ owner = t
    BY <1>5
  <1>7. ASSUME NEW u \in Txs \ {t}, ~tx[t].busy
        PROVE  View(u)' = View(u)
    BY <1>5, <1>7
  <1>8. ASSUME NEW u \in Txs \ {t}, ~tx[u].busy
        PROVE  View(u)' = com'
    BY <1>5, <1>8
  <1>9. t = Scan /\ settled' => \A c \in Clients : ~tx[c].busy
    BY <1>5
  <1>10. TypeOK'
    <2>1. \A u \in Txs : tx'[u].pc \in {"idle", "found", "edit", "replace", "drop", "scan"}
      BY <1>2 DEF TxOK
    <2>2. settled' \in BOOLEAN
      BY <1>3, <1>4 DEF TypeOK, TxOK
    <2>. QED
      BY <1>2, <1>3, <1>4, <2>1, <2>2 DEF TypeOK
  <1>11. Transactions' /\ Owning' /\ Apart'
    BY <1>1, EndKeeps
  <1>12. Locks'
    <2>. SUFFICES ASSUME NEW i \in Ids
                  PROVE  IF lock'[i] = NoTx THEN cur'[i] = com'[i] ELSE tx'[lock'[i]].busy
      BY DEF Locks
    <2>1. IF lock[i] = NoTx THEN cur[i] = com[i] ELSE tx[lock[i]].busy
      BY <1>3 DEF Locks
    <2>2. lock[i] \in Txs \cup {NoTx}
      BY <1>3 DEF TypeOK
    <2>. QED
      BY <1>2, <1>4, <2>1, <2>2, Names
  <1>13. Current'
    <2>. SUFFICES ASSUME NEW u \in Txs, tx'[u].taken, Calm(u)'
                  PROVE  Fresh(View(u), Head(tx[u].prog), tx[u].snap)'
      BY DEF Current
    <2>1. u \in Txs \ {t}
      BY <1>2, IdleFields
    <2>2. tx'[u] = tx[u] /\ tx[u].taken /\ tx[u].busy
      BY <1>2, <1>3, <2>1 DEF TxOK, SnapOK
    <2>3. t # Scan
      BY <1>9, <2>1, <2>2, Names DEF Calm
    <2>4. u = Scan
      <3>1. ASSUME u \in Clients PROVE FALSE
        <4>1. owner # u
          BY <1>6, <2>1, <2>3
        <4>2. tx[u].pc \notin {"edit", "replace", "drop"}
          BY <3>1, <4>1 DEF ListInv, Owning
        <4>3. tx[u].pc \in {"idle", "found"}
          BY <1>3, <3>1, <4>2, Names DEF TxOK
        <4>. QED
          BY <1>3, <2>2, <4>3 DEF TxOK, ProgOK
      <3>. QED
        BY <3>1, Names
    <2>5. Calm(u) /\ tx[Scan].alone
      BY <2>2, <2>4 DEF Calm
    <2>6. ~tx[t].busy
      BY <1>6, <2>2, <2>3, <2>4, <2>5 DEF ListInv, Apart
    <2>7. Fresh(View(u), Head(tx[u].prog), tx[u].snap)
      BY <2>2, <2>5 DEF ListInv, Current
    <2>. QED
      BY <1>7, <2>1, <2>2, <2>6, <2>7
  <1>14. DistinctTracks(com')
    <2>1. PICK w : w = com'
      OBVIOUS
    <2>2. w = [i \in Ids |-> IF lock[i] = t THEN cur[i] ELSE com[i]]
      BY <2>1 DEF Commit
    <2>3. DistinctTracks(com)
      BY DEF ListInv, Keys
    <2>4. DistinctTracks(w)
      BY <1>4, <2>2, <2>3, KeysDistinct
    <2>. QED
      BY <2>1, <2>4
  <1>15. settled' => Segment(com')
    <2>1. CASE t = Scan
      <3>1. settled' => Segment(View(Scan))
        BY <1>1, <1>4, <1>6, <2>1 DEF ListInv, ScanDone
      <3>. QED
        BY <1>5, <2>1, <3>1
    <2>2. CASE t # Scan
      <3>1. settled' => StageOf(View(t), tx[t].prog, tx[t].rm)
        BY <1>4, <1>6, <2>2 DEF ListInv, Stage
      <3>2. settled' => Segment(View(t))
        BY <1>1, <3>1 DEF StageOf
      <3>. QED
        BY <1>5, <3>2
    <2>. QED
      BY <2>1, <2>2
  <1>16. Keys' /\ Numbers'
    BY <1>14, <1>15 DEF Keys, Numbers
  <1>17. Stage'
    <2>. SUFFICES ASSUME NEW c \in Clients, settled', owner' = c
                  PROVE  StageOf(View(c), tx[c].prog, tx[c].rm)'
      BY DEF Stage
    <2>1. owner = c /\ c \in Txs \ {t} /\ tx'[c] = tx[c]
      BY <1>2, Names
    <2>2. t = Scan
      BY <1>6, <2>1
    <2>3. ~tx[c].busy
      BY <1>9, <2>2
    <2>4. View(c)' = com'
      BY <1>8, <2>1, <2>3
    <2>5. tx[c].prog # <<>> => Head(tx[c].prog).kind # "shift"
      <3>1. ASSUME tx[c].prog # <<>>
            PROVE  ProgFacts(c, tx[c], Head(tx[c].prog), Tail(tx[c].prog))
        BY <1>3, <2>1, <3>1, Programs
      <3>. QED
        BY <2>3, <3>1 DEF ProgFacts
    <2>6. PICK w : w = com'
      OBVIOUS
    <2>7. StageOf(w, tx[c].prog, tx[c].rm)
      BY <1>15, <2>5, <2>6 DEF StageOf
    <2>. QED
      BY <2>1, <2>4, <2>6, <2>7
  <1>18. ScanDone'
    <2>. SUFFICES ASSUME tx'[Scan].pc = "scan", tx'[Scan].prog = <<>>, tx'[Scan].alone
                  PROVE  Segment(View(Scan))'
      BY DEF ScanDone
    <2>1. Scan \in Txs \ {t} /\ tx'[Scan] = tx[Scan]
      BY <1>2, Names, IdleFields
    <2>2. tx[Scan].busy
      BY <2>1, DoneScanIsBusy
    <2>3. ~tx[t].busy
      BY <1>6, <2>1, <2>2 DEF ListInv, Apart
    <2>4. Segment(View(Scan))
      BY <2>1 DEF ListInv, ScanDone
    <2>. QED
      BY <1>7, <2>1, <2>3, <2>4
  <1>. QED
    BY <1>10, <1>11, <1>12, <1>13, <1>16, <1>17, <1>18 DEF ListInv

-----------------------------------------------------------------------------

\* The playlist with which everything begins is numbered from 0.
LEMMA NumberedSegment ==
    ASSUME NEW s \in Lists
    PROVE  Numbered(s) \in Views /\ Segment(Numbered(s))
  <1>. DEFINE v == Numbered(s)
  <1>1. s \in Seq(Songs) /\ Len(s) <= MaxRows
    BY PlaylistAssumption
  <1>2. PICK n \in Nat : n = Len(s)
    BY <1>1
  <1>3. MaxRows \in Nat /\ MaxTrack \in Nat /\ MaxRows <= MaxTrack + 1
    BY Finite
  <1>4. v = [i \in Ids |-> IF i <= n THEN [song |-> s[i], track |-> i - 1] ELSE NoRow]
    BY <1>2 DEF Numbered
  <1>. HIDE DEF v
  <1>5. \A i \in Ids : i \in 1 .. MaxRows
    BY DEF Ids
  <1>6. ASSUME NEW i \in Ids, i <= n
        PROVE  v[i] \in Rows /\ v[i] # NoRow /\ v[i].track = i - 1
    <2>1. i \in 1 .. n /\ i - 1 \in 0 .. MaxTrack
      BY <1>3, <1>5, <1>6
    <2>2. s[i] \in Songs
      BY <1>1, <1>2, <2>1, ElementOfSeq
    <2>3. [song |-> s[i], track |-> i - 1] \in Rows
      BY <2>1, <2>2 DEF Rows
    <2>4. v[i] = [song |-> s[i], track |-> i - 1]
      BY <1>4, <1>6
    <2>. QED
      BY <2>3, <2>4, Finite
  <1>7. \A i \in Ids : ~(i <= n) => v[i] = NoRow
    BY <1>4
  <1>8. v \in Views
    <2>1. \A i \in Ids : v[i] \in Rows \cup {NoRow}
      BY <1>6, <1>7
    <2>. QED
      BY <1>4, <2>1 DEF Views
  <1>9. Filled(v) = {i \in Ids : i <= n}
    BY <1>6, <1>7 DEF Filled
  <1>10. DistinctTracks(v)
    <2>. SUFFICES ASSUME NEW i \in Filled(v), NEW j \in Filled(v), v[i].track = v[j].track
                  PROVE  i = j
      BY DEF DistinctTracks
    <2>1. i \in Ids /\ j \in Ids /\ i - 1 = j - 1
      BY <1>6, <1>9
    <2>. QED
      BY <1>3, <1>5, <2>1
  <1>11. TrackSet(v) = 0 .. n - 1
    <2>1. ASSUME NEW i \in Filled(v) PROVE v[i].track \in 0 .. n - 1
      <3>1. i \in Ids /\ i <= n /\ v[i].track = i - 1
        BY <1>6, <1>9
      <3>. QED
        BY <1>3, <1>5, <3>1
    <2>2. ASSUME NEW k \in 0 .. n - 1 PROVE k \in TrackSet(v)
      <3>1. k + 1 \in Ids /\ k + 1 <= n /\ (k + 1) - 1 = k
        BY <1>1, <1>2, <1>3 DEF Ids
      <3>2. k + 1 \in Filled(v) /\ v[k + 1].track = k
        BY <1>6, <1>9, <3>1
      <3>. QED
        BY <3>2 DEF TrackSet
    <2>. QED
      BY <2>1, <2>2 DEF TrackSet
  <1>12. Segment(v)
    BY <1>10, <1>11 DEF Segment
  <1>. QED
    BY <1>8, <1>12 DEF v

\* The initial lists satisfy the invariant.
LEMMA ListInit ==
    Init => ListInv
  <1>. SUFFICES ASSUME Init PROVE ListInv
    OBVIOUS
  <1>1. /\ \A t \in Txs : tx[t] = Idle
        /\ DOMAIN tx = Txs
        /\ cur = com /\ owner = NoTx /\ settled = TRUE
        /\ \A i \in Ids : lock[i] = NoTx
    BY DEF Init
  <1>2. com \in Views /\ Segment(com)
    BY NumberedSegment DEF Init
  <1>3. TypeOK
    BY <1>1, <1>2, IdleFields DEF Init, TypeOK, Views
  <1>4. Transactions
    BY <1>1, IdleFields DEF Transactions
  <1>5. Locks /\ Owning /\ Apart /\ Current
    BY <1>1, IdleFields, Names DEF Locks, Owning, Apart, Current
  <1>6. Keys /\ Numbers
    BY <1>2 DEF Keys, Numbers, Segment
  <1>7. Stage /\ ScanDone
    BY <1>1, IdleFields, Names DEF Stage, ScanDone
  <1>. QED
    BY <1>3, <1>4, <1>5, <1>6, <1>7 DEF ListInv

\* A step that changes nothing keeps the invariant.
LEMMA StutterKeeps ==
    ASSUME ListInv, UNCHANGED vars
    PROVE  ListInv'
  <1>1. UNCHANGED <<com, cur, lock, owner, exists, songs, tx, settled>>
    BY DEF vars
  <1>2. \A u : View(u)' = View(u)
    BY <1>1, SameViews DEF table
  <1>3. (TypeOK /\ Transactions /\ Locks /\ Owning /\ Apart)'
    BY <1>1 DEF ListInv, TypeOK, Transactions, Locks, Owning, Apart
  <1>4. Current'
    BY <1>1, <1>2 DEF ListInv, Current, Calm
  <1>5. (Keys /\ Numbers)'
    BY <1>1 DEF ListInv, Keys, Numbers
  <1>6. Stage'
    BY <1>1, <1>2 DEF ListInv, Stage
  <1>7. ScanDone'
    BY <1>1, <1>2 DEF ListInv, ScanDone
  <1>. QED
    BY <1>3, <1>4, <1>5, <1>6, <1>7 DEF ListInv

(* The views of a client that edits and of a scan that is alone go through   *)
(* the stages their statements make, although transactions of any number of  *)
(* clients and of the scan interleave and may be rolled back at any time.    *)
THEOREM ListInvInvariant ==
    Spec => []ListInv
  <1>1. ListInv /\ [Next]_vars => ListInv'
    <2>. SUFFICES ASSUME ListInv, [Next]_vars PROVE ListInv'
      OBVIOUS
    <2>1. ASSUME NEW c \in Clients, NEW rm \in Removals, NEW add \in Adds,
                 FindForUpdate(c, rm, add)
          PROVE  ListInv'
      <3>1. PICK x : Begins(c, x)
        BY <2>1, FindBegins
      <3>. QED
        BY <3>1, BeginKeeps, Names
    <2>2. ASSUME NEW c \in Clients, Touch(c) PROVE ListInv'
      <3>1. PICK x : Begins(c, x)
        BY <2>2, TouchBegins
      <3>. QED
        BY <3>1, BeginKeeps, Names
    <2>3. ASSUME NEW c \in Clients, NEW add \in Adds, ReplaceTracks(c, add) PROVE ListInv'
      <3>1. PICK x : Begins(c, x)
        BY <2>3, ReplaceBegins
      <3>. QED
        BY <3>1, BeginKeeps, Names
    <2>4. ASSUME NEW c \in Clients, Delete(c) PROVE ListInv'
      <3>1. PICK x : Begins(c, x)
        BY <2>4, DeleteBegins
      <3>. QED
        BY <3>1, BeginKeeps, Names
    <2>5. ASSUME NEW gone \in Purges, NEW hidden \in Purges, StartScan(gone, hidden)
          PROVE  ListInv'
      <3>1. PICK x : Begins(Scan, x)
        BY <2>5, StartScanBegins
      <3>. QED
        BY <3>1, BeginKeeps, Names
    <2>6. ASSUME NEW t \in Txs, TakeSnapshot(t) PROVE ListInv'
      BY <2>6, TakeKeeps
    <2>7. ASSUME NEW t \in Txs, Execute(t) PROVE ListInv'
      BY <2>7, ExecuteKeeps
    <2>8. ASSUME NEW t \in Txs, Insert(t) PROVE ListInv'
      BY <2>8, InsertKeeps
    <2>9. ASSUME NEW t \in Txs, Commit(t) PROVE ListInv'
      BY <2>9, CommitKeeps
    <2>10. ASSUME NEW t \in Txs, Rollback(t) PROVE ListInv'
      BY <2>10, RollbackKeeps
    <2>11. CASE UNCHANGED vars
      BY <2>11, StutterKeeps
    <2>. QED
      BY <2>1, <2>2, <2>3, <2>4, <2>5, <2>6, <2>7, <2>8, <2>9, <2>10, <2>11 DEF Next
  <1>. QED
    BY <1>1, ListInit, PTL DEF Spec

(* Rows keep songs and track numbers from 0 to MaxTrack, whatever RemoveTracks *)
(* subtracts, FixTrackNumbers assigns and AddTracks adds, in every             *)
(* interleaving (TypeOK).                                                      *)
THEOREM PlaylistTypeCorrect ==
    Spec => []TypeOK
  <1>1. ListInv => TypeOK
    BY DEF ListInv
  <1>. QED
    BY <1>1, ListInvInvariant, PTL

(* A settled playlist of any length is numbered 0 .. n-1 without gaps, for any *)
(* edits by any clients, and every scan that no edit overlaps restores that    *)
(* (Contiguous).                                                               *)
THEOREM ContiguousInvariant ==
    Spec => []Contiguous
  <1>1. ListInv => Contiguous
    <2>. SUFFICES ASSUME ListInv, settled
                  PROVE  {com[i].track : i \in Committed} = 0 .. Cardinality(Committed) - 1
      BY DEF Contiguous
    <2>1. Segment(com)
      BY DEF ListInv, Numbers
    <2>2. TrackSet(com) = 0 .. Cardinality(Filled(com)) - 1
      BY <2>1, SegmentCount
    <2>. QED
      BY <2>2 DEF TrackSet, Filled, Committed
  <1>. QED
    BY <1>1, ListInvInvariant, PTL
-----------------------------------------------------------------------------
(* The list in the view.  *)

\* The songs of a view in the order of their tracks, as GetTracks reads them.
ListOf(v) ==
    [n \in 1 .. Cardinality(Filled(v)) |->
        v[CHOOSE i \in Filled(v) :
            Cardinality({j \in Filled(v) : v[j].track < v[i].track}) = n - 1].song]

\* The rows of v are the elements of s at the indices P, and have these as tracks.
Shows(v, s, P) ==
    /\ s \in Seq(Songs)
    /\ P \subseteq List!Indices(s)
    /\ DistinctTracks(v)
    /\ TrackSet(v) = P
    /\ \A i \in Filled(v) : v[i].song = s[v[i].track + 1]

ShowsAll(v, s) == Shows(v, s, List!Indices(s))

\* The indices of s a scan spares that takes the songs S.
Spared(s, S) == {k \in List!Indices(s) : s[k + 1] \notin S}

\* What an edit or replacement x of the list s has made of it.
Appended(x) == IF x.prog = <<>> THEN x.add ELSE <<>>

EditStage(v, s, x) ==
    /\ x.pc = "edit" =>
          CASE NextKind(x) = "remove" -> ShowsAll(v, s)
            [] NextKind(x) = "shift" ->
                  x.rm \subseteq List!Indices(s) /\ Shows(v, s, List!Indices(s) \ x.rm)
            [] OTHER -> /\ x.rm \subseteq List!Indices(s)
                        /\ ShowsAll(v, List!Without(s, x.rm) \o Appended(x))
    /\ x.pc = "replace" => NextKind(x) = "clear" \/ ShowsAll(v, Appended(x))

\* The snapshot of a scan has all rows of the songs that are gone, and for
\* FixTrackNumbers the numbers of rows with the same song.
ScanFresh(v, st, f) ==
    /\ st.kind \in {"songs", "hidden"} => DOMAIN f = {i \in Filled(v) : v[i].song \in st.arg}
    /\ st.kind = "fix" =>
          /\ \A i \in DOMAIN f :
                \E j \in Filled(v) : v[j].song = v[i].song /\ f[i] = RankIn(TrackSet(v), v[j].track)
          /\ \A i \in Filled(v) \ DOMAIN f : v[i].track = RankIn(TrackSet(v), v[i].track)

ScanStage(v, s, x) ==
    \E S \in SUBSET Songs :
        IF x.prog = <<>> THEN ShowsAll(v, List!Kept(s, Spared(s, S)))
        ELSE Shows(v, s, Spared(s, S)) /\ (x.taken => ScanFresh(v, Head(x.prog), x.snap))

\* The rows a client has deleted.
Deleted(c) == {i \in Ids : lock[i] = c /\ com[i] # NoRow /\ cur[i] = NoRow}

RemovedBy(c) ==
    tx[c].pc = "edit" =>
        IF NextKind(tx[c]) = "remove" THEN \A i \in Ids : lock[i] # c
        ELSE Cardinality(Deleted(c)) = Cardinality(tx[c].rm)

Removed == \A c \in Clients : RemovedBy(c)

Edited == \A c \in Clients : settled /\ owner = c => EditStage(View(c), AsList, tx[c])

Purged == settled /\ tx[Scan].pc = "scan" /\ tx[Scan].alone => ScanStage(View(Scan), AsList, tx[Scan])

Exact == Asked /\ Removed /\ Edited /\ Purged

-----------------------------------------------------------------------------
(* Lists and views.  *)

\* The ranks of the elements of a finite set of numbers are 0, 1, ... .
LEMMA RanksOnto ==
    ASSUME NEW T \in SUBSET Int, IsFiniteSet(T)
    PROVE  /\ Cardinality(T) \in Nat
           /\ \A a \in T : RankIn(T, a) \in 0 .. Cardinality(T) - 1
           /\ \A a, b \in T : RankIn(T, a) = RankIn(T, b) => a = b
           /\ \A k \in 0 .. Cardinality(T) - 1 : \E a \in T : RankIn(T, a) = k
  <1>1. Cardinality(T) \in Nat
    BY FS_CardinalityType
  <1>2. \A a \in T : /\ RankIn(T, a) \in Nat /\ RankIn(T, a) < Cardinality(T)
                     /\ \A b \in T : a < b => RankIn(T, a) < RankIn(T, b)
    BY Ranks DEF RankIn
  <1>3. \A a \in T : RankIn(T, a) \in 0 .. Cardinality(T) - 1
    BY <1>1, <1>2
  <1>4. ASSUME NEW a \in T, NEW b \in T, RankIn(T, a) = RankIn(T, b)
        PROVE  a = b
    <2>1. ~(a < b) /\ ~(b < a)
      BY <1>2, <1>4
    <2>2. a \in Int /\ b \in Int
      OBVIOUS
    <2>. QED
      BY <2>1, <2>2
  <1>. DEFINE g == [a \in T |-> RankIn(T, a)]
              n == Cardinality(T)
  <1>5. g \in Injection(T, 0 .. n - 1)
    BY <1>3, <1>4 DEF Injection, IsInjective
  <1>6. IsFiniteSet(0 .. n - 1) /\ Cardinality(0 .. n - 1) = n
    BY <1>1, FS_Interval
  <1>. HIDE DEF n
  <1>7. g \in Surjection(T, 0 .. n - 1)
    BY <1>5, <1>6, FS_Injection DEF n
  <1>8. \A k \in 0 .. n - 1 : \E a \in T : g[a] = k
    BY <1>7 DEF Surjection
  <1>. QED
    BY <1>1, <1>3, <1>4, <1>8 DEF n

\* The indices of a list.
LEMMA IndexFacts ==
    ASSUME NEW s \in Seq(Songs), NEW P \in SUBSET List!Indices(s)
    PROVE  /\ List!Indices(s) = 0 .. Len(s) - 1
           /\ P \in SUBSET Int /\ IsFiniteSet(P) /\ Cardinality(P) \in Nat
           /\ \A k \in P : k \in Nat /\ k + 1 \in 1 .. Len(s) /\ s[k + 1] \in Songs
  <1>1. List!Indices(s) = 0 .. Len(s) - 1 /\ Len(s) \in Nat
    BY DEF List!Indices
  <1>2. IsFiniteSet(0 .. Len(s) - 1)
    BY <1>1, FS_Interval
  <1>3. P \in SUBSET Int /\ P \subseteq 0 .. Len(s) - 1
    BY <1>1
  <1>4. IsFiniteSet(P) /\ Cardinality(P) \in Nat
    BY <1>2, <1>3, FS_Subset, FS_CardinalityType
  <1>5. ASSUME NEW k \in P PROVE k \in Nat /\ k + 1 \in 1 .. Len(s) /\ s[k + 1] \in Songs
    <2>1. k \in Nat /\ k + 1 \in 1 .. Len(s)
      BY <1>1, <1>3
    <2>. QED
      BY <2>1, ElementOfSeq
  <1>. QED
    BY <1>1, <1>3, <1>4, <1>5

\* The elements of a list that are kept move to the ranks of their indices.
LEMMA KeptFacts ==
    ASSUME NEW s \in Seq(Songs), NEW P \in SUBSET List!Indices(s)
    PROVE  /\ List!Kept(s, P) \in Seq(Songs)
           /\ Len(List!Kept(s, P)) = Cardinality(P)
           /\ \A a \in P : List!Kept(s, P)[RankIn(P, a) + 1] = s[a + 1]
  <1>. DEFINE n == Cardinality(P)
              at(m) == CHOOSE i \in P : RankIn(P, i) = m - 1
              k == List!Kept(s, P)
  <1>1. /\ P \in SUBSET Int /\ IsFiniteSet(P) /\ n \in Nat
        /\ \A a \in P : a \in Nat /\ s[a + 1] \in Songs
    BY IndexFacts
  <1>2. /\ \A a \in P : RankIn(P, a) \in 0 .. n - 1
        /\ \A a, b \in P : RankIn(P, a) = RankIn(P, b) => a = b
        /\ \A j \in 0 .. n - 1 : \E a \in P : RankIn(P, a) = j
    BY <1>1, RanksOnto
  <1>3. k = [m \in 1 .. n |-> s[1 + at(m)]]
    BY Zenon DEF List!Kept, RankIn, List!Cardinality, Cardinality
  <1>. HIDE DEF n, k
  <1>4. ASSUME NEW m \in 1 .. n
        PROVE  at(m) \in P /\ RankIn(P, at(m)) = m - 1 /\ s[1 + at(m)] \in Songs
    <2>1. m - 1 \in 0 .. n - 1
      BY <1>1
    <2>2. \E a \in P : RankIn(P, a) = m - 1
      BY <1>2, <2>1
    <2>3. at(m) \in P /\ RankIn(P, at(m)) = m - 1
      BY <2>2
    <2>. HIDE DEF at
    <2>4. PICK a \in P : a = at(m)
      BY <2>3
    <2>5. a \in Nat /\ s[a + 1] \in Songs
      BY <1>1
    <2>6. 1 + a = a + 1
      BY <2>5
    <2>. QED
      BY <2>3, <2>4, <2>5, <2>6
  <1>. HIDE DEF at
  <1>5. k \in [1 .. n -> Songs]
    BY <1>3, <1>4
  <1>6. k \in Seq(Songs) /\ Len(k) = n
    BY <1>1, <1>5, IsASeq
  <1>7. ASSUME NEW a \in P PROVE k[RankIn(P, a) + 1] = s[a + 1]
    <2>1. PICK r \in 0 .. n - 1 : r = RankIn(P, a)
      BY <1>2
    <2>2. r + 1 \in 1 .. n /\ (r + 1) - 1 = r
      BY <1>1
    <2>3. at(r + 1) \in P /\ RankIn(P, at(r + 1)) = r
      BY <1>4, <2>2
    <2>4. at(r + 1) = a
      BY <1>2, <2>1, <2>3
    <2>5. k[r + 1] = s[1 + at(r + 1)]
      BY <1>3, <2>2
    <2>6. a \in Nat
      BY <1>1
    <2>. QED
      BY <2>1, <2>4, <2>5, <2>6
  <1>. QED
    BY <1>6, <1>7 DEF k, n

\* In 0 .. n-1 a number is its own rank.
LEMMA SegmentRank ==
    ASSUME NEW n \in Nat, NEW a \in 0 .. n - 1
    PROVE  RankIn(0 .. n - 1, a) = a
  <1>1. {b \in 0 .. n - 1 : b < a} = 0 .. a - 1
    OBVIOUS
  <1>2. Cardinality(0 .. a - 1) = a
    BY FS_Interval
  <1>. QED
    BY <1>1, <1>2 DEF RankIn

\* A list without the songs at no index is the list.
LEMMA WithoutNothing ==
    ASSUME NEW s \in Seq(Songs)
    PROVE  List!Kept(s, List!Indices(s)) = s /\ List!Without(s, {}) = s
  <1>. DEFINE P == List!Indices(s)
              k == List!Kept(s, P)
  <1>1. P = 0 .. Len(s) - 1 /\ Len(s) \in Nat /\ P \ {} = P
    BY DEF List!Indices
  <1>2. /\ k \in Seq(Songs) /\ Len(k) = Cardinality(P)
        /\ \A a \in P : k[RankIn(P, a) + 1] = s[a + 1]
    BY KeptFacts
  <1>3. Cardinality(P) = Len(s)
    <2>1. PICK n \in Nat : n = Len(s)
      BY <1>1
    <2>2. Cardinality(0 .. n - 1) = n
      BY FS_Interval
    <2>. QED
      BY <1>1, <2>1, <2>2
  <1>. HIDE DEF P, k
  <1>4. ASSUME NEW i \in 1 .. Len(s) PROVE k[i] = s[i]
    <2>1. i - 1 \in P /\ i - 1 \in 0 .. Len(s) - 1 /\ (i - 1) + 1 = i
      BY <1>1
    <2>2. RankIn(P, i - 1) = i - 1
      BY <1>1, <2>1, SegmentRank
    <2>. QED
      BY <1>2, <2>1, <2>2
  <1>5. k = s
    BY <1>2, <1>3, <1>4, SeqEqual
  <1>. QED
    BY <1>1, <1>5 DEF P, k, List!Without

\* The rank of a row by its track is that of the track.
LEMMA TrackRank ==
    ASSUME NEW v, DistinctTracks(v), NEW i \in Filled(v)
    PROVE  Cardinality({j \in Filled(v) : v[j].track < v[i].track}) = RankIn(TrackSet(v), v[i].track)
  <1>. DEFINE B == {j \in Filled(v) : v[j].track < v[i].track}
              T == {a \in TrackSet(v) : a < v[i].track}
              f == [j \in B |-> v[j].track]
  <1>1. f \in Bijection(B, T)
    BY DEF DistinctTracks, TrackSet, Bijection, Injection, Surjection, IsInjective
  <1>2. IsFiniteSet(B)
    BY Finite, FS_Subset
  <1>. HIDE DEF B, T, f
  <1>3. Cardinality(T) = Cardinality(B)
    BY <1>1, <1>2, FS_Bijection DEF ExistsBijection
  <1>. QED
    BY <1>3 DEF B, T, RankIn

\* A view that shows a list is read as that list.
LEMMA ReadsAs ==
    ASSUME NEW v, NEW s, ShowsAll(v, s)
    PROVE  ListOf(v) = s
  <1>. DEFINE n == Len(s)
              F == Filled(v)
              R(i) == Cardinality({j \in F : v[j].track < v[i].track})
              l == ListOf(v)
  <1>1. /\ s \in Seq(Songs) /\ DistinctTracks(v) /\ TrackSet(v) = 0 .. n - 1 /\ n \in Nat
        /\ \A i \in F : v[i].song = s[v[i].track + 1]
    BY DEF ShowsAll, Shows, List!Indices
  <1>2. Segment(v)
    BY <1>1 DEF Segment
  <1>3. TrackSet(v) = 0 .. Cardinality(F) - 1 /\ Cardinality(F) \in Nat
    BY <1>2, SegmentCount, Finite
  <1>4. Cardinality(F) = n
    <2>1. \A m \in Nat : Cardinality(0 .. m - 1) = m
      BY FS_Interval
    <2>2. PICK c \in Nat, m \in Nat : c = Cardinality(F) /\ m = n
      BY <1>1, <1>3
    <2>3. 0 .. c - 1 = 0 .. m - 1
      BY <1>1, <1>3, <2>2
    <2>. QED
      BY <2>1, <2>2, <2>3
  <1>5. l = [m \in 1 .. Cardinality(F) |-> v[CHOOSE i \in F : R(i) = m - 1].song]
    BY DEF ListOf
  <1>6. ASSUME NEW i \in F PROVE v[i].track \in 0 .. n - 1 /\ R(i) = v[i].track
    <2>1. v[i].track \in 0 .. n - 1
      BY <1>1 DEF TrackSet
    <2>2. R(i) = RankIn(TrackSet(v), v[i].track)
      BY <1>1, TrackRank
    <2>. QED
      BY <1>1, <2>1, <2>2, SegmentRank
  <1>. HIDE DEF n, F, l, R
  <1>7. ASSUME NEW m \in 1 .. n PROVE l[m] = s[m]
    <2>1. m - 1 \in 0 .. n - 1 /\ (m - 1) + 1 = m
      BY <1>1
    <2>2. m - 1 \in TrackSet(v)
      BY <1>1, <2>1
    <2>3. PICK i \in F : v[i].track = m - 1
      BY <2>2 DEF TrackSet, F
    <2>4. R(i) = m - 1
      BY <1>6, <2>3
    <2>5. PICK j : j = CHOOSE k \in F : R(k) = m - 1
      OBVIOUS
    <2>6. j \in F /\ R(j) = m - 1
      BY <2>4, <2>5
    <2>7. v[j].track = m - 1
      BY <1>6, <2>6
    <2>8. v[j].song = s[m]
      BY <1>1, <2>1, <2>6, <2>7
    <2>. QED
      BY <1>4, <1>5, <2>5, <2>8
  <1>8. l \in [1 .. n -> Songs]
    <2>1. \A m \in 1 .. n : s[m] \in Songs
      BY <1>1, ElementOfSeq DEF n
    <2>2. DOMAIN l = 1 .. n /\ l = [m \in 1 .. n |-> l[m]]
      BY <1>4, <1>5
    <2>. QED
      BY <1>7, <2>1, <2>2
  <1>9. l \in Seq(Songs) /\ Len(l) = n
    BY <1>1, <1>8, IsASeq
  <1>10. l = s
    BY <1>1, <1>7, <1>9, SeqEqual DEF n
  <1>. QED
    BY <1>10 DEF l

\* A view that is numbered without gaps shows the list it is read as.
LEMMA SegmentShows ==
    ASSUME NEW v \in Views, Segment(v)
    PROVE  ShowsAll(v, ListOf(v))
  <1>. DEFINE F == Filled(v)
              n == Cardinality(F)
              at(m) == CHOOSE i \in F : v[i].track = m - 1
              s == [m \in 1 .. n |-> v[at(m)].song]
  <1>1. TrackSet(v) = 0 .. n - 1 /\ n \in Nat /\ DistinctTracks(v)
    BY SegmentCount, Finite DEF Segment
  <1>. HIDE DEF n
  <1>2. ASSUME NEW m \in 1 .. n
        PROVE  at(m) \in F /\ v[at(m)].track = m - 1 /\ v[at(m)].song \in Songs
    <2>1. m - 1 \in TrackSet(v)
      BY <1>1
    <2>2. \E i \in F : v[i].track = m - 1
      BY <2>1 DEF TrackSet
    <2>3. at(m) \in F /\ v[at(m)].track = m - 1
      BY <2>2
    <2>. HIDE DEF at, F
    <2>. QED
      BY <2>3, RowType DEF F
  <1>. HIDE DEF at
  <1>3. s \in [1 .. n -> Songs]
    BY <1>2
  <1>4. s \in Seq(Songs) /\ Len(s) = n
    BY <1>1, <1>3, IsASeq
  <1>5. ASSUME NEW i \in F PROVE v[i].song = s[v[i].track + 1]
    <2>1. PICK a \in 0 .. n - 1 : a = v[i].track
      BY <1>1 DEF TrackSet
    <2>2. a + 1 \in 1 .. n /\ (a + 1) - 1 = a
      BY <1>1
    <2>3. at(a + 1) \in F /\ v[at(a + 1)].track = a
      BY <1>2, <2>2
    <2>4. at(a + 1) = i
      BY <1>1, <2>1, <2>3 DEF DistinctTracks
    <2>. QED
      BY <2>1, <2>2, <2>4
  <1>. HIDE DEF s
  <1>6. ShowsAll(v, s)
    BY <1>1, <1>4, <1>5 DEF ShowsAll, Shows, List!Indices
  <1>. QED
    BY <1>6, ReadsAs

\* Without a row nothing is shown.
LEMMA ShowsNothing ==
    ASSUME NEW v, \A i \in Ids : v[i] = NoRow
    PROVE  ShowsAll(v, <<>>)
  <1>1. Filled(v) = {}
    BY DEF Filled
  <1>2. <<>> \in Seq(Songs) /\ Len(<<>>) = 0
    BY EmptySeq
  <1>3. TrackSet(v) = 0 .. 0 - 1
    BY <1>1 DEF TrackSet
  <1>. QED
    BY <1>1, <1>2, <1>3 DEF ShowsAll, Shows, List!Indices, DistinctTracks

\* RemoveTracks, the DELETE: the rows left are the elements at the other indices.
LEMMA RemovedList ==
    ASSUME NEW v, NEW w, NEW s, ShowsAll(v, s), NEW rm \in SUBSET (0 .. MaxTrack), Cut(v, w, rm)
    PROVE  rm \subseteq List!Indices(s) /\ Shows(w, s, List!Indices(s) \ rm)
  <1>1. /\ s \in Seq(Songs) /\ DistinctTracks(v) /\ TrackSet(v) = List!Indices(s)
        /\ \A i \in Filled(v) : v[i].song = s[v[i].track + 1]
    BY DEF ShowsAll, Shows
  <1>2. Segment(v)
    <2>1. PICK n \in Nat : n = Len(s)
      BY <1>1
    <2>. QED
      BY <1>1, <2>1 DEF Segment, List!Indices
  <1>3. Holed(w, rm) /\ rm \subseteq TrackSet(v) /\ TrackSet(w) = TrackSet(v) \ rm
    BY <1>2, RemovedView
  <1>4. \A i \in Filled(w) : i \in Filled(v) /\ w[i] = v[i]
    BY DEF Cut, Filled
  <1>. QED
    BY <1>1, <1>3, <1>4 DEF Shows, Holed

\* Rows renumbered by rank show the elements that are kept, also when rows with the
\* same song exchange their numbers.
LEMMA PackedList ==
    ASSUME NEW v, NEW w, NEW s, NEW P, Shows(v, s, P), Segment(w), Filled(w) = Filled(v),
           \A i \in Filled(v) : \E j \in Filled(v) :
              w[i].song = v[j].song /\ w[i].track = RankIn(P, v[j].track)
    PROVE  ShowsAll(w, List!Kept(s, P))
  <1>. DEFINE k == List!Kept(s, P)
              n == Cardinality(Filled(v))
  <1>1. /\ s \in Seq(Songs) /\ P \in SUBSET List!Indices(s)
        /\ DistinctTracks(v) /\ TrackSet(v) = P
        /\ \A i \in Filled(v) : v[i].song = s[v[i].track + 1]
    BY DEF Shows
  <1>2. /\ k \in Seq(Songs) /\ Len(k) = Cardinality(P)
        /\ \A a \in P : k[RankIn(P, a) + 1] = s[a + 1]
    BY <1>1, KeptFacts
  <1>3. TrackSet(w) = 0 .. n - 1 /\ DistinctTracks(w)
    BY SegmentCount DEF Segment
  <1>4. Cardinality(P) = n
    <2>. DEFINE f == [i \in Filled(v) |-> v[i].track]
    <2>1. f \in Bijection(Filled(v), P)
      BY <1>1 DEF DistinctTracks, TrackSet, Bijection, Injection, Surjection, IsInjective
    <2>. QED
      BY <2>1, Finite, FS_Bijection DEF ExistsBijection
  <1>. HIDE DEF k, n
  <1>5. TrackSet(w) = List!Indices(k)
    BY <1>2, <1>3, <1>4 DEF List!Indices
  <1>6. ASSUME NEW i \in Filled(w) PROVE w[i].song = k[w[i].track + 1]
    <2>1. PICK j \in Filled(v) : w[i].song = v[j].song /\ w[i].track = RankIn(P, v[j].track)
      OBVIOUS
    <2>2. v[j].track \in P
      BY <1>1 DEF TrackSet
    <2>. QED
      BY <1>1, <1>2, <2>1, <2>2
  <1>7. ShowsAll(w, k)
    BY <1>2, <1>3, <1>5, <1>6 DEF ShowsAll, Shows
  <1>. QED
    BY <1>7 DEF k

\* RemoveTracks, the UPDATE: the tracks are the indices without the removed ones.
LEMMA ShiftedList ==
    ASSUME NEW v, NEW w, NEW s, NEW rm \in SUBSET (0 .. MaxTrack),
           Shows(v, s, List!Indices(s) \ rm), Holed(v, rm), Filled(w) = Filled(v),
           \A i \in Filled(v) : w[i].track = Shifted(v[i].track, rm) /\ w[i].song = v[i].song
    PROVE  ShowsAll(w, List!Without(s, rm))
  <1>1. Segment(w) /\ \A i \in Filled(v) : w[i].track = RankIn(TrackSet(v), v[i].track)
    BY ShiftedView
  <1>2. PICK P : P = List!Indices(s) \ rm
    OBVIOUS
  <1>3. Shows(v, s, P) /\ TrackSet(v) = P
    BY <1>2 DEF Shows
  <1>4. \A i \in Filled(v) : \E j \in Filled(v) :
           w[i].song = v[j].song /\ w[i].track = RankIn(P, v[j].track)
    BY <1>1, <1>3
  <1>5. ShowsAll(w, List!Kept(s, P))
    BY <1>1, <1>3, <1>4, PackedList
  <1>. QED
    BY <1>2, <1>5 DEF List!Without

\* AddTracks appends.
LEMMA AppendedList ==
    ASSUME NEW v, NEW w, NEW s, ShowsAll(v, s), NEW add \in Seq(Songs),
           NEW F \in SUBSET Ids, NEW m, Lengthened(v, w, F, Len(add), m),
           \A i \in F : PlaceIn(F, i) <= Len(add) =>
              w[i].song = add[PlaceIn(F, i)] /\ PlaceIn(F, i) \in 1 .. Len(add)
    PROVE  ShowsAll(w, s \o add)
  <1>. DEFINE q == s \o add
  <1>1. /\ s \in Seq(Songs) /\ DistinctTracks(v) /\ TrackSet(v) = 0 .. Len(s) - 1
        /\ \A i \in Filled(v) : v[i].song = s[v[i].track + 1]
    BY DEF ShowsAll, Shows, List!Indices
  <1>2. PICK n \in Nat, k \in Nat : n = Len(s) /\ k = Len(add)
    BY <1>1
  <1>3. /\ q \in Seq(Songs) /\ Len(q) = n + k
        /\ \A i \in 1 .. n + k : q[i] = IF i <= n THEN s[i] ELSE add[i - n]
    BY <1>1, <1>2, ConcatProperties
  <1>. HIDE DEF q
  <1>4. Segment(v)
    BY <1>1, <1>2 DEF Segment
  <1>5. /\ Lengthened(v, w, F, k, m)
        /\ m = Max(TrackSet(v) \cup {-1})
        /\ \A i \in Ids : IF i \in F /\ PlaceIn(F, i) <= Len(add)
                          THEN w[i] # NoRow /\ w[i].track = m + PlaceIn(F, i)
                          ELSE w[i] = v[i]
    BY <1>2 DEF Lengthened
  <1>6. Segment(w)
    BY <1>4, <1>5, InsertedView
  <1>7. PICK c \in Nat : TrackSet(v) = 0 .. c - 1 /\ TrackSet(w) = 0 .. c + k - 1
    BY <1>4, <1>5, InsertedView
  <1>8. c = n
    <2>1. \A x \in Nat : Cardinality(0 .. x - 1) = x
      BY FS_Interval
    <2>. QED
      BY <1>1, <1>2, <1>7, <2>1
  <1>9. TrackSet(w) = List!Indices(q)
    BY <1>3, <1>7, <1>8 DEF List!Indices
  <1>10. m = n - 1
    BY <1>1, <1>2, <1>5, LastTrack
  <1>11. ASSUME NEW i \in Filled(w) PROVE w[i].song = q[w[i].track + 1]
    <2>1. i \in Ids /\ w[i] # NoRow
      BY DEF Filled
    <2>2. CASE i \in F /\ PlaceIn(F, i) <= Len(add)
      <3>1. PICK p \in 1 .. k : p = PlaceIn(F, i)
        BY <1>2, <2>1, <2>2
      <3>2. w[i].track = n - 1 + p /\ w[i].song = add[p]
        BY <1>5, <1>10, <2>1, <2>2, <3>1
      <3>3. n - 1 + p + 1 \in 1 .. n + k /\ ~(n - 1 + p + 1 <= n) /\ n - 1 + p + 1 - n = p
        OBVIOUS
      <3>. QED
        BY <1>3, <3>2, <3>3
    <2>3. CASE ~(i \in F /\ PlaceIn(F, i) <= Len(add))
      <3>1. w[i] = v[i] /\ i \in Filled(v)
        BY <1>5, <2>1, <2>3 DEF Filled
      <3>2. PICK a \in 0 .. n - 1 : a = v[i].track
        BY <1>1, <1>2, <3>1 DEF TrackSet
      <3>3. a + 1 \in 1 .. n + k /\ a + 1 <= n
        OBVIOUS
      <3>. QED
        BY <1>1, <1>3, <3>1, <3>2, <3>3
    <2>. QED
      BY <2>2, <2>3
  <1>12. ShowsAll(w, q)
    BY <1>3, <1>6, <1>9, <1>11 DEF ShowsAll, Shows, Segment
  <1>. QED
    BY <1>12 DEF q

\* A scan that deletes the rows of more songs spares the others.
LEMMA PurgedList ==
    ASSUME NEW v, NEW w, NEW s, NEW S, NEW G, Shows(v, s, Spared(s, S)),
           \A i \in Ids : w[i] = IF i \in Filled(v) /\ v[i].song \in G THEN NoRow ELSE v[i]
    PROVE  Shows(w, s, Spared(s, S \cup G))
  <1>1. /\ s \in Seq(Songs) /\ DistinctTracks(v) /\ TrackSet(v) = Spared(s, S)
        /\ \A i \in Filled(v) : v[i].song = s[v[i].track + 1]
    BY DEF Shows
  <1>2. \A i \in Ids : i \in Filled(w) <=> i \in Filled(v) /\ v[i].song \notin G
    BY DEF Filled
  <1>3. Filled(w) \subseteq Ids /\ Filled(v) \subseteq Ids
    BY DEF Filled
  <1>4. \A i \in Filled(w) : w[i] = v[i] /\ i \in Filled(v) /\ v[i].song \notin G
    BY <1>2, <1>3
  <1>5. TrackSet(w) = Spared(s, S \cup G)
    <2>1. ASSUME NEW i \in Filled(w) PROVE w[i].track \in Spared(s, S \cup G)
      <3>1. v[i].track \in Spared(s, S) /\ s[v[i].track + 1] \notin G /\ w[i] = v[i]
        BY <1>1, <1>4 DEF TrackSet
      <3>. QED
        BY <3>1 DEF Spared
    <2>2. ASSUME NEW a \in Spared(s, S \cup G) PROVE a \in TrackSet(w)
      <3>1. a \in Spared(s, S) /\ s[a + 1] \notin G
        BY DEF Spared
      <3>2. PICK i \in Filled(v) : v[i].track = a
        BY <1>1, <3>1 DEF TrackSet
      <3>3. i \in Filled(w) /\ w[i] = v[i]
        BY <1>1, <1>2, <1>3, <1>4, <3>1, <3>2
      <3>. QED
        BY <3>2, <3>3 DEF TrackSet
    <2>. QED
      BY <2>1, <2>2 DEF TrackSet
  <1>6. DistinctTracks(w)
    BY <1>1, <1>4 DEF DistinctTracks
  <1>7. Spared(s, S \cup G) \subseteq List!Indices(s)
    BY DEF Spared
  <1>. QED
    BY <1>1, <1>4, <1>5, <1>6, <1>7 DEF Shows

-----------------------------------------------------------------------------
(* The stages of a transaction.  *)

\* AsList reads the committed rows.
LEMMA AsListOf ==
    /\ AsList = ListOf(com)
    /\ AsList' = ListOf(com')
    /\ Committed = Filled(com)
  BY DEF AsList, ListOf, Committed, Filled

\* An edit that removes something does so first.
LEMMA FirstRemoves ==
    ASSUME NEW c \in Clients, NEW x, TxOK(c, x), FullProg(x), ~x.busy, x.pc = "edit", x.rm # {}
    PROVE  NextKind(x) = "remove"
  <1>0. x.rm \in SUBSET (0 .. MaxTrack) /\ x.add \in Seq(Songs)
    BY DEF TxOK
  <1>. DEFINE A == Adding(x.add)
              sh == Statement("shift", x.rm)
              re == Statement("remove", x.rm)
  <1>1. x.prog = <<re>> \o (<<sh>> \o A)
    BY <1>0, TouchProg DEF FullProg
  <1>2. A \in Seq(Statements) /\ sh \in Statements /\ re \in Statements
    BY <1>0, AddingProg DEF Statement, Statements, Args
  <1>3. re.kind = "remove"
    BY StatementFields
  <1>. HIDE DEF A, sh, re
  <1>4. <<sh>> \o A \in Seq(Statements)
    BY <1>2, ConsParts
  <1>5. x.prog # <<>> /\ Head(x.prog) = re
    BY <1>1, <1>2, <1>4, ConsParts
  <1>. QED
    BY <1>3, <1>5 DEF NextKind

\* A transaction that has written nothing is at its first stage.
LEMMA FirstStage ==
    ASSUME NEW v \in Views, Segment(v), NEW c \in Clients, NEW x, TxOK(c, x), FullProg(x), ~x.busy
    PROVE  EditStage(v, ListOf(v), x)
  <1>1. PICK s : s = ListOf(v)
    OBVIOUS
  <1>2. ShowsAll(v, s) /\ s \in Seq(Songs)
    BY <1>1, SegmentShows DEF ShowsAll, Shows
  <1>3. x.rm \in SUBSET (0 .. MaxTrack) /\ x.add \in Seq(Songs)
    BY DEF TxOK
  <1>4. ASSUME x.pc = "edit", x.rm # {}
        PROVE  NextKind(x) = "remove"
    BY <1>4, FirstRemoves
  <1>5. ASSUME x.pc = "edit", x.rm = {}
        PROVE  NextKind(x) \in {"end", "add"} /\ Appended(x) = <<>>
    <2>1. x.prog = Adding(x.add)
      BY <1>3, <1>5, TouchProg DEF FullProg
    <2>2. x.prog # <<>> => Head(x.prog) = Statement("add", x.add)
      BY <1>3, <2>1, AddingProg
    <2>3. x.prog = <<>> => x.add = <<>>
      BY <2>1, SMTT(30) DEF Adding
    <2>. QED
      BY <2>2, <2>3, StatementFields DEF NextKind, Appended
  <1>6. List!Without(s, {}) \o <<>> = s
    BY <1>2, WithoutNothing, ConcatEmptySeq
  <1>7. CASE x.pc = "edit" /\ x.rm # {}
    BY <1>1, <1>2, <1>4, <1>7 DEF EditStage
  <1>8. CASE x.pc = "edit" /\ x.rm = {}
    <2>1. x.rm \subseteq List!Indices(s) /\ ShowsAll(v, List!Without(s, x.rm) \o Appended(x))
      BY <1>2, <1>5, <1>6, <1>8
    <2>2. NextKind(x) # "remove" /\ NextKind(x) # "shift" /\ x.pc # "replace"
      BY <1>5, <1>8
    <2>. QED
      BY <1>1, <2>1, <2>2 DEF EditStage
  <1>9. CASE x.pc = "replace"
    BY <1>9 DEF EditStage, FullProg
  <1>10. CASE x.pc \notin {"edit", "replace"}
    BY <1>10 DEF EditStage
  <1>. QED
    BY <1>7, <1>8, <1>9, <1>10

\* So is a scan.
LEMMA FirstScanStage ==
    ASSUME NEW v \in Views, Segment(v), NEW x, x.prog # <<>>, ~x.taken
    PROVE  ScanStage(v, ListOf(v), x)
  <1>1. PICK s : s = ListOf(v)
    OBVIOUS
  <1>2. ShowsAll(v, s)
    BY <1>1, SegmentShows
  <1>3. Spared(s, {}) = List!Indices(s)
    BY DEF Spared
  <1>4. Shows(v, s, Spared(s, {})) /\ {} \in SUBSET Songs
    BY <1>2, <1>3 DEF ShowsAll
  <1>. QED
    BY <1>1, <1>4 DEF ScanStage

\* The stages of a client do not depend on its snapshot.
LEMMA SameEditStage ==
    ASSUME NEW v, NEW s, NEW x, NEW y, SameProgram(x, y), EditStage(v, s, x)
    PROVE  EditStage(v, s, y)
  <1>1. y.pc = x.pc /\ y.rm = x.rm /\ NextKind(y) = NextKind(x) /\ Appended(y) = Appended(x)
    BY DEF SameProgram, NextKind, Appended
  <1>. QED
    BY <1>1 DEF EditStage

\* A statement of a client takes its view to the next stage.
LEMMA NextEditStage ==
    ASSUME NEW v, NEW w, NEW s, NEW c \in Clients, NEW x, NEW y, NEW st, NEW rest,
           TxOK(c, x), s \in Seq(Songs), x.prog # <<>>, st = Head(x.prog), ProgFacts(c, x, st, rest),
           EditStage(v, s, x), ClientWrites(v, w, st, x, rest),
           y.pc = x.pc, y.rm = x.rm, y.add = x.add, y.prog = rest
    PROVE  EditStage(w, s, y)
  <1>1. x.rm \in SUBSET (0 .. MaxTrack) /\ x.add \in Seq(Songs)
    BY DEF TxOK
  <1>2. NextKind(x) = st.kind
    BY DEF NextKind
  <1>3. st.kind \in {"remove", "shift", "clear"}
    BY DEF ClientWrites
  <1>4. CASE st.kind = "remove"
    <2>1. y.pc = "edit" /\ NextKind(y) = "shift" /\ ShowsAll(v, s)
      BY <1>2, <1>4 DEF ProgFacts, NextKind, EditStage
    <2>2. x.rm \subseteq List!Indices(s) /\ Shows(w, s, List!Indices(s) \ x.rm)
      BY <1>1, <1>4, <2>1, RemovedList DEF ClientWrites
    <2>. QED
      BY <2>1, <2>2 DEF EditStage
  <1>5. ASSUME rest = Adding(x.add)
        PROVE  NextKind(y) \in {"end", "add"} /\ Appended(y) = <<>>
    <2>1. y.prog # <<>> => Head(y.prog) = Statement("add", x.add)
      BY <1>1, <1>5, AddingProg
    <2>2. Adding(x.add) = <<>> => x.add = <<>>
      BY Single DEF Adding
    <2>3. y.prog = <<>> => y.add = <<>>
      BY <1>5, <2>2
    <2>. QED
      BY <2>1, <2>3, StatementFields DEF NextKind, Appended
  <1>6. CASE st.kind = "shift"
    <2>1. x.pc = "edit" /\ rest = Adding(x.add)
      BY <1>6 DEF ProgFacts
    <2>2. x.rm \subseteq List!Indices(s) /\ Shows(v, s, List!Indices(s) \ x.rm)
      BY <1>2, <1>6, <2>1 DEF EditStage
    <2>3. /\ Holed(v, x.rm) /\ Filled(w) = Filled(v)
          /\ \A i \in Filled(v) : w[i].track = Shifted(v[i].track, x.rm) /\ w[i].song = v[i].song
      BY <1>6 DEF ClientWrites
    <2>4. ShowsAll(w, List!Without(s, x.rm))
      BY <1>1, <2>2, <2>3, ShiftedList
    <2>5. List!Without(s, x.rm) \in Seq(Songs)
      BY <2>4 DEF ShowsAll, Shows
    <2>6. List!Without(s, x.rm) \o <<>> = List!Without(s, x.rm)
      BY <2>5, ConcatEmptySeq
    <2>. QED
      BY <1>5, <2>1, <2>2, <2>4, <2>6 DEF EditStage
  <1>7. CASE st.kind = "clear"
    <2>1. x.pc # "edit" /\ rest = Adding(x.add)
      BY <1>7 DEF ProgFacts
    <2>2. ShowsAll(w, <<>>)
      BY <1>7, ShowsNothing DEF ClientWrites
    <2>. QED
      BY <1>5, <2>1, <2>2 DEF EditStage
  <1>. QED
    BY <1>3, <1>4, <1>6, <1>7

\* AddTracks is the last statement.
LEMMA LastEditStage ==
    ASSUME NEW v, NEW w, NEW s, NEW x, NEW y, NEW F \in SUBSET Ids, NEW m,
           x.add \in Seq(Songs), s \in Seq(Songs), NextKind(x) = "add", EditStage(v, s, x),
           Lengthened(v, w, F, Len(x.add), m),
           \A i \in F : PlaceIn(F, i) <= Len(x.add) =>
              w[i].song = x.add[PlaceIn(F, i)] /\ PlaceIn(F, i) \in 1 .. Len(x.add),
           y.pc = x.pc, y.rm = x.rm, y.add = x.add, y.prog = <<>>
    PROVE  EditStage(w, s, y)
  <1>1. ASSUME NEW q, ShowsAll(v, q) PROVE ShowsAll(w, q \o x.add)
    BY <1>1, AppendedList
  <1>2. Appended(x) = <<>> /\ Appended(y) = x.add /\ NextKind(y) = "end"
    BY DEF Appended, NextKind
  <1>3. CASE x.pc = "edit"
    <2>. DEFINE r == List!Without(s, x.rm)
    <2>1. x.rm \subseteq List!Indices(s) /\ ShowsAll(v, r \o <<>>)
      BY <1>2, <1>3 DEF EditStage
    <2>2. r \in Seq(Songs)
      <3>1. List!Indices(s) \ x.rm \in SUBSET List!Indices(s)
        OBVIOUS
      <3>. QED
        BY <3>1, KeptFacts DEF List!Without
    <2>. HIDE DEF r
    <2>3. r \o <<>> = r
      BY <2>2, ConcatEmptySeq
    <2>4. ShowsAll(w, r \o x.add)
      BY <1>1, <2>1, <2>3
    <2>. QED
      BY <1>2, <1>3, <2>1, <2>4 DEF EditStage, r
  <1>4. CASE x.pc = "replace"
    <2>1. ShowsAll(v, <<>>)
      BY <1>2, <1>4 DEF EditStage
    <2>2. <<>> \o x.add = x.add
      BY ConcatEmptySeq
    <2>3. ShowsAll(w, x.add)
      BY <1>1, <2>1, <2>2
    <2>. QED
      BY <1>2, <1>4, <2>3 DEF EditStage
  <1>5. CASE x.pc \notin {"edit", "replace"}
    BY <1>5 DEF EditStage
  <1>. QED
    BY <1>3, <1>4, <1>5

\* A statement of a scan takes its view to the next stage.
LEMMA NextScanStage ==
    ASSUME NEW v \in Views, NEW w, NEW s, NEW x, NEW y, NEW st, NEW f,
           x.prog # <<>>, x.taken, st = Head(x.prog), f = x.snap,
           ProgFacts(Scan, x, st, y.prog), ~y.taken,
           ScanStage(v, s, x), ScanWrites(v, w, st, f)
    PROVE  ScanStage(w, s, y)
  <1>1. PICK S \in SUBSET Songs : Shows(v, s, Spared(s, S)) /\ ScanFresh(v, st, f)
    BY DEF ScanStage
  <1>2. CASE st.kind \in {"songs", "hidden"}
    <2>. DEFINE G == Songs \cap st.arg
    <2>1. \A i \in Filled(v) : i \in Ids /\ v[i] # NoRow /\ v[i].song \in Songs
      BY RowType DEF Filled
    <2>2. DOMAIN f = {i \in Filled(v) : v[i].song \in st.arg}
      BY <1>1, <1>2 DEF ScanFresh
    <2>3. \A i \in Ids : w[i] = IF i \in DOMAIN f /\ v[i] # NoRow /\ v[i].song \in st.arg
                                THEN NoRow ELSE v[i]
      BY <1>2 DEF ScanWrites
    <2>4. \A i \in Ids : w[i] = IF i \in Filled(v) /\ v[i].song \in G THEN NoRow ELSE v[i]
      BY <2>1, <2>2, <2>3
    <2>5. Shows(w, s, Spared(s, S \cup G))
      BY <1>1, <2>4, PurgedList
    <2>6. S \cup G \in SUBSET Songs /\ y.prog # <<>>
      BY <1>2 DEF ProgFacts
    <2>. HIDE DEF G
    <2>. QED
      BY <2>5, <2>6 DEF ScanStage
  <1>3. CASE st.kind = "fix"
    <2>1. /\ DOMAIN f \subseteq Filled(v)
          /\ Filled(w) = Filled(v)
          /\ \A i \in Filled(v) : /\ w[i].song = v[i].song
                                  /\ w[i].track = IF i \in DOMAIN f THEN f[i] ELSE v[i].track
                                  /\ w[i].track \in 0 .. Cardinality(Filled(v)) - 1
          /\ DistinctTracks(w)
      BY <1>3 DEF ScanWrites
    <2>2. Segment(w)
      <3>1. TrackSet(w) \subseteq 0 .. Cardinality(Filled(w)) - 1
        BY <2>1 DEF TrackSet
      <3>. QED
        BY <2>1, <3>1, Pigeons
    <2>3. PICK P : P = Spared(s, S)
      OBVIOUS
    <2>4. Shows(v, s, P) /\ TrackSet(v) = P
      BY <1>1, <2>3 DEF Shows
    <2>5. /\ \A i \in DOMAIN f :
                \E j \in Filled(v) : v[j].song = v[i].song /\ f[i] = RankIn(P, v[j].track)
          /\ \A i \in Filled(v) \ DOMAIN f : v[i].track = RankIn(P, v[i].track)
      BY <1>1, <1>3, <2>4 DEF ScanFresh
    <2>6. ASSUME NEW i \in Filled(v)
          PROVE  \E j \in Filled(v) : w[i].song = v[j].song /\ w[i].track = RankIn(P, v[j].track)
      <3>1. CASE i \in DOMAIN f
        BY <2>1, <2>5, <3>1
      <3>2. CASE i \notin DOMAIN f
        BY <2>1, <2>5, <3>2
      <3>. QED
        BY <3>1, <3>2
    <2>7. ShowsAll(w, List!Kept(s, P))
      BY <2>1, <2>2, <2>4, <2>6, PackedList
    <2>8. y.prog = <<>>
      BY <1>3 DEF ProgFacts
    <2>. QED
      BY <2>3, <2>7, <2>8 DEF ScanStage
  <1>4. st.kind \in {"songs", "hidden", "fix"}
    BY DEF ProgFacts
  <1>. QED
    BY <1>2, <1>3, <1>4

\* The snapshot a scan has just taken.
LEMMA ScanTakes ==
    ASSUME TypeOK, NEW t, NEW st, NEW f \in Snapshots(t, st), DistinctTracks(View(t))
    PROVE  ScanFresh(View(t), st, f)
  <1>1. PICK v : v = View(t)
    OBVIOUS
  <1>2. /\ \A i \in Ids : v[i] = Sees(t, i)
        /\ Filled(v) = Visible(t)
        /\ Visible(t) \subseteq Ids
        /\ DistinctTracks(v)
    BY <1>1, ViewParts DEF Visible
  <1>3. CASE st.kind \in {"songs", "hidden"}
    <2>1. f = [i \in {i \in Visible(t) : Matches(st, <<>>, i, Sees(t, i))} |-> 0]
      BY <1>3 DEF Snapshots
    <2>2. DOMAIN f = {i \in Visible(t) : Sees(t, i).song \in st.arg}
      BY <1>3, <2>1 DEF Matches
    <2>3. DOMAIN f = {i \in Filled(v) : v[i].song \in st.arg}
      BY <1>2, <2>2
    <2>. QED
      BY <1>1, <1>3, <2>3 DEF ScanFresh
  <1>4. CASE st.kind = "fix"
    <2>. DEFINE T == {i \in Visible(t) : FixCandidates(t, i) # {}}
    <2>1. DOMAIN f = T /\ \A i \in T : f[i] \in FixCandidates(t, i)
      BY <1>4 DEF Snapshots
    <2>2. ASSUME NEW i \in Visible(t) PROVE NewTrack(t, i) = RankIn(TrackSet(v), v[i].track)
      <3>1. NewTrack(t, i) = Cardinality({j \in Filled(v) : v[j].track < v[i].track})
        <4>1. {j \in Visible(t) : Sees(t, j).track < Sees(t, i).track}
                = {j \in Filled(v) : v[j].track < v[i].track}
          BY <1>2
        <4>. QED
          BY <4>1 DEF NewTrack
      <3>. QED
        BY <1>2, <3>1, TrackRank
    <2>3. ASSUME NEW i \in T
          PROVE  \E j \in Filled(v) : v[j].song = v[i].song /\ f[i] = RankIn(TrackSet(v), v[j].track)
      <3>1. f[i] \in FixCandidates(t, i) /\ i \in Visible(t)
        BY <2>1
      <3>2. PICK j \in Visible(t) : Sees(t, j).song = Sees(t, i).song /\ f[i] = NewTrack(t, j)
        BY <3>1 DEF FixCandidates
      <3>. QED
        BY <1>2, <2>2, <3>1, <3>2
    <2>4. ASSUME NEW i \in Visible(t) \ T
          PROVE  v[i].track = RankIn(TrackSet(v), v[i].track)
      <3>1. FixCandidates(t, i) = {}
        OBVIOUS
      <3>2. NewTrack(t, i) = Sees(t, i).track
        BY <3>1 DEF FixCandidates
      <3>. QED
        BY <1>2, <2>2, <3>2
    <2>. HIDE DEF T
    <2>. QED
      BY <1>1, <1>2, <1>4, <2>1, <2>3, <2>4 DEF ScanFresh
  <1>5. CASE st.kind \notin {"songs", "hidden", "fix"}
    BY <1>5 DEF ScanFresh
  <1>. QED
    BY <1>3, <1>4, <1>5

-----------------------------------------------------------------------------
(* Steps.  *)

\* What c has written stays as it is.
Untouched(c) ==
    \A i \in Ids : /\ lock'[i] = c <=> lock[i] = c
                   /\ lock[i] = c => cur'[i] = cur[i] /\ com'[i] = com[i]

\* A step of another transaction leaves the program of c and what it has deleted.
LEMMA OthersKeep ==
    ASSUME NEW c \in Clients, FullProg(tx[c]), RemovedBy(c), Untouched(c),
           SameProgram(tx[c], tx'[c]), tx'[c].busy = tx[c].busy
    PROVE  FullProg(tx'[c]) /\ RemovedBy(c)'
  <1>1. NextKind(tx'[c]) = NextKind(tx[c])
    BY DEF NextKind, SameProgram
  <1>2. FullProg(tx'[c])
    BY <1>1 DEF FullProg, SameProgram
  <1>3. Deleted(c)' = Deleted(c)
    BY DEF Deleted, Untouched
  <1>4. (\A i \in Ids : lock[i] # c) => \A i \in Ids : lock'[i] # c
    BY DEF Untouched
  <1>. QED
    BY <1>1, <1>2, <1>3, <1>4 DEF RemovedBy, SameProgram

\* The beginning of a transaction keeps Exact.
LEMMA BeginExact ==
    ASSUME ListInv, Exact, NEW t \in Txs, NEW x, Begins(t, x), FullProg(x)
    PROVE  Exact'
  <1>1. /\ UNCHANGED <<com, cur, lock, settled>>
        /\ \A u : View(u)' = View(u)
    BY SameViews DEF Begins, table
  <1>2. DOMAIN tx = Txs /\ \A u \in Txs : TxOK(u, tx[u])
    BY DEF ListInv, Transactions
  <1>3. tx'[t] = x /\ \A u \in Txs \ {t} : tx'[u] = tx[u]
    BY <1>2 DEF Begins
  <1>4. TxOK(t, x) /\ ~x.busy /\ ~x.taken /\ ~tx[t].busy
    BY <1>2 DEF Begins, TxOK, ProgOK
  <1>5. View(t) = com /\ \A i \in Ids : lock[i] # t
    BY <1>4, ViewOfIdle, Names DEF ListInv
  <1>6. AsList = ListOf(com) /\ AsList' = AsList
    BY <1>1, AsListOf
  <1>7. com \in Views /\ (settled => Segment(com))
    BY DEF ListInv, TypeOK, Views, Numbers
  <1>8. ASSUME NEW c \in Clients PROVE FullProg(tx'[c]) /\ RemovedBy(c)'
    <2>1. CASE c = t
      <3>1. Deleted(c) = {} /\ Deleted(c)' = Deleted(c)
        BY <1>1, <1>5, <2>1 DEF Deleted
      <3>2. x.pc = "edit" /\ x.rm # {} => NextKind(x) = "remove"
        BY <1>4, <2>1, FirstRemoves
      <3>3. RemovedBy(c)'
        BY <1>1, <1>3, <1>5, <2>1, <3>1, <3>2 DEF RemovedBy
      <3>. QED
        BY <1>3, <2>1, <3>3
    <2>2. CASE c # t
      <3>1. tx'[c] = tx[c] /\ FullProg(tx[c]) /\ RemovedBy(c)
        BY <1>3, <2>2, Names DEF Exact, Asked, Removed
      <3>2. Untouched(c) /\ SameProgram(tx[c], tx'[c])
        BY <1>1, <3>1 DEF Untouched, SameProgram
      <3>. QED
        BY <3>1, <3>2, OthersKeep
    <2>. QED
      BY <2>1, <2>2
  <1>9. Edited'
    <2>. SUFFICES ASSUME NEW c \in Clients, settled', owner' = c
                  PROVE  EditStage(View(c)', AsList', tx'[c])
      BY DEF Edited
    <2>1. CASE c = t
      <3>1. EditStage(com, ListOf(com), x)
        BY <1>1, <1>4, <1>7, <2>1, FirstStage
      <3>. QED
        BY <1>1, <1>3, <1>5, <1>6, <2>1, <3>1
    <2>2. CASE c # t
      <3>1. owner = c /\ tx'[c] = tx[c]
        BY <1>3, <2>2, Names DEF Begins
      <3>2. EditStage(View(c), AsList, tx[c])
        BY <1>1, <3>1 DEF Exact, Edited
      <3>. QED
        BY <1>1, <1>6, <3>1, <3>2
    <2>. QED
      BY <2>1, <2>2
  <1>10. Purged'
    <2>. SUFFICES ASSUME settled', tx'[Scan].pc = "scan", tx'[Scan].alone
                  PROVE  ScanStage(View(Scan)', AsList', tx'[Scan])
      BY DEF Purged
    <2>1. CASE t = Scan
      <3>1. x.prog # <<>>
        BY <2>1 DEF Begins
      <3>2. ScanStage(com, ListOf(com), x)
        BY <1>1, <1>4, <1>7, <3>1, FirstScanStage
      <3>. QED
        BY <1>1, <1>3, <1>5, <1>6, <2>1, <3>2
    <2>2. CASE t # Scan
      <3>1. tx'[Scan] = tx[Scan]
        BY <1>3, <2>2, Names
      <3>2. ScanStage(View(Scan), AsList, tx[Scan])
        BY <1>1, <3>1 DEF Exact, Purged
      <3>. QED
        BY <1>1, <1>6, <3>1, <3>2
    <2>. QED
      BY <2>1, <2>2
  <1>. QED
    BY <1>8, <1>9, <1>10 DEF Exact, Asked, Removed

\* Taking a snapshot keeps Exact.
LEMMA TakeExact ==
    ASSUME ListInv, Exact, NEW t \in Txs, TakeSnapshot(t)
    PROVE  Exact'
  <1>1. /\ tx[t].prog # <<>>
        /\ \A u \in Txs : SameProgram(tx[u], tx'[u]) /\ (tx'[u].alone => tx[u].alone)
        /\ \A u \in Txs \ {t} : /\ tx'[u].taken = tx[u].taken /\ tx'[u].snap = tx[u].snap
                                /\ tx'[u].busy = tx[u].busy
        /\ tx'[t].taken = TRUE /\ tx'[t].busy = TRUE
        /\ tx'[t].snap \in Snapshots(t, Head(tx[t].prog))
    BY TakeEffect
  <1>2. /\ UNCHANGED <<com, cur, lock, owner, settled>>
        /\ \A u : View(u)' = View(u)
    BY SameViews DEF TakeSnapshot, table
  <1>3. AsList' = AsList
    BY <1>2, AsListOf
  <1>4. ASSUME NEW c \in Clients PROVE FullProg(tx'[c]) /\ RemovedBy(c)'
    <2>1. FullProg(tx[c]) /\ RemovedBy(c) /\ SameProgram(tx[c], tx'[c])
      BY <1>1, Names DEF Exact, Asked, Removed
    <2>2. CASE c = t
      <3>1. FullProg(tx'[c])
        BY <1>1, <2>1, <2>2 DEF FullProg, SameProgram
      <3>2. Deleted(c)' = Deleted(c) /\ NextKind(tx'[c]) = NextKind(tx[c])
        BY <1>2, <2>1 DEF Deleted, NextKind, SameProgram
      <3>. QED
        BY <1>2, <2>1, <3>1, <3>2 DEF RemovedBy, SameProgram
    <2>3. CASE c # t
      <3>1. Untouched(c) /\ tx'[c].busy = tx[c].busy
        BY <1>1, <1>2, <2>3, Names DEF Untouched
      <3>. QED
        BY <2>1, <3>1, OthersKeep
    <2>. QED
      BY <2>2, <2>3
  <1>5. Edited'
    <2>. SUFFICES ASSUME NEW c \in Clients, settled', owner' = c
                  PROVE  EditStage(View(c)', AsList', tx'[c])
      BY DEF Edited
    <2>1. EditStage(View(c), AsList, tx[c]) /\ SameProgram(tx[c], tx'[c])
      BY <1>1, <1>2, Names DEF Exact, Edited
    <2>2. PICK v, s, x, y : v = View(c) /\ s = AsList /\ x = tx[c] /\ y = tx'[c]
      OBVIOUS
    <2>3. EditStage(v, s, y)
      BY <2>1, <2>2, SameEditStage
    <2>. QED
      BY <1>2, <1>3, <2>2, <2>3
  <1>6. Purged'
    <2>. SUFFICES ASSUME settled', tx'[Scan].pc = "scan", tx'[Scan].alone
                  PROVE  ScanStage(View(Scan)', AsList', tx'[Scan])
      BY DEF Purged
    <2>1. PICK v, s, x, y : v = View(Scan) /\ s = AsList /\ x = tx[Scan] /\ y = tx'[Scan]
      OBVIOUS
    <2>2. SameProgram(x, y) /\ y.prog = x.prog
      BY <1>1, <2>1, Names DEF SameProgram
    <2>3. ScanStage(v, s, x)
      BY <1>1, <1>2, <2>1, <2>2, Names DEF Exact, Purged, SameProgram
    <2>4. ScanStage(v, s, y)
      <3>1. CASE t = Scan
        <4>1. x.prog # <<>>
          BY <1>1, <2>1, <3>1
        <4>2. PICK S \in SUBSET Songs : Shows(v, s, Spared(s, S))
          BY <2>3, <4>1 DEF ScanStage
        <4>3. TypeOK /\ DistinctTracks(View(Scan))
          BY <2>1, <4>2 DEF ListInv, Shows
        <4>4. PICK f \in Snapshots(Scan, Head(x.prog)) : f = y.snap
          BY <1>1, <2>1, <3>1
        <4>5. ScanFresh(View(Scan), Head(x.prog), f)
          BY <4>3, ScanTakes
        <4>. QED
          BY <2>1, <2>2, <4>1, <4>2, <4>4, <4>5 DEF ScanStage
      <3>2. CASE t # Scan
        <4>1. y.taken = x.taken /\ y.snap = x.snap
          BY <1>1, <2>1, <3>2, Names
        <4>. QED
          BY <2>2, <2>3, <4>1 DEF ScanStage
      <3>. QED
        BY <3>1, <3>2
    <2>. QED
      BY <1>2, <1>3, <2>1, <2>4
  <1>. QED
    BY <1>4, <1>5, <1>6 DEF Exact, Asked, Removed

\* A write that takes its transaction to the next stage keeps Exact.
LEMMA WriteExact ==
    ASSUME ListInv, Exact, NEW t \in Txs, NEW A, NEW N, Writes(t, A, N),
           t \in Clients => RemovedBy(t)',
           t \in Clients /\ settled => EditStage(Written(View(t), A, N), AsList, tx'[t]),
           t = Scan /\ settled /\ tx[t].alone => ScanStage(Written(View(t), A, N), AsList, tx'[t])
    PROVE  Exact'
  <1>1. /\ \A u \in Txs \ {t} : tx'[u] = tx[u]
        /\ tx[t].busy /\ tx[t].prog # <<>>
        /\ tx'[t].pc = tx[t].pc /\ tx'[t].rm = tx[t].rm /\ tx'[t].add = tx[t].add
        /\ tx'[t].busy = tx[t].busy /\ tx'[t].alone = tx[t].alone
    <2>1. tx[t].taken /\ Advance(t)
      BY DEF Writes
    <2>. QED
      BY <2>1, Advanced
  <1>2. View(t)' = Written(View(t), A, N) /\ \A u \in Txs \ {t} : View(u)' = View(u)
    BY WriteViews
  <1>3. /\ A \subseteq Ids
        /\ \A i \in A : lock[i] \in {t, NoTx}
        /\ cur' = [i \in Ids |-> IF i \in A THEN N[i] ELSE cur[i]]
        /\ lock' = [i \in Ids |-> IF i \in A THEN t ELSE lock[i]]
        /\ UNCHANGED <<com, owner, settled>>
    BY DEF Writes
  <1>4. AsList' = AsList
    BY <1>3, AsListOf
  <1>5. ASSUME NEW c \in Clients PROVE FullProg(tx'[c]) /\ RemovedBy(c)'
    <2>1. FullProg(tx[c]) /\ RemovedBy(c)
      BY DEF Exact, Asked, Removed
    <2>2. CASE c = t
      BY <1>1, <2>1, <2>2 DEF FullProg
    <2>3. CASE c # t
      <3>1. tx'[c] = tx[c] /\ c # NoTx
        BY <1>1, <2>3, Names
      <3>2. Untouched(c) /\ SameProgram(tx[c], tx'[c])
        BY <1>3, <2>3, <3>1 DEF Untouched, SameProgram
      <3>. QED
        BY <2>1, <3>1, <3>2, OthersKeep
    <2>. QED
      BY <2>2, <2>3
  <1>6. Edited'
    <2>. SUFFICES ASSUME NEW c \in Clients, settled', owner' = c
                  PROVE  EditStage(View(c)', AsList', tx'[c])
      BY DEF Edited
    <2>1. CASE c = t
      BY <1>2, <1>3, <1>4, <2>1
    <2>2. CASE c # t
      <3>1. EditStage(View(c), AsList, tx[c])
        BY <1>3 DEF Exact, Edited
      <3>. QED
        BY <1>1, <1>2, <1>4, <2>2, <3>1, Names
    <2>. QED
      BY <2>1, <2>2
  <1>7. Purged'
    <2>. SUFFICES ASSUME settled', tx'[Scan].pc = "scan", tx'[Scan].alone
                  PROVE  ScanStage(View(Scan)', AsList', tx'[Scan])
      BY DEF Purged
    <2>1. CASE t = Scan
      BY <1>1, <1>2, <1>3, <1>4, <2>1
    <2>2. CASE t # Scan
      <3>1. tx'[Scan] = tx[Scan] /\ View(Scan)' = View(Scan)
        BY <1>1, <1>2, <2>2, Names
      <3>2. ScanStage(View(Scan), AsList, tx[Scan])
        BY <1>3, <3>1 DEF Exact, Purged
      <3>. QED
        BY <1>4, <3>1, <3>2
    <2>. QED
      BY <2>1, <2>2
  <1>. QED
    BY <1>5, <1>6, <1>7 DEF Exact, Asked, Removed

\* DELETE of an edit removes as many rows as the client named, and no later statement
\* of the edit removes one or brings one back.
LEMMA ExecuteRemoves ==
    ASSUME ListInv, Exact, NEW t \in Clients, Execute(t)
    PROVE  RemovedBy(t)'
  <1>1. PICK st, f : st = Head(tx[t].prog) /\ f = tx[t].snap
    OBVIOUS
  <1>2. PICK A, N : A = Affected(t, st, f) /\ N = NewRows(t, st, f)
    OBVIOUS
  <1>3. /\ Writes(t, A, N) /\ tx[t].prog # <<>> /\ tx[t].taken
        /\ ProgFacts(t, tx[t], st, Tail(tx[t].prog))
        /\ st.kind # "add"
        /\ st.kind = "remove" => Cardinality(A) = Cardinality(st.arg)
        /\ st.kind = "remove" => \A i \in A : N[i] = NoRow
        /\ st.kind = "shift" => \A i \in A : N[i] # NoRow
    <2>1. t \in Txs
      BY Names
    <2>. QED
      BY <1>1, <1>2, <2>1, ExecuteWrites, SMTT(30)
  <1>4. /\ A \subseteq Ids
        /\ cur' = [i \in Ids |-> IF i \in A THEN N[i] ELSE cur[i]]
        /\ lock' = [i \in Ids |-> IF i \in A THEN t ELSE lock[i]]
        /\ com' = com /\ Advance(t)
    BY <1>3 DEF Writes
  <1>5. PICK x, y : x = tx[t] /\ y = tx'[t]
    OBVIOUS
  <1>6. y.pc = x.pc /\ y.rm = x.rm /\ y.prog = Tail(x.prog)
    BY <1>3, <1>4, <1>5, Advanced, Names
  <1>7. \A i \in A : IF lock[i] = t THEN cur[i] # NoRow ELSE com[i] # NoRow
    BY <1>2 DEF Affected, Sees
  <1>8. st.kind \in {"remove", "shift", "clear"} /\ NextKind(x) = st.kind
    BY <1>1, <1>3, <1>5, Names DEF ProgFacts, NextKind
  <1>9. RemovedBy(t) /\ TxOK(t, x)
    BY <1>5, Names DEF Exact, Removed, ListInv, Transactions
  <1>10. CASE st.kind = "remove"
    <2>1. x.pc = "edit" /\ st.arg = x.rm /\ NextKind(y) = "shift"
      BY <1>3, <1>5, <1>6, <1>10 DEF ProgFacts, NextKind
    <2>2. \A i \in Ids : lock[i] # t
      BY <1>5, <1>8, <1>9, <1>10, <2>1 DEF RemovedBy
    <2>3. Deleted(t)' = A
      BY <1>3, <1>4, <1>7, <1>10, <2>2 DEF Deleted
    <2>. QED
      BY <1>3, <1>5, <1>6, <1>10, <2>1, <2>3 DEF RemovedBy
  <1>11. CASE st.kind = "shift"
    <2>1. x.pc = "edit" /\ x.add \in Seq(Songs) /\ y.prog = Adding(x.add)
      BY <1>3, <1>5, <1>6, <1>9, <1>11 DEF ProgFacts, TxOK
    <2>2. NextKind(y) # "remove"
      BY <2>1, AddingProg, StatementFields DEF NextKind
    <2>3. Deleted(t)' = Deleted(t)
      BY <1>3, <1>4, <1>7, <1>11 DEF Deleted
    <2>4. Cardinality(Deleted(t)) = Cardinality(x.rm)
      BY <1>5, <1>8, <1>9, <1>11, <2>1 DEF RemovedBy
    <2>. QED
      BY <1>5, <1>6, <2>1, <2>2, <2>3, <2>4 DEF RemovedBy
  <1>12. CASE st.kind = "clear"
    <2>1. y.pc # "edit"
      BY <1>3, <1>5, <1>6, <1>12 DEF ProgFacts
    <2>. QED
      BY <1>5, <2>1 DEF RemovedBy
  <1>. QED
    BY <1>8, <1>10, <1>11, <1>12

\* UPDATE and DELETE keep Exact.
LEMMA ExecuteExact ==
    ASSUME ListInv, Exact, NEW t \in Txs, Execute(t)
    PROVE  Exact'
  <1>1. PICK st, f : st = Head(tx[t].prog) /\ f = tx[t].snap
    OBVIOUS
  <1>2. PICK A, N : A = Affected(t, st, f) /\ N = NewRows(t, st, f)
    OBVIOUS
  <1>3. PICK v, w, s, x, y : /\ v = View(t) /\ w = Written(View(t), A, N) /\ s = AsList
                             /\ x = tx[t] /\ y = tx'[t]
    OBVIOUS
  <1>4. /\ Writes(t, A, N) /\ x.prog # <<>> /\ x.taken
        /\ ProgFacts(t, x, st, Tail(x.prog))
    BY <1>1, <1>2, <1>3, ExecuteWrites
  <1>5. /\ y.pc = x.pc /\ y.rm = x.rm /\ y.add = x.add
        /\ y.prog = Tail(x.prog) /\ y.taken = FALSE
    <2>1. tx[t].taken /\ Advance(t)
      BY <1>4 DEF Writes
    <2>. QED
      BY <1>3, <2>1, Advanced
  <1>6. TxOK(t, x) /\ com \in Views /\ v \in Views /\ (settled => Segment(com))
    BY <1>3, ViewType DEF ListInv, Transactions, TypeOK, Views, Numbers
  <1>7. settled => s \in Seq(Songs)
    BY <1>3, <1>6, SegmentShows, AsListOf DEF ShowsAll, Shows
  <1>8. ASSUME t \in Clients, settled
        PROVE  EditStage(w, s, y)
    <2>1. EditStage(v, s, x)
      BY <1>3, <1>4, <1>8, ClientWorks DEF Exact, Edited
    <2>2. ClientWrites(v, w, st, x, y.prog)
      BY <1>1, <1>2, <1>3, <1>5, <1>8, ClientRows
    <2>. QED
      BY <1>1, <1>3, <1>4, <1>5, <1>6, <1>7, <1>8, <2>1, <2>2, NextEditStage
  <1>9. ASSUME t = Scan, settled, x.alone
        PROVE  ScanStage(w, s, y)
    <2>1. x.pc = "scan"
      BY <1>4, <1>6, <1>9 DEF TxOK, ProgOK
    <2>2. ScanStage(v, s, x)
      BY <1>3, <1>9, <2>1 DEF Exact, Purged
    <2>3. ScanWrites(v, w, st, f)
      BY <1>1, <1>2, <1>3, <1>9, ScanRows
    <2>. QED
      BY <1>1, <1>3, <1>4, <1>5, <1>6, <1>9, <2>2, <2>3, NextScanStage
  <1>. QED
    BY <1>3, <1>4, <1>8, <1>9, ExecuteRemoves, WriteExact

\* So does INSERT.
LEMMA InsertExact ==
    ASSUME ListInv, Exact, NEW t \in Txs, Insert(t)
    PROVE  Exact'
  <1>1. PICK add, F, m : add = tx[t].add /\ F = FreeIds /\ m = tx[t].snap[1]
    OBVIOUS
  <1>2. PICK A, N : A = NewIds(F, Len(add)) /\ N = Inserted(F, add, m)
    OBVIOUS
  <1>3. PICK v, w, s, x, y : /\ v = View(t) /\ w = Written(View(t), A, N) /\ s = AsList
                             /\ x = tx[t] /\ y = tx'[t]
    OBVIOUS
  <1>4. /\ Writes(t, A, N) /\ t \in Clients
        /\ x.prog # <<>> /\ Head(x.prog).kind = "add" /\ Tail(x.prog) = <<>>
        /\ add \in Seq(Songs)
        /\ F \in SUBSET Ids /\ Len(add) <= Cardinality(F)
        /\ \A i \in F : com[i] = NoRow /\ lock[i] = NoTx
    BY <1>1, <1>2, <1>3, InsertWrites
  <1>5. y.pc = x.pc /\ y.rm = x.rm /\ y.add = x.add /\ y.prog = <<>>
    <2>1. tx[t].taken /\ Advance(t)
      BY <1>4 DEF Writes
    <2>. QED
      BY <1>3, <1>4, <2>1, Advanced
  <1>6. com \in Views /\ (settled => Segment(com))
    BY DEF ListInv, TypeOK, Views, Numbers
  <1>7. settled => s \in Seq(Songs)
    BY <1>3, <1>6, SegmentShows, AsListOf DEF ShowsAll, Shows
  <1>8. NextKind(x) = "add" /\ NextKind(y) = "end"
    BY <1>4, <1>5 DEF NextKind
  <1>9. ASSUME settled
        PROVE  EditStage(w, s, y)
    <2>1. AddsRows(v, w, F, add, m)
      BY <1>1, <1>2, <1>3, <1>9, InsertedRows
    <2>2. Lengthened(v, w, F, Len(x.add), m)
      BY <1>1, <1>3, <1>4, <2>1 DEF Lengthened, AddsRows
    <2>3. \A i \in F : PlaceIn(F, i) <= Len(x.add) =>
             w[i].song = x.add[PlaceIn(F, i)] /\ PlaceIn(F, i) \in 1 .. Len(x.add)
      BY <1>1, <1>3, <1>4, <2>1 DEF AddsRows
    <2>4. EditStage(v, s, x)
      BY <1>3, <1>4, <1>9, ClientWorks DEF Exact, Edited
    <2>5. x.add \in Seq(Songs) /\ s \in Seq(Songs)
      BY <1>1, <1>3, <1>4, <1>7, <1>9
    <2>. QED
      BY <1>4, <1>5, <1>8, <2>2, <2>3, <2>4, <2>5, LastEditStage
  <1>10. RemovedBy(t)'
    <2>1. /\ cur' = [i \in Ids |-> IF i \in A THEN N[i] ELSE cur[i]]
          /\ lock' = [i \in Ids |-> IF i \in A THEN t ELSE lock[i]]
          /\ com' = com
      BY <1>4 DEF Writes
    <2>2. \A i \in A : com[i] = NoRow
      BY <1>2, <1>4 DEF NewIds
    <2>3. Deleted(t)' = Deleted(t)
      BY <2>1, <2>2 DEF Deleted
    <2>4. RemovedBy(t)
      BY <1>4 DEF Exact, Removed
    <2>. QED
      BY <1>3, <1>5, <1>8, <2>3, <2>4 DEF RemovedBy
  <1>11. t # Scan
    BY <1>4, Names
  <1>. QED
    BY <1>3, <1>4, <1>9, <1>10, <1>11, WriteExact

\* The end of a transaction leaves the programs of the others and what they have deleted.
LEMMA EndExact ==
    ASSUME ListInv, Exact, NEW t \in Txs, End(t),
           \A i \in Ids : lock[i] # t => cur'[i] = cur[i] /\ com'[i] = com[i]
    PROVE  Asked' /\ Removed'
  <1>1. /\ tx'[t] = Idle
        /\ \A u \in Txs \ {t} : tx'[u] = tx[u]
        /\ \A i \in Ids : lock'[i] = IF lock[i] = t THEN NoTx ELSE lock[i]
    BY Ended
  <1>2. ASSUME NEW c \in Clients PROVE FullProg(tx'[c]) /\ RemovedBy(c)'
    <2>1. CASE c = t
      <3>1. tx'[c].pc = "idle"
        BY <1>1, <2>1, IdleFields
      <3>. QED
        BY <3>1 DEF FullProg, RemovedBy
    <2>2. CASE c # t
      <3>1. tx'[c] = tx[c] /\ c # NoTx
        BY <1>1, <2>2, Names
      <3>2. Untouched(c) /\ SameProgram(tx[c], tx'[c])
        BY <1>1, <2>2, <3>1 DEF Untouched, SameProgram
      <3>. QED
        BY <3>1, <3>2, OthersKeep DEF Exact, Asked, Removed
    <2>. QED
      BY <2>1, <2>2
  <1>. QED
    BY <1>2 DEF Asked, Removed

\* A rollback keeps Exact.
LEMMA RollbackExact ==
    ASSUME ListInv, Exact, NEW t \in Txs, Rollback(t)
    PROVE  Exact'
  <1>1. End(t) /\ UNCHANGED <<com, settled>>
    BY DEF Rollback
  <1>2. /\ tx'[t] = Idle
        /\ \A u \in Txs \ {t} : tx'[u] = tx[u]
        /\ \A i \in Ids : lock'[i] = IF lock[i] = t THEN NoTx ELSE lock[i]
        /\ \A c \in Clients : owner' = c <=> owner = c /\ c # t
    BY <1>1, Ended
  <1>3. \A i \in Ids : cur'[i] = IF lock[i] = t THEN com[i] ELSE cur[i]
    BY DEF Rollback
  <1>4. ASSUME NEW u \in Txs \ {t} PROVE View(u)' = View(u)
    <2>1. u # t /\ u # NoTx
      BY Names
    <2>. QED
      BY <1>1, <1>2, <1>3, <2>1 DEF View, Sees
  <1>5. AsList' = AsList
    BY <1>1, AsListOf
  <1>6. Asked' /\ Removed'
    BY <1>1, <1>3, EndExact
  <1>7. Edited'
    <2>. SUFFICES ASSUME NEW c \in Clients, settled', owner' = c
                  PROVE  EditStage(View(c)', AsList', tx'[c])
      BY DEF Edited
    <2>1. owner = c /\ c \in Txs \ {t} /\ tx'[c] = tx[c]
      BY <1>2, Names
    <2>2. EditStage(View(c), AsList, tx[c])
      BY <1>1, <2>1 DEF Exact, Edited
    <2>. QED
      BY <1>4, <1>5, <2>1, <2>2
  <1>8. Purged'
    <2>. SUFFICES ASSUME settled', tx'[Scan].pc = "scan", tx'[Scan].alone
                  PROVE  ScanStage(View(Scan)', AsList', tx'[Scan])
      BY DEF Purged
    <2>1. Scan \in Txs \ {t} /\ tx'[Scan] = tx[Scan]
      BY <1>2, Names, IdleFields
    <2>2. ScanStage(View(Scan), AsList, tx[Scan])
      BY <1>1, <2>1 DEF Exact, Purged
    <2>. QED
      BY <1>4, <1>5, <2>1, <2>2
  <1>. QED
    BY <1>6, <1>7, <1>8 DEF Exact

\* A commit too: whoever has a stage afterwards is at its first one, or the commit has
\* changed nothing.
LEMMA CommitExact ==
    ASSUME ListInv, Exact, NEW t \in Txs, Commit(t)
    PROVE  Exact'
  <1>1. End(t) /\ tx[t].pc \notin {"idle", "found"} /\ tx[t].prog = <<>>
    BY DEF Commit
  <1>2. /\ tx'[t] = Idle
        /\ \A u \in Txs \ {t} : tx'[u] = tx[u]
        /\ \A c \in Clients : owner' = c <=> owner = c /\ c # t
    BY <1>1, Ended
  <1>3. /\ com' = View(t)
        /\ IF t = Scan THEN tx[t].pc = "scan" /\ tx[t].busy ELSE t \in Clients /\ owner = t
        /\ \A u \in Txs \ {t} : ~tx[t].busy => View(u)' = View(u) /\ com' = com
        /\ \A u \in Txs \ {t} : ~tx[u].busy => View(u)' = com'
        /\ t = Scan /\ settled' => \A c \in Clients : ~tx[c].busy
    BY CommitViews
  <1>4. ListInv'
    BY CommitKeeps
  <1>5. PICK v : v = com'
    OBVIOUS
  <1>6. v \in Views /\ (settled' => Segment(v))
    BY <1>4, <1>5 DEF ListInv, TypeOK, Views, Numbers
  <1>7. AsList' = ListOf(v)
    BY <1>5, AsListOf
  <1>8. Asked' /\ Removed'
    <2>1. \A i \in Ids : lock[i] # t => cur'[i] = cur[i] /\ com'[i] = com[i]
      BY DEF Commit
    <2>. QED
      BY <1>1, <2>1, EndExact
  <1>9. Edited'
    <2>. SUFFICES ASSUME NEW c \in Clients, settled', owner' = c
                  PROVE  EditStage(View(c)', AsList', tx'[c])
      BY DEF Edited
    <2>1. owner = c /\ c \in Txs \ {t} /\ tx'[c] = tx[c]
      BY <1>2, Names
    <2>2. t = Scan /\ ~tx[c].busy
      BY <1>3, <2>1
    <2>3. PICK x : x = tx[c] /\ TxOK(c, x) /\ FullProg(x) /\ ~x.busy
      BY <2>1, <2>2 DEF ListInv, Transactions, Exact, Asked
    <2>4. EditStage(v, ListOf(v), x)
      BY <1>6, <2>3, FirstStage
    <2>. QED
      BY <1>3, <1>5, <1>7, <2>1, <2>2, <2>3, <2>4
  <1>10. Purged'
    <2>. SUFFICES ASSUME settled', tx'[Scan].pc = "scan", tx'[Scan].alone
                  PROVE  ScanStage(View(Scan)', AsList', tx'[Scan])
      BY DEF Purged
    <2>1. Scan \in Txs \ {t} /\ tx'[Scan] = tx[Scan] /\ t \in Clients
      BY <1>2, Names, IdleFields
    <2>2. settled
      BY <2>1 DEF Commit
    <2>3. TxOK(Scan, tx[Scan])
      BY <2>1 DEF ListInv, Transactions
    <2>4. CASE tx[Scan].busy
      <3>1. ~tx[t].busy
        BY <2>1, <2>4 DEF ListInv, Apart
      <3>2. View(Scan)' = View(Scan) /\ com' = com
        BY <1>3, <2>1, <3>1
      <3>3. AsList' = AsList
        BY <3>2, AsListOf
      <3>4. ScanStage(View(Scan), AsList, tx[Scan])
        BY <2>1, <2>2 DEF Exact, Purged
      <3>. QED
        BY <2>1, <3>2, <3>3, <3>4
    <2>5. CASE ~tx[Scan].busy
      <3>1. PICK x : x = tx[Scan]
        OBVIOUS
      <3>2. x.prog # <<>> /\ ~x.taken
        BY <2>1, <2>3, <2>5, <3>1, DoneScanIsBusy DEF TxOK, SnapOK
      <3>3. ScanStage(v, ListOf(v), x)
        BY <1>6, <3>2, FirstScanStage
      <3>. QED
        BY <1>3, <1>5, <1>7, <2>1, <2>5, <3>1, <3>3
    <2>. QED
      BY <2>4, <2>5
  <1>. QED
    BY <1>8, <1>9, <1>10 DEF Exact

\* Initially no transaction has begun.
LEMMA ExactInit ==
    Init => Exact
  <1>. SUFFICES ASSUME Init PROVE Exact
    OBVIOUS
  <1>1. owner = NoTx /\ \A t \in Txs : tx[t].pc = "idle"
    BY IdleFields DEF Init
  <1>. QED
    BY <1>1, Names DEF Exact, Asked, FullProg, Removed, RemovedBy, Edited, Purged

\* A step that changes nothing keeps Exact.
LEMMA StutterExact ==
    ASSUME Exact, UNCHANGED vars
    PROVE  Exact'
  <1>1. UNCHANGED <<com, cur, lock, owner, tx, settled>>
    BY DEF vars
  <1>2. (\A u : View(u)' = View(u)) /\ AsList' = AsList
    BY <1>1, SameViews, AsListOf DEF table
  <1>3. \A c : Deleted(c)' = Deleted(c)
    BY <1>1 DEF Deleted
  <1>4. Asked' /\ Removed'
    BY <1>1, <1>3 DEF Exact, Asked, Removed, RemovedBy
  <1>5. Edited' /\ Purged'
    BY <1>1, <1>2 DEF Exact, Edited, Purged
  <1>. QED
    BY <1>4, <1>5 DEF Exact

(* A client that edits has deleted exactly as many rows as it named; in a      *)
(* settled playlist its view is, after each of its statements, the committed   *)
(* list without the songs of these indices, renumbered, and with its additions *)
(* at the end; and the view of a scan that is alone is that list without songs *)
(* that are gone.                                                              *)
THEOREM ExactInvariant ==
    Spec => []Exact
  <1>1. ListInv /\ Exact /\ [Next]_vars => Exact'
    <2>. SUFFICES ASSUME ListInv, Exact, [Next]_vars PROVE Exact'
      OBVIOUS
    <2>0. Asked /\ \A c \in Clients : c \in Txs
      BY Names DEF Exact
    <2>1. ASSUME NEW c \in Clients, NEW rm \in Removals, NEW add \in Adds,
                 FindForUpdate(c, rm, add)
          PROVE  Exact'
      <3>1. PICK x : Begins(c, x) /\ FullProg(x)
        BY <2>0, <2>1, FindBegins
      <3>. QED
        BY <2>0, <3>1, BeginExact
    <2>2. ASSUME NEW c \in Clients, Touch(c) PROVE Exact'
      <3>1. PICK x : Begins(c, x) /\ FullProg(x)
        BY <2>0, <2>2, TouchBegins
      <3>. QED
        BY <2>0, <3>1, BeginExact
    <2>3. ASSUME NEW c \in Clients, NEW add \in Adds, ReplaceTracks(c, add) PROVE Exact'
      <3>1. PICK x : Begins(c, x) /\ FullProg(x)
        BY <2>0, <2>3, ReplaceBegins
      <3>. QED
        BY <2>0, <3>1, BeginExact
    <2>4. ASSUME NEW c \in Clients, Delete(c) PROVE Exact'
      <3>1. PICK x : Begins(c, x) /\ FullProg(x)
        BY <2>0, <2>4, DeleteBegins
      <3>. QED
        BY <2>0, <3>1, BeginExact
    <2>5. ASSUME NEW gone \in Purges, NEW hidden \in Purges, StartScan(gone, hidden)
          PROVE  Exact'
      <3>1. PICK x : Begins(Scan, x)
        BY <2>5, StartScanBegins
      <3>2. FullProg(x)
        BY <3>1, Names DEF Begins, TxOK, FullProg
      <3>. QED
        BY <3>1, <3>2, BeginExact, Names
    <2>6. ASSUME NEW t \in Txs, TakeSnapshot(t) PROVE Exact'
      BY <2>6, TakeExact
    <2>7. ASSUME NEW t \in Txs, Execute(t) PROVE Exact'
      BY <2>7, ExecuteExact
    <2>8. ASSUME NEW t \in Txs, Insert(t) PROVE Exact'
      BY <2>8, InsertExact
    <2>9. ASSUME NEW t \in Txs, Commit(t) PROVE Exact'
      BY <2>9, CommitExact
    <2>10. ASSUME NEW t \in Txs, Rollback(t) PROVE Exact'
      BY <2>10, RollbackExact
    <2>11. CASE UNCHANGED vars
      BY <2>11, StutterExact
    <2>. QED
      BY <2>1, <2>2, <2>3, <2>4, <2>5, <2>6, <2>7, <2>8, <2>9, <2>10, <2>11 DEF Next
  <1>. QED
    BY <1>1, ExactInit, ListInvInvariant, PTL DEF Spec

-----------------------------------------------------------------------------
(* What a commit does to the list.  *)

\* Only commits change what others see.
LEMMA OnlyCommits ==
    ASSUME [Next]_vars
    PROVE  UNCHANGED <<com, exists, settled>> \/ \E t \in Txs : Commit(t)
  <1>1. ASSUME NEW c \in Clients, NEW rm \in Removals, NEW add \in Adds, FindForUpdate(c, rm, add)
        PROVE  UNCHANGED <<com, exists, settled>>
    BY <1>1 DEF FindForUpdate, table
  <1>2. ASSUME NEW c \in Clients, Touch(c) PROVE UNCHANGED <<com, exists, settled>>
    BY <1>2 DEF Touch, table
  <1>3. ASSUME NEW c \in Clients, NEW add \in Adds, ReplaceTracks(c, add)
        PROVE  UNCHANGED <<com, exists, settled>>
    BY <1>3 DEF ReplaceTracks, table
  <1>4. ASSUME NEW c \in Clients, Delete(c) PROVE UNCHANGED <<com, exists, settled>>
    BY <1>4 DEF Delete, table
  <1>5. ASSUME NEW gone \in Purges, NEW hidden \in Purges, StartScan(gone, hidden)
        PROVE  UNCHANGED <<com, exists, settled>>
    BY <1>5 DEF StartScan, table
  <1>6. ASSUME NEW t \in Txs, TakeSnapshot(t) PROVE UNCHANGED <<com, exists, settled>>
    BY <1>6 DEF TakeSnapshot, table
  <1>7. ASSUME NEW t \in Txs, Execute(t) \/ Insert(t) PROVE UNCHANGED <<com, exists, settled>>
    BY <1>7 DEF Execute, Insert
  <1>8. ASSUME NEW t \in Txs, Rollback(t) PROVE UNCHANGED <<com, exists, settled>>
    BY <1>8 DEF Rollback
  <1>9. CASE UNCHANGED vars
    BY <1>9 DEF vars
  <1>. QED
    BY <1>1, <1>2, <1>3, <1>4, <1>5, <1>6, <1>7, <1>8, <1>9 DEF Next

\* A settled playlist is a list.
LEMMA ListType ==
    ASSUME ListInv
    PROVE  settled => AsList \in Seq(Songs)
  <1>1. com \in Views /\ (settled => Segment(com))
    BY DEF ListInv, TypeOK, Views, Numbers
  <1>. QED
    BY <1>1, SegmentShows, AsListOf DEF ShowsAll, Shows

\* updatePlaylist: the rows are gone that the client named, and the list is the one it
\* asked for.
LEMMA CommittedEdit ==
    ASSUME ListInv, Exact, NEW c \in Clients, Commit(c), tx[c].pc = "edit"
    PROVE  /\ Cardinality({i \in Committed : com'[i] = NoRow}) = Cardinality(tx[c].rm)
           /\ tx[c].add \in Adds
           /\ settled => /\ tx[c].rm \subseteq List!Indices(AsList)
                         /\ AsList' = List!Without(AsList, tx[c].rm) \o tx[c].add
  <1>1. c \in Txs /\ c # Scan
    BY Names
  <1>2. /\ tx[c].prog = <<>>
        /\ \A i \in Ids : com'[i] = IF lock[i] = c THEN cur[i] ELSE com[i]
    BY DEF Commit
  <1>3. com' = View(c) /\ owner = c
    BY <1>1, CommitViews
  <1>4. NextKind(tx[c]) = "end" /\ Appended(tx[c]) = tx[c].add
    BY <1>2 DEF NextKind, Appended
  <1>5. {i \in Committed : com'[i] = NoRow} = Deleted(c)
    BY <1>2 DEF Committed, Deleted
  <1>6. Cardinality(Deleted(c)) = Cardinality(tx[c].rm)
    BY <1>4 DEF Exact, Removed, RemovedBy
  <1>7. tx[c].add \in Adds
    BY DEF Exact, Asked, FullProg
  <1>8. ASSUME settled
        PROVE  /\ tx[c].rm \subseteq List!Indices(AsList)
               /\ AsList' = List!Without(AsList, tx[c].rm) \o tx[c].add
    <2>1. PICK v, s, x : v = View(c) /\ s = AsList /\ x = tx[c]
      OBVIOUS
    <2>2. EditStage(v, s, x)
      BY <1>3, <1>8, <2>1 DEF Exact, Edited
    <2>3. x.rm \subseteq List!Indices(s) /\ ShowsAll(v, List!Without(s, x.rm) \o x.add)
      BY <1>4, <2>1, <2>2 DEF EditStage
    <2>4. ListOf(v) = List!Without(s, x.rm) \o x.add
      BY <2>3, ReadsAs
    <2>. QED
      BY <1>3, <2>1, <2>3, <2>4, AsListOf
  <1>. QED
    BY <1>5, <1>6, <1>7, <1>8

\* createPlaylist with the id of the playlist: the list is the one the client sent.
LEMMA CommittedReplacement ==
    ASSUME ListInv, Exact, NEW c \in Clients, Commit(c), tx[c].pc = "replace", settled
    PROVE  AsList' \in Adds
  <1>1. c \in Txs /\ c # Scan
    BY Names
  <1>2. tx[c].prog = <<>>
    BY DEF Commit
  <1>3. com' = View(c) /\ owner = c
    BY <1>1, CommitViews
  <1>4. NextKind(tx[c]) = "end" /\ Appended(tx[c]) = tx[c].add
    BY <1>2 DEF NextKind, Appended
  <1>5. tx[c].add \in Adds
    BY DEF Exact, Asked, FullProg
  <1>6. PICK v, s, x : v = View(c) /\ s = AsList /\ x = tx[c]
    OBVIOUS
  <1>7. EditStage(v, s, x)
    BY <1>3, <1>6 DEF Exact, Edited
  <1>8. ShowsAll(v, x.add)
    BY <1>4, <1>6, <1>7 DEF EditStage
  <1>9. ListOf(v) = x.add
    BY <1>8, ReadsAs
  <1>. QED
    BY <1>3, <1>5, <1>6, <1>9, AsListOf

\* A scan that is alone has taken the songs out that are gone, and nothing else.
LEMMA CommittedPurge ==
    ASSUME ListInv, Exact, Commit(Scan), tx[Scan].alone, settled
    PROVE  \E S \in SUBSET Songs : AsList' = List!Kept(AsList, Spared(AsList, S))
  <1>1. tx[Scan].prog = <<>>
    BY DEF Commit
  <1>2. com' = View(Scan) /\ tx[Scan].pc = "scan"
    BY CommitViews, Names
  <1>3. PICK v, s : v = View(Scan) /\ s = AsList
    OBVIOUS
  <1>4. ScanStage(v, s, tx[Scan])
    BY <1>2, <1>3 DEF Exact, Purged
  <1>5. PICK S \in SUBSET Songs : ShowsAll(v, List!Kept(s, Spared(s, S)))
    BY <1>1, <1>4 DEF ScanStage
  <1>6. ListOf(v) = List!Kept(s, Spared(s, S))
    BY <1>5, ReadsAs
  <1>. QED
    BY <1>2, <1>3, <1>6, AsListOf

(* An edit that commits has removed exactly as many songs as the client named, *)
(* whatever scans and other clients did before it had its locks; in a settled  *)
(* playlist it has removed the very songs of these indices and appended the    *)
(* ones it sent, for lists of any length (EditsExactly).                       *)
THEOREM EditsExactlyHolds ==
    Spec => EditsExactly
  <1>1. ASSUME ListInv, Exact, [Next]_vars, NEW c \in Clients, CommitsEdit(c)
        PROVE  /\ Cardinality({i \in Committed : com'[i] = NoRow}) = Cardinality(tx[c].rm)
               /\ settled => AsList' = List!Without(AsList, tx[c].rm) \o tx[c].add
    <2>1. tx[c].pc = "edit" /\ com' # com /\ tx'[c] = Idle
      BY <1>1 DEF CommitsEdit
    <2>2. PICK t \in Txs : Commit(t)
      BY <1>1, <2>1, OnlyCommits
    <2>3. t = c
      <3>1. \A u \in Txs \ {t} : tx'[u] = tx[u]
        BY <1>1, <2>2, Ended DEF Commit
      <3>. QED
        BY <2>1, <3>1, IdleFields, Names
    <2>. QED
      BY <1>1, <2>1, <2>2, <2>3, CommittedEdit
  <1>2. ListInv /\ Exact /\ [Next]_vars =>
          [\A c \in Clients : CommitsEdit(c) =>
              /\ Cardinality({i \in Committed : com'[i] = NoRow}) = Cardinality(tx[c].rm)
              /\ settled => AsList' = List!Without(AsList, tx[c].rm) \o tx[c].add]_vars
    BY <1>1
  <1>. QED
    BY <1>2, ListInvInvariant, ExactInvariant, PTL DEF Spec, EditsExactly

-----------------------------------------------------------------------------
(* The table implements a list.  *)

\* A commit is one step of the list, or the list does not see it.
LEMMA CommitImplements ==
    ASSUME ListInv, Exact, NEW t \in Txs, Commit(t)
    PROVE  List!Next \/ UNCHANGED List!vars
  <1>. DEFINE l == IF Status = "list" THEN AsList ELSE <<>>
  <1>1. /\ exists \in BOOLEAN /\ settled \in BOOLEAN
        /\ exists' = (exists /\ tx[t].pc # "drop")
        /\ settled' = IF t = Scan THEN tx[t].alone ELSE settled
        /\ tx[t].pc \notin {"idle", "found"}
    BY DEF Commit, ListInv, TypeOK
  <1>2. TxOK(t, tx[t]) /\ tx[t].alone \in BOOLEAN
    BY DEF ListInv, Transactions, TxOK
  <1>3. ListInv'
    BY CommitKeeps
  <1>4. settled' => AsList' \in Seq(Songs)
    <2>1. com' \in Views /\ (settled' => Segment(com'))
      BY <1>3 DEF ListInv, TypeOK, Views, Numbers
    <2>. QED
      BY <2>1, SegmentShows, AsListOf DEF ShowsAll, Shows
  <1>5. CASE ~exists
    <2>1. Status = "dropped" /\ Status' = "dropped"
      BY <1>1, <1>5 DEF Status
    <2>. QED
      BY <2>1 DEF List!vars
  <1>6. CASE exists /\ t \in Clients /\ tx[t].pc = "drop"
    <2>1. Status # "dropped" /\ Status' = "dropped"
      BY <1>1, <1>6 DEF Status
    <2>. QED
      BY <2>1 DEF List!Next, List!Drop
  <1>7. CASE exists /\ t \in Clients /\ tx[t].pc # "drop" /\ ~settled
    <2>1. Status = "unsettled" /\ Status' = "unsettled"
      BY <1>1, <1>7, Names DEF Status
    <2>. QED
      BY <2>1 DEF List!vars
  <1>8. CASE exists /\ t \in Clients /\ tx[t].pc # "drop" /\ settled
    <2>1. Status = "list" /\ Status' = "list"
      BY <1>1, <1>8, Names DEF Status
    <2>2. l = AsList /\ l' = AsList'
      BY <2>1
    <2>3. tx[t].pc \in {"edit", "replace"}
      BY <1>1, <1>2, <1>8, Names DEF TxOK
    <2>4. CASE tx[t].pc = "edit"
      <3>1. PICK P \in SUBSET List!Indices(l), add \in Adds : l' = List!Without(l, P) \o add
        BY <1>8, <2>2, <2>4, CommittedEdit
      <3>2. List!Edit(P, add)
        BY <3>1 DEF List!Edit
      <3>. QED
        BY <2>1, <3>2 DEF List!Next, List!Change
    <2>5. CASE tx[t].pc = "replace"
      <3>1. PICK add \in Adds : l' = add
        BY <1>8, <2>2, <2>5, CommittedReplacement
      <3>2. List!Replace(add)
        BY <3>1 DEF List!Replace
      <3>. QED
        BY <2>1, <3>2 DEF List!Next, List!Change
    <2>. QED
      BY <2>3, <2>4, <2>5
  <1>9. CASE exists /\ t = Scan
    <2>1. tx[t].pc = "scan"
      BY <1>1, <1>2, <1>9 DEF TxOK
    <2>2. exists' /\ settled' = tx[t].alone
      BY <1>1, <1>9, <2>1
    <2>3. CASE settled /\ tx[t].alone
      <3>1. Status = "list" /\ Status' = "list"
        BY <1>9, <2>2, <2>3 DEF Status
      <3>2. l = AsList /\ l' = AsList'
        BY <3>1
      <3>3. PICK S \in SUBSET Songs : l' = List!Kept(l, Spared(l, S))
        BY <1>9, <2>3, <3>2, CommittedPurge
      <3>4. List!Purge(S)
        BY <3>3 DEF List!Purge, Spared
      <3>. QED
        BY <3>1, <3>4 DEF List!Next, List!Change
    <2>4. CASE settled /\ ~tx[t].alone
      <3>1. Status = "list" /\ Status' = "unsettled"
        BY <1>9, <2>2, <2>4 DEF Status
      <3>. QED
        BY <3>1 DEF List!Next, List!Unsettle
    <2>5. CASE ~settled /\ tx[t].alone
      <3>1. Status = "unsettled" /\ Status' = "list"
        BY <1>9, <2>2, <2>5 DEF Status
      <3>2. AsList' \in Seq(Songs)
        BY <1>4, <2>2, <2>5
      <3>. QED
        BY <3>1, <3>2 DEF List!Next, List!Settle
    <2>6. CASE ~settled /\ ~tx[t].alone
      <3>1. Status = "unsettled" /\ Status' = "unsettled"
        BY <1>9, <2>2, <2>6 DEF Status
      <3>. QED
        BY <3>1 DEF List!vars
    <2>. QED
      BY <1>1, <1>2, <2>3, <2>4, <2>5, <2>6
  <1>. QED
    BY <1>1, <1>5, <1>6, <1>7, <1>8, <1>9, Names

(* While scans and edits do not overlap, the table implements a list of any    *)
(* length that one edit at a time changes: each commit is one step of          *)
(* PlaylistList, and no other step of a transaction can be seen                *)
(* (ImplementsList).                                                           *)
THEOREM ImplementsListHolds ==
    Spec => ImplementsList
  <1>1. Init => List!Init
    <2>. SUFFICES ASSUME Init PROVE List!Init
      OBVIOUS
    <2>1. Status = "list"
      BY DEF Init, Status
    <2>2. AsList \in Seq(Songs)
      BY ListInit, ListType DEF Init
    <2>. QED
      BY <2>1, <2>2 DEF List!Init
  <1>2. ListInv /\ Exact /\ [Next]_vars => [List!Next]_(List!vars)
    <2>. SUFFICES ASSUME ListInv, Exact, [Next]_vars
                  PROVE  List!Next \/ UNCHANGED List!vars
      OBVIOUS
    <2>1. CASE UNCHANGED <<com, exists, settled>>
      <3>1. Status' = Status /\ AsList' = AsList
        BY <2>1, AsListOf DEF Status
      <3>. QED
        BY <3>1 DEF List!vars
    <2>2. CASE \E t \in Txs : Commit(t)
      BY <2>2, CommitImplements
    <2>. QED
      BY <2>1, <2>2, OnlyCommits
  <1>. QED
    BY <1>1, <1>2, ListInvInvariant, ExactInvariant, PTL DEF Spec, ImplementsList, List!Spec
=============================================================================
