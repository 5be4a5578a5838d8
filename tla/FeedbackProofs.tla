---------------------------- MODULE FeedbackProofs ----------------------------
(***************************************************************************)
(* For any songs, recordings, clients and requests: the types of the       *)
(* variables of Feedback, and LocalWins, that a synchronisation with       *)
(* ListenBrainz never overwrites a star that has not been uploaded.        *)
(*                                                                         *)
(* lb_feedback_status.uploaded is what the code goes by; FlagExplained     *)
(* says what it means: a song it calls uploaded has been posted, unless    *)
(* the flag was set for an older change of the song (masked).  A round     *)
(* reads what it will change (SyncFindOutdated) long before it changes it  *)
(* (SyncApply); Pulled says what is known of those songs in between.       *)
(***************************************************************************)
EXTENDS Feedback, TLAPS

Statuses == {"unknown", "no", "yes"}

\* A song marked as uploaded has been posted or is masked; one of which nothing is known
\* is not an unstarred one still to be posted.
FlagExplained ==
    \A s \in pending : /\ status[s] = "yes" => s \in masked
                       /\ status[s] = "unknown" => s \in star

\* What a job has posted successfully is not pending unless it was changed since.
GoodPosted ==
    \A p \in Procs : \A s \in job[p].good : s \in pending => s \in job[p].late

\* What the round will change or mark has been posted, or is masked, unless a client or a
\* new connection came in between.
Pulled ==
    sync.pc \in {"upload", "apply"} =>
        \A s \in sync.pull : s \in pending => s \in edited \/ s \in masked

FeedbackInv == TypeOK /\ FlagExplained /\ GoodPosted /\ Pulled

-----------------------------------------------------------------------------
(* The types, by groups of variables.  *)

Jobs == [pc : {"idle", "lookup", "post"}, fb : SUBSET (Song \X BOOLEAN),
         todo : SUBSET (Recording \X BOOLEAN), good : SUBSET Song, late : SUBSET Song]

Syncs == [pc : {"idle", "match", "push", "pull", "upload", "apply"},
          loved : SUBSET Recording, unstar : SUBSET Song, pull : SUBSET Song,
          stars : SUBSET Song]

OnePerRecording(S) == \A s, t \in S : s # t => Mbid[s] # Mbid[t] \/ Mbid[s] = "none"

\* The parts of TypeOK.
LEMMA TypeParts ==
    TypeOK <=>
        /\ star \subseteq Song
        /\ status \in [Song -> Statuses]
        /\ remote \in [Song -> Recording \cup {"none"}]
        /\ loves \subseteq Recording
        /\ con \in BOOLEAN
        /\ job \in [Procs -> Jobs]
        /\ sync \in Syncs
        /\ sync.stars \subseteq sync.pull /\ sync.unstar \subseteq sync.pull
        /\ OnePerRecording(sync.stars)
        /\ edited \subseteq Song
        /\ pending \subseteq Song /\ masked \subseteq pending
        /\ edits \in 0 .. MaxEdits /\ mishaps \in 0 .. MaxMishaps
  BY DEF TypeOK, Statuses, Jobs, Syncs, OnePerRecording

\* A recording, if the song has one.
LEMMA IdOfType ==
    ASSUME NEW s \in Song
    PROVE  /\ Mbid[s] \in Recording \cup {"none"}
           /\ IdOf(s) \in Recording \cup {"none"}
  BY DEF Recording, IdOf

\* Requests to UpdateSongFeedback are created well formed.
LEMMA JobTypes ==
    /\ NoJob \in Jobs
    /\ \A fb \in SUBSET (Song \X BOOLEAN) : NewJob(fb) \in Jobs
  BY DEF NoJob, NewJob, Jobs

\* A round that has not begun is well formed and has nothing to change.
LEMMA SyncTypes ==
    NoSync \in Syncs /\ NoSync.stars = {} /\ NoSync.unstar = {} /\ NoSync.pc = "idle"
  BY DEF NoSync, Syncs

\* SetUploaded writes a status.
LEMMA StatusType ==
    ASSUME status \in [Song -> Statuses], NEW ss, NEW to \in Statuses, SetUploaded(ss, to)
    PROVE  /\ status' \in [Song -> Statuses]
           /\ \A s \in Song : status'[s] = IF s \in ss THEN to ELSE status[s]
  BY DEF SetUploaded

\* A failed request or change is counted.
LEMMA MishapType ==
    ASSUME mishaps \in 0 .. MaxMishaps, Mishap
    PROVE  mishaps' \in 0 .. MaxMishaps
  BY FeedbackAssumption DEF Mishap

-----------------------------------------------------------------------------
\* The initial tables satisfy the invariant.
LEMMA FeedbackInit ==
    Init => FeedbackInv
  <1>. SUFFICES ASSUME Init PROVE FeedbackInv
    OBVIOUS
  <1>1. TypeOK
    BY TypeParts, JobTypes, SyncTypes, FeedbackAssumption DEF Init, Statuses, OnePerRecording
  <1>2. Pulled
    BY SyncTypes DEF Init, Pulled
  <1>3. FlagExplained
    BY DEF Init, FlagExplained
  <1>4. GoodPosted
    BY DEF Init, GoodPosted
  <1>. QED
    BY <1>1, <1>2, <1>3, <1>4 DEF FeedbackInv

\* metadata/lookup, or its failure, which ends a round.
LEMMA LookUpKeeps ==
    ASSUME FeedbackInv, NEW p \in Procs, LookUp(p)
    PROVE  FeedbackInv'
  <1>. USE DEF FeedbackInv
  <1>. DEFINE keys == {<<IdOf(f[1]), f[2]>> : f \in {g \in job[p].fb : IdOf(g[1]) # "none"}}
  <1>1. /\ UNCHANGED <<star, status, remote, loves, con, unposted, edits>>
        /\ edited' = IF sync' = NoSync THEN {} ELSE edited
        /\ sync' = sync \/ sync' = NoSync
        /\ mishaps' = mishaps \/ Mishap
        /\ \/ job' = [job EXCEPT ![p].pc = "post", ![p].todo = keys]
           \/ job' = [job EXCEPT ![p] = NoJob]
    BY DEF LookUp
  <1>2. keys \in SUBSET (Recording \X BOOLEAN)
    <2>1. job[p].fb \subseteq Song \X BOOLEAN
      BY TypeParts DEF Jobs
    <2>. QED
      BY <2>1, IdOfType
  <1>. HIDE DEF keys
  <1>3. job' \in [Procs -> Jobs]
    <2>1. job \in [Procs -> Jobs]
      BY TypeParts
    <2>2. [job[p] EXCEPT !.pc = "post", !.todo = keys] \in Jobs
      BY <1>2, <2>1 DEF Jobs
    <2>3. job' = [job EXCEPT ![p] = [job[p] EXCEPT !.pc = "post", !.todo = keys]]
          \/ job' = [job EXCEPT ![p] = NoJob]
      BY <1>1, <2>1
    <2>. QED
      BY <2>1, <2>2, <2>3, JobTypes
  <1>4. mishaps' \in 0 .. MaxMishaps
    BY <1>1, TypeParts, MishapType
  <1>5. TypeOK'
    BY <1>1, <1>3, <1>4, TypeParts, SyncTypes DEF TypeOK, Statuses, Jobs, Syncs, unposted
  <1>6. Pulled'
    BY <1>1, SyncTypes DEF Pulled, unposted
  <1>7. FlagExplained'
    BY <1>1 DEF FlagExplained, unposted
  <1>8. GoodPosted'
    <2>1. ASSUME NEW q \in Procs
          PROVE  \/ job'[q].good = job[q].good /\ job'[q].late = job[q].late
                 \/ job'[q].good = {}
      BY <1>1, TypeParts DEF Jobs, NoJob
    <2>. QED
      BY <1>1, <2>1 DEF GoodPosted, unposted
  <1>. QED
    BY <1>5, <1>6, <1>7, <1>8

\* A post changes what is loved, or fails.
LEMMA PostKeeps ==
    ASSUME FeedbackInv, NEW p \in Procs, NEW key \in job[p].todo, Post(p, key)
    PROVE  FeedbackInv'
  <1>. USE DEF FeedbackInv
  <1>. DEFINE songs == {f[1] : f \in {g \in job[p].fb : <<IdOf(g[1]), g[2]>> = key}}
  <1>1. /\ UNCHANGED <<star, status, remote, con, sync, edited, edits>>
        /\ mishaps' = mishaps \/ Mishap
        /\ loves' \in {loves, loves \cup {key[1]}, loves \ {key[1]}}
        /\ masked' = masked \cap pending'
        /\ \/ /\ job' = [job EXCEPT ![p].todo = @ \ {key}, ![p].good = @ \cup songs]
              /\ pending' = pending \ (songs \ job[p].late)
           \/ /\ job' = [job EXCEPT ![p].todo = @ \ {key}, ![p].good = @ \cup {}]
              /\ pending' = pending
    BY DEF Post, Succeeded
  <1>2. job \in [Procs -> Jobs]
    BY TypeParts
  <1>3. songs \subseteq Song
    BY <1>2 DEF Jobs
  <1>. HIDE DEF songs
  <1>4. job' \in [Procs -> Jobs]
    <2>1. /\ [job[p] EXCEPT !.todo = @ \ {key}, !.good = @ \cup songs] \in Jobs
          /\ [job[p] EXCEPT !.todo = @ \ {key}, !.good = @ \cup {}] \in Jobs
      BY <1>2, <1>3 DEF Jobs
    <2>. QED
      BY <1>1, <1>2, <2>1
  <1>5. mishaps' \in 0 .. MaxMishaps
    BY <1>1, TypeParts, MishapType
  <1>6. loves' \subseteq Recording
    <2>1. key \in Recording \X BOOLEAN
      BY <1>2 DEF Jobs
    <2>. QED
      BY <1>1, <2>1, TypeParts
  <1>7. pending' \subseteq pending
    BY <1>1
  <1>8. TypeOK'
    BY <1>1, <1>4, <1>5, <1>6, <1>7 DEF TypeOK, Jobs
  <1>9. FlagExplained' /\ Pulled'
    BY <1>1, <1>7 DEF FlagExplained, Pulled
  <1>10. GoodPosted'
    <2>. SUFFICES ASSUME NEW q \in Procs, NEW s \in job'[q].good, s \in pending'
                  PROVE  s \in job'[q].late
      BY DEF GoodPosted
    <2>1. job'[q].late = job[q].late
      BY <1>1, <1>2 DEF Jobs
    <2>2. CASE s \in job[q].good
      BY <1>7, <2>1, <2>2 DEF GoodPosted
    <2>3. CASE s \notin job[q].good
      <3>1. q = p /\ s \in songs /\ pending' = pending \ (songs \ job[p].late)
        BY <1>1, <1>2, <2>3 DEF Jobs
      <3>. QED
        BY <2>1, <3>1
    <2>. QED
      BY <2>2, <2>3
  <1>. QED
    BY <1>8, <1>9, <1>10

\* The songs of successful posts are marked as uploaded.
LEMMA MarkUploadedKeeps ==
    ASSUME FeedbackInv, NEW p \in Procs, Runs(p), MarkUploaded(p)
    PROVE  FeedbackInv'
  <1>. USE DEF FeedbackInv
  <1>1. /\ UNCHANGED <<star, loves, con, edited, pending, edits, mishaps>>
        /\ SetUploaded(job[p].good, "yes")
        /\ remote' = [s \in Song |-> IF s \in job[p].good THEN IdOf(s) ELSE remote[s]]
        /\ masked' = masked \cup (job[p].good \cap job[p].late \cap pending)
        /\ job' = [job EXCEPT ![p] = NoJob]
        /\ sync' = IF p = "sync" THEN [sync EXCEPT !.pc = "apply"] ELSE sync
    BY DEF MarkUploaded
  <1>2. /\ status' \in [Song -> Statuses]
        /\ \A s \in Song : status'[s] = IF s \in job[p].good THEN "yes" ELSE status[s]
    BY <1>1, TypeParts, StatusType DEF Statuses
  <1>3. remote' \in [Song -> Recording \cup {"none"}]
    BY <1>1, TypeParts, IdOfType
  <1>4. job' \in [Procs -> Jobs]
    BY <1>1, TypeParts, JobTypes
  <1>5. /\ sync' \in Syncs
        /\ sync'.stars = sync.stars /\ sync'.unstar = sync.unstar /\ sync'.pull = sync.pull
        /\ sync'.pc \in {"upload", "apply"} => sync.pc \in {"upload", "apply"}
    BY <1>1, TypeParts DEF Syncs, Runs
  <1>6. TypeOK'
    BY <1>1, <1>2, <1>3, <1>4, <1>5 DEF TypeOK, Statuses, Jobs, Syncs
  <1>7. Pulled'
    BY <1>1, <1>5 DEF Pulled
  <1>8. GoodPosted'
    BY <1>1, TypeParts DEF GoodPosted, NoJob
  <1>9. FlagExplained'
    <2>. SUFFICES ASSUME NEW s \in pending
                  PROVE  /\ status'[s] = "yes" => s \in masked'
                         /\ status'[s] = "unknown" => s \in star
      BY <1>1 DEF FlagExplained
    <2>1. s \in Song
      BY TypeParts
    <2>2. CASE s \in job[p].good
      BY <1>1, <1>2, <2>1, <2>2 DEF GoodPosted
    <2>3. CASE s \notin job[p].good
      BY <1>1, <1>2, <2>1, <2>3 DEF FlagExplained
    <2>. QED
      BY <2>2, <2>3
  <1>. QED
    BY <1>6, <1>7, <1>8, <1>9

\* A job is given up, and a round with it.
LEMMA GivenUp ==
    ASSUME FeedbackInv, NEW p \in Procs, UNCHANGED <<star, status, remote, loves, con, edits>>,
           UNCHANGED unposted, Mishap, job' = [job EXCEPT ![p] = NoJob],
           \/ sync' = sync /\ edited' = edited
           \/ sync' = NoSync /\ edited' = {}
    PROVE  FeedbackInv'
  <1>. USE DEF FeedbackInv
  <1>1. job' \in [Procs -> Jobs]
    BY TypeParts, JobTypes
  <1>2. mishaps' \in 0 .. MaxMishaps
    BY TypeParts, MishapType
  <1>3. TypeOK'
    BY <1>1, <1>2, TypeParts, SyncTypes DEF TypeOK, Statuses, Jobs, Syncs, unposted
  <1>4. Pulled'
    BY SyncTypes DEF Pulled, unposted
  <1>5. FlagExplained'
    BY DEF FlagExplained, unposted
  <1>6. GoodPosted'
    <2>1. \A q \in Procs : job'[q] = job[q] \/ job'[q].good = {}
      BY TypeParts DEF NoJob
    <2>. QED
      BY <2>1 DEF GoodPosted, unposted
  <1>. QED
    BY <1>3, <1>4, <1>5, <1>6

\* Marking fails, or a query or transaction of the round.
LEMMA FailuresKeep ==
    ASSUME FeedbackInv, SyncFails \/ \E p \in Procs : MarkUploadedFails(p)
    PROVE  FeedbackInv'
  BY GivenUp DEF SyncFails, MarkUploadedFails, Procs

\* A client's edit is no longer uploaded, and is remembered while a round is to apply.
LEMMA StarUnstarKeeps ==
    ASSUME FeedbackInv, NEW c \in Client, NEW ss \in Selections, NEW love \in BOOLEAN,
           StarUnstar(c, ss, love)
    PROVE  FeedbackInv'
  <1>. USE DEF FeedbackInv
  <1>0. ss \in SUBSET Song
    BY FeedbackAssumption
  <1>1. /\ UNCHANGED <<remote, loves, con, sync, mishaps>>
        /\ star' = IF love THEN star \cup ss ELSE star \ ss
        /\ SetUploaded(ss, "no")
        /\ edited' = IF sync.pc \in {"upload", "apply"} THEN edited \cup ss ELSE {}
        /\ pending' = pending \cup ss
        /\ masked' = masked \ ss
        /\ job' = [p \in Procs |->
                    IF p = c /\ con THEN NewJob(ss \X {love})
                    ELSE IF job[p].pc = "idle" THEN NoJob
                    ELSE [job[p] EXCEPT !.late = @ \cup ss]]
    BY DEF StarUnstar
  <1>2. /\ status' \in [Song -> Statuses]
        /\ \A s \in Song : status'[s] = IF s \in ss THEN "no" ELSE status[s]
    BY <1>1, TypeParts, StatusType DEF Statuses
  <1>3. job' \in [Procs -> Jobs]
    <2>1. NewJob(ss \X {love}) \in Jobs
      BY <1>0, JobTypes
    <2>2. \A p \in Procs : [job[p] EXCEPT !.late = @ \cup ss] \in Jobs
      BY <1>0, TypeParts DEF Jobs
    <2>. QED
      BY <1>1, <2>1, <2>2, JobTypes
  <1>4. edits' \in 0 .. MaxEdits
    BY TypeParts, FeedbackAssumption DEF StarUnstar
  <1>5. TypeOK'
    BY <1>0, <1>1, <1>2, <1>3, <1>4 DEF TypeOK, Statuses, Jobs
  <1>6. Pulled'
    BY <1>0, <1>1, <1>2, TypeParts DEF Pulled, Syncs
  <1>7. FlagExplained'
    <2>1. ss \subseteq Song /\ pending \subseteq Song
      BY <1>0, TypeParts
    <2>. QED
      BY <1>1, <1>2, <2>1 DEF FlagExplained
  <1>8. GoodPosted'
    <2>. SUFFICES ASSUME NEW q \in Procs, NEW s \in job'[q].good, s \in pending'
                  PROVE  s \in job'[q].late
      BY DEF GoodPosted
    <2>1. job'[q] = [job[q] EXCEPT !.late = @ \cup ss]
      BY <1>1 DEF NewJob, NoJob
    <2>2. /\ job'[q].good = job[q].good
          /\ job'[q].late = job[q].late \cup ss
      BY <2>1, TypeParts DEF Jobs
    <2>. QED
      BY <1>1, <2>2 DEF GoodPosted
  <1>. QED
    BY <1>5, <1>6, <1>7, <1>8

-----------------------------------------------------------------------------
(* The steps of a round.  *)

\* Reading the loves of a user keeps the invariant.
LEMMA SyncCollectKeeps ==
    ASSUME FeedbackInv, SyncCollect
    PROVE  FeedbackInv'
  <1>. USE DEF FeedbackInv
  <1>1. /\ sync' \in Syncs /\ sync'.stars = {} /\ sync'.unstar = {} /\ sync'.pc = "match"
    BY TypeParts DEF SyncCollect, NoSync, Syncs
  <1>2. TypeOK'
    BY <1>1 DEF TypeOK, SyncCollect, Syncs, unposted
  <1>3. Pulled'
    BY <1>1 DEF Pulled
  <1>4. FlagExplained' /\ GoodPosted'
    BY DEF SyncCollect, FlagExplained, GoodPosted, unposted
  <1>. QED
    BY <1>2, <1>3, <1>4

\* Matching loves with songs keeps the invariant.
LEMMA SyncMatchKeeps ==
    ASSUME FeedbackInv, SyncMatch
    PROVE  FeedbackInv'
  <1>. USE DEF FeedbackInv
  <1>. DEFINE ss == {s \in star : Mbid[s] \in sync.loved}
  <1>1. /\ UNCHANGED <<star, loves, con, job, edited, edits, mishaps>>
        /\ SetUploaded(ss, "yes")
        /\ remote' = [s \in Song |-> IF s \in ss /\ status[s] = "unknown" THEN Mbid[s]
                                     ELSE remote[s]]
        /\ pending' = pending \ {s \in ss : Mbid[s] \in loves}
        /\ masked' = (masked \cap pending')
                     \cup {s \in ss \cap pending : Mbid[s] \in sync.loved \ loves}
        /\ sync' = [sync EXCEPT !.pc = "push"]
    BY DEF SyncMatch
  <1>0. \A s \in ss : Mbid[s] \in sync.loved
    OBVIOUS
  <1>. HIDE DEF ss
  <1>2. /\ status' \in [Song -> Statuses]
        /\ \A s \in Song : status'[s] = IF s \in ss THEN "yes" ELSE status[s]
    BY <1>1, TypeParts, StatusType DEF Statuses
  <1>3. remote' \in [Song -> Recording \cup {"none"}]
    BY <1>1, TypeParts, IdOfType
  <1>4. /\ sync' \in Syncs
        /\ sync'.stars = sync.stars /\ sync'.unstar = sync.unstar /\ sync'.pull = sync.pull
        /\ sync'.pc = "push"
    BY <1>1, TypeParts DEF Syncs
  <1>5. TypeOK'
    BY <1>1, <1>2, <1>3, <1>4 DEF TypeOK, Statuses, Syncs
  <1>6. Pulled'
    BY <1>4 DEF Pulled
  <1>7. pending' \subseteq pending /\ pending \subseteq Song
    BY <1>1, TypeParts
  <1>8. FlagExplained'
    <2>. SUFFICES ASSUME NEW s \in pending'
                  PROVE  /\ status'[s] = "yes" => s \in masked'
                         /\ status'[s] = "unknown" => s \in star
      BY <1>1 DEF FlagExplained
    <2>1. CASE s \in ss
      BY <1>0, <1>1, <1>2, <1>7, <2>1
    <2>2. CASE s \notin ss
      BY <1>1, <1>2, <1>7, <2>2 DEF FlagExplained
    <2>. QED
      BY <2>1, <2>2
  <1>9. GoodPosted'
    BY <1>1, <1>7 DEF GoodPosted
  <1>. QED
    BY <1>5, <1>6, <1>8, <1>9

\* The query for songs not yet uploaded keeps the invariant.
LEMMA SyncFindNotUploadedKeeps ==
    ASSUME FeedbackInv, SyncFindNotUploaded
    PROVE  FeedbackInv'
  <1>. USE DEF FeedbackInv
  <1>. DEFINE fb == {<<s, s \in star>> : s \in FindNotUploadedLBFeedback(sync.loved)}
  <1>1. /\ UNCHANGED <<star, status, remote, loves, con, edited, unposted, edits, mishaps>>
        /\ job' = [job EXCEPT !["sync"] = NewJob(fb)]
        /\ sync' = [sync EXCEPT !.pc = "pull"]
    BY DEF SyncFindNotUploaded
  <1>2. fb \in SUBSET (Song \X BOOLEAN)
    <2>1. \A s \in Song : <<s, s \in star>> \in Song \X BOOLEAN
      <3>. SUFFICES ASSUME NEW s \in Song PROVE <<s, s \in star>> \in Song \X BOOLEAN
        OBVIOUS
      <3>1. PICK b \in BOOLEAN : b = (s \in star)
        <4>1. CASE s \in star
          <5>1. (s \in star) = TRUE
            BY <4>1, Zenon
          <5>. WITNESS TRUE \in BOOLEAN
          <5>. QED
            BY <5>1, Zenon
        <4>2. CASE s \notin star
          <5>1. (s \in star) = FALSE
            BY <4>2
          <5>. WITNESS FALSE \in BOOLEAN
          <5>. QED
            BY <5>1, Zenon
        <4>. QED
          BY <4>1, <4>2, Zenon
      <3>2. <<s, b>> \in Song \X BOOLEAN
        BY SMT
      <3>. QED
        BY <3>1, <3>2, Zenon
    <2>2. FindNotUploadedLBFeedback(sync.loved) \subseteq Song
      BY DEF FindNotUploadedLBFeedback
    <2>. HIDE DEF FindNotUploadedLBFeedback
    <2>. QED
      BY <2>1, <2>2, Zenon
  <1>. HIDE DEF fb
  <1>3. job' \in [Procs -> Jobs]
    BY <1>1, <1>2, TypeParts, JobTypes DEF Procs
  <1>4. /\ sync' \in Syncs
        /\ sync'.stars = sync.stars /\ sync'.unstar = sync.unstar /\ sync'.pull = sync.pull
        /\ sync'.pc = "pull"
    BY <1>1, TypeParts DEF Syncs
  <1>5. TypeOK'
    BY <1>1, <1>3, <1>4 DEF TypeOK, Jobs, Syncs, unposted
  <1>6. Pulled'
    BY <1>4 DEF Pulled
  <1>7. FlagExplained'
    BY <1>1 DEF FlagExplained, unposted
  <1>8. GoodPosted'
    <2>1. \A q \in Procs : job'[q] = job[q] \/ job'[q].good = {}
      BY <1>1, TypeParts DEF NewJob, NoJob
    <2>. QED
      BY <1>1, <2>1 DEF GoodPosted, unposted
  <1>. QED
    BY <1>5, <1>6, <1>7, <1>8

\* What FindLocalOutdatedFeedbackByLB finds has been uploaded, or is not known here.
LEMMA OutdatedStatus ==
    ASSUME NEW loved
    PROVE  /\ FindLocalOutdatedFeedbackByLB(loved) \subseteq Song
           /\ \A s \in FindLocalOutdatedFeedbackByLB(loved) :
                 /\ s \in star => status[s] = "yes"
                 /\ s \notin star => status[s] \in {"yes", "unknown"}
  BY DEF FindLocalOutdatedFeedbackByLB

\* The query for outdated songs keeps the invariant.
LEMMA SyncFindOutdatedKeeps ==
    ASSUME FeedbackInv, SyncFindOutdated
    PROVE  FeedbackInv'
  <1>. USE DEF FeedbackInv
  <1>. DEFINE outdated == FindLocalOutdatedFeedbackByLB(sync.loved)
  <1>1. PICK r \in Representatives(outdated \ star) :
           sync' = [NoSync EXCEPT !.pc = "upload", !.pull = outdated,
                                  !.unstar = outdated \cap star, !.stars = r]
    BY DEF SyncFindOutdated
  <1>2. /\ outdated \subseteq Song
        /\ \A s \in outdated : /\ s \in star => status[s] = "yes"
                               /\ s \notin star => status[s] \in {"yes", "unknown"}
    BY OutdatedStatus
  <1>3. r \subseteq outdated \ star /\ OnePerRecording(r)
    BY DEF Representatives, OnePerRecording
  <1>. HIDE DEF outdated
  <1>4. /\ sync' \in Syncs
        /\ sync'.pull = outdated /\ sync'.unstar = outdated \cap star /\ sync'.stars = r
    BY <1>1, <1>2, <1>3 DEF NoSync, Syncs
  <1>5. UNCHANGED <<star, status, remote, loves, con, job, edited, pending, masked, edits,
                    mishaps>>
    BY DEF SyncFindOutdated, unposted
  <1>6. TypeOK'
    BY <1>3, <1>4, <1>5 DEF TypeOK, Syncs, OnePerRecording
  <1>7. Pulled'
    <2>1. \A s \in pending \cap outdated : s \in masked
      BY <1>2 DEF FlagExplained
    <2>. QED
      BY <1>3, <1>4, <1>5, <2>1 DEF Pulled
  <1>8. FlagExplained' /\ GoodPosted'
    BY <1>5 DEF FlagExplained, GoodPosted
  <1>. QED
    BY <1>6, <1>7, <1>8

\* The transaction at the end of a round keeps the invariant.
LEMMA SyncApplyKeeps ==
    ASSUME FeedbackInv, SyncApply
    PROVE  FeedbackInv'
  <1>. USE DEF FeedbackInv
  <1>1. /\ status' \in [Song -> Statuses]
        /\ \A s \in Song : status'[s] = IF s \in sync.pull THEN "yes" ELSE status[s]
    BY TypeParts, StatusType DEF SyncApply, Statuses
  <1>2. sync' \in Syncs /\ sync'.stars = {} /\ sync'.unstar = {} /\ sync'.pc = "idle"
    BY SyncTypes DEF SyncApply
  <1>3. star' \subseteq Song
    BY TypeParts DEF SyncApply, Syncs
  <1>4. /\ pending' \subseteq pending /\ pending \subseteq Song
        /\ masked' = (masked \cup (sync.pull \cap edited)) \cap pending'
    BY TypeParts DEF SyncApply
  <1>5. TypeOK'
    BY <1>1, <1>2, <1>3, <1>4 DEF TypeOK, SyncApply, Statuses, Syncs
  <1>6. Pulled'
    BY <1>2 DEF Pulled
  <1>7. GoodPosted'
    BY <1>4 DEF SyncApply, GoodPosted
  <1>8. FlagExplained'
    <2>. SUFFICES ASSUME NEW s \in pending'
                  PROVE  /\ status'[s] = "yes" => s \in masked'
                         /\ status'[s] = "unknown" => s \in star'
      BY DEF FlagExplained
    <2>1. s \in pending /\ s \notin sync.unstar \cup sync.stars
      BY DEF SyncApply
    <2>2. s \in star <=> s \in star'
      BY <2>1 DEF SyncApply
    <2>3. CASE s \in sync.pull
      BY <1>1, <1>4, <2>1, <2>3 DEF Pulled, SyncApply
    <2>4. CASE s \notin sync.pull
      BY <1>1, <1>4, <2>1, <2>2, <2>4 DEF FlagExplained
    <2>. QED
      BY <2>3, <2>4
  <1>. QED
    BY <1>5, <1>6, <1>7, <1>8

-----------------------------------------------------------------------------
(* What else changes things.  *)

\* A change on ListenBrainz keeps the invariant.
LEMMA RemoteEditKeeps ==
    ASSUME FeedbackInv, NEW m \in Recording, RemoteEdit(m)
    PROVE  FeedbackInv'
  <1>1. mishaps' \in 0 .. MaxMishaps
    BY TypeParts, MishapType DEF RemoteEdit, FeedbackInv
  <1>2. loves' \subseteq Recording
    BY TypeParts DEF RemoteEdit, FeedbackInv
  <1>. QED
    BY <1>1, <1>2
       DEF FeedbackInv, RemoteEdit, TypeOK, Pulled, FlagExplained, GoodPosted, unposted

\* All that is known of uploads is forgotten; a round that is to apply has every song
\* edited under it.
LEMMA ReconnectKeeps ==
    ASSUME FeedbackInv, Reconnect
    PROVE  FeedbackInv'
  <1>1. mishaps' \in 0 .. MaxMishaps
    BY TypeParts, MishapType DEF Reconnect, FeedbackInv
  <1>2. /\ status' \in [Song -> Statuses] /\ remote' \in [Song -> Recording \cup {"none"}]
        /\ con' \in BOOLEAN
    BY DEF Reconnect, Statuses
  <1>3. edited' \subseteq Song
    BY DEF Reconnect
  <1>4. TypeOK'
    BY <1>1, <1>2, <1>3 DEF FeedbackInv, Reconnect, TypeOK, Statuses
  <1>5. Pulled'
    BY TypeParts DEF FeedbackInv, Reconnect, Pulled, Syncs
  <1>6. FlagExplained'
    BY TypeParts DEF FeedbackInv, Reconnect, FlagExplained
  <1>7. GoodPosted'
    BY DEF FeedbackInv, Reconnect, GoodPosted
  <1>. QED
    BY <1>4, <1>5, <1>6, <1>7 DEF FeedbackInv

\* Switching the synchronisation on keeps the invariant.
LEMMA SwitchOnKeeps ==
    ASSUME FeedbackInv, SwitchOn
    PROVE  FeedbackInv'
  BY DEF FeedbackInv, SwitchOn, TypeOK, Pulled, FlagExplained, GoodPosted, unposted

\* A step that changes nothing keeps the invariant.
LEMMA StutterKeeps ==
    ASSUME FeedbackInv, UNCHANGED vars
    PROVE  FeedbackInv'
  BY DEF FeedbackInv, vars, TypeOK, Pulled, FlagExplained, GoodPosted

-----------------------------------------------------------------------------
(* The invariant holds throughout (UpdateSongFeedback, SyncSongFeedback,     *)
(* handleStarUnstar, UpdateListenBrainzConnection in any interleaving).      *)
THEOREM FeedbackInvInvariant ==
    Spec => []FeedbackInv
  <1>1. FeedbackInv /\ [Next]_vars => FeedbackInv'
    <2>. SUFFICES ASSUME FeedbackInv, [Next]_vars PROVE FeedbackInv'
      OBVIOUS
    <2>1. CASE \E c \in Client, ss \in Selections, love \in BOOLEAN : StarUnstar(c, ss, love)
      BY <2>1, StarUnstarKeeps
    <2>2. ASSUME NEW p \in Procs, JobStep(p)
          PROVE  FeedbackInv'
      BY <2>2, LookUpKeeps, PostKeeps, MarkUploadedKeeps, FailuresKeep DEF JobStep
    <2>3. CASE SyncStep
      BY <2>3, SyncCollectKeeps, SyncMatchKeeps, SyncFindNotUploadedKeeps,
         SyncFindOutdatedKeeps, SyncApplyKeeps, FailuresKeep DEF SyncStep
    <2>4. CASE \E m \in Recording : RemoteEdit(m)
      BY <2>4, RemoteEditKeeps
    <2>5. CASE Reconnect \/ SwitchOn \/ UNCHANGED vars
      BY <2>5, ReconnectKeeps, SwitchOnKeeps, StutterKeeps
    <2>. QED
      BY <2>1, <2>2, <2>3, <2>4, <2>5 DEF Next
  <1>. QED
    BY <1>1, FeedbackInit, PTL DEF Spec

(* The variables have their types, and a round stars at most one song of a   *)
(* recording (starByMBID), for any songs and clients.                        *)
THEOREM FeedbackTypeCorrect ==
    Spec => []TypeOK
  <1>1. FeedbackInv => TypeOK
    BY DEF FeedbackInv
  <1>. QED
    BY <1>1, FeedbackInvInvariant, PTL

(* LocalWins: the end of a round (SyncSongFeedback) overwrites no star, or   *)
(* absence of one, of which no successful post has told ListenBrainz, unless *)
(* it was changed after the round had read it or marked as uploaded for an   *)
(* older change; however clients, uploads, failures, changes on ListenBrainz *)
(* and of the connection interleave with the round.                          *)
THEOREM LocalWinsHolds ==
    Spec => LocalWins
  <1>. DEFINE Step == \A s \in Song :
          sync.pc = "apply" /\ sync'.pc = "idle" /\ (s \in star) # (s \in star') =>
             s \notin pending \/ s \in edited \/ s \in masked
  <1>1. FeedbackInv /\ [Next]_vars => [Step]_vars
    <2>. SUFFICES ASSUME FeedbackInv, Next, NEW s \in Song,
                         sync.pc = "apply", sync'.pc = "idle", (s \in star) # (s \in star')
                  PROVE  s \notin pending \/ s \in edited \/ s \in masked
      BY DEF Step
    <2>1. SyncApply
      <3>1. ASSUME UNCHANGED star PROVE FALSE
        BY <3>1
      <3>2. ASSUME UNCHANGED sync PROVE FALSE
        BY <3>2
      <3>. QED
        BY <3>1, <3>2
           DEF Next, StarUnstar, JobStep, LookUp, Post, MarkUploaded, MarkUploadedFails,
               SyncStep, SyncCollect, SyncMatch, SyncFindNotUploaded, SyncFindOutdated,
               SyncFails, RemoteEdit, Reconnect, SwitchOn
    <2>2. s \in sync.unstar \cup sync.stars
      BY <2>1 DEF SyncApply
    <2>3. s \in sync.pull
      BY <2>2, TypeParts DEF FeedbackInv
    <2>. QED
      BY <2>3 DEF FeedbackInv, Pulled
  <1>. QED
    BY <1>1, FeedbackInvInvariant, PTL DEF Spec, LocalWins
=============================================================================
