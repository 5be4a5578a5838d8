------------------------------- MODULE Feedback -------------------------------
(***************************************************************************)
(* Stars of one user and their synchronisation with the loves of a         *)
(* ListenBrainz account: handleStarUnstar                                  *)
(* (handlers/subsonic_mediaannotation.go), UpdateSongFeedback and          *)
(* SyncSongFeedback (listenbrainz/listenbrainz.go), the queries of         *)
(* repos/postgres/song.go, and UpdateListenBrainzConnection.               *)
(*                                                                         *)
(* ListenBrainz loves recordings, the user stars songs: songs may share a  *)
(* recording, and a song without a recording id of its own is looked up.   *)
(* Every call to the database or to ListenBrainz is a step.                *)
(***************************************************************************)
EXTENDS Naturals, FiniteSets

CONSTANTS Song, Client,
          Mbid,        \* Mbid[s]: the song's recording, or "none"
          Lookup,      \* Lookup[s]: what the metadata lookup finds for a song without one
          Selections,  \* the sets of songs a request may name
          MaxEdits,    \* (un)star requests of clients
          MaxMishaps   \* failed requests, changes on ListenBrainz or of the connection

Recording == ({Mbid[s] : s \in Song} \cup {Lookup[s] : s \in Song}) \ {"none"}

ASSUME FeedbackAssumption ==
    /\ "sync" \notin Client
    /\ Selections \subseteq SUBSET Song
    /\ MaxEdits \in Nat /\ MaxMishaps \in Nat

VARIABLES
    star,     \* song_stars
    status,   \* lb_feedback_status.uploaded: NULL ("unknown"), FALSE ("no"), TRUE ("yes")
    remote,   \* lb_feedback_status.remote_mbid
    loves,    \* what is loved on ListenBrainz
    con,      \* connected, with feedback synchronisation on
    job,      \* job[p]: a run of UpdateSongFeedback by client p or the synchronisation
    sync,     \* pc, loved: the loves it has collected; unstar, pull: local changes to make
    edited,   \* history: songs starred, unstarred or forgotten since pull was read
    pending,  \* history: songs whose last change here has not been posted successfully
    masked,   \* history: of those, the ones marked as uploaded for an older change of
              \* theirs, or on the strength of an older reading of the loves
    edits, mishaps

unposted == <<pending, masked>>

vars == <<star, status, remote, loves, con, job, sync, edited, pending, masked, edits,
          mishaps>>

Procs == Client \cup {"sync"}

\* fb: pairs of a song and whether it is loved; todo: pairs of a recording and whether it is
\* loved, still to be posted; good: songs whose post succeeded; late (history): songs
\* changed here since fb was read.
NoJob == [pc |-> "idle", fb |-> {}, todo |-> {}, good |-> {}, late |-> {}]
NewJob(fb) == [NoJob EXCEPT !.pc = "lookup", !.fb = fb]
NoSync == [pc |-> "idle", loved |-> {}, unstar |-> {}, pull |-> {}, stars |-> {}]

Init ==
    /\ star = {}
    /\ status = [s \in Song |-> "unknown"]
    /\ remote = [s \in Song |-> "none"]
    /\ loves \in SUBSET Recording
    /\ con = TRUE
    /\ job = [p \in Procs |-> NoJob]
    /\ sync = NoSync
    /\ edited = {}
    /\ pending = {} /\ masked = {}
    /\ edits = 0
    /\ mishaps = 0

Mishap == mishaps < MaxMishaps /\ mishaps' = mishaps + 1

-----------------------------------------------------------------------------
(* Queries *)

LovedHere(s, loved) == Mbid[s] \in loved \/ remote[s] \in loved
SameRecordingStarred(s) == Mbid[s] # "none" /\ \E t \in star : Mbid[t] = Mbid[s]

FindNotUploadedLBFeedback(loved) ==
    {s \in Song : \/ status[s] = "unknown" /\ s \in star /\ Mbid[s] \notin loved
                  \/ status[s] = "no" /\ (s \in star) # LovedHere(s, loved)}

\* Mutant: songs that are no longer loved are not looked for.
FindLocalOutdatedLoved(loved) ==
    {s \in Song : /\ status[s] # "no" /\ s \notin star
                  /\ LovedHere(s, loved) /\ ~SameRecordingStarred(s)}

FindLocalOutdatedFeedbackByLB(loved) ==
    {s \in Song : \/ /\ status[s] = "unknown" /\ s \notin star
                     /\ Mbid[s] \in loved /\ ~SameRecordingStarred(s)
                  \/ /\ status[s] = "yes" /\ s \notin star
                     /\ LovedHere(s, loved) /\ ~SameRecordingStarred(s)
                  \/ status[s] = "yes" /\ s \in star /\ ~LovedHere(s, loved)}

\* SetLBFeedbackUploaded for the songs in ss.
SetUploaded(ss, to) == status' = [s \in Song |-> IF s \in ss THEN to ELSE status[s]]

\* starByMBID: one song per recording (which one depends on its release), and every song
\* without a recording id.
Representatives(cands) ==
    {r \in SUBSET cands :
        /\ \A s \in cands : Mbid[s] = "none" => s \in r
        /\ \A s \in cands : \E t \in r : Mbid[t] = Mbid[s]
        /\ \A s, t \in r : Mbid[s] = Mbid[t] /\ s # t => Mbid[s] = "none"}

-----------------------------------------------------------------------------
(* UpdateSongFeedback *)

\* The recording a song is uploaded as.
IdOf(s) == IF Mbid[s] = "none" THEN Lookup[s] ELSE Mbid[s]

\* metadata/lookup for songs without a recording; an error ends it.
LookUp(p) ==
    /\ job[p].pc = "lookup"
    /\ LET keys == {<<IdOf(f[1]), f[2]>> : f \in {g \in job[p].fb : IdOf(g[1]) # "none"}}
       IN  \/ /\ job' = [job EXCEPT ![p].pc = "post", ![p].todo = keys]
              /\ UNCHANGED <<sync, mishaps>>
           \/ /\ \E f \in job[p].fb : Mbid[f[1]] = "none"
              /\ Mishap
              /\ job' = [job EXCEPT ![p] = NoJob]
              /\ sync' = IF p = "sync" THEN NoSync ELSE sync
    /\ edited' = IF sync' = NoSync THEN {} ELSE edited
    /\ UNCHANGED <<star, status, remote, loves, con, unposted, edits>>

\* Mutant: the result of the post is not looked at.
SucceededAnyway(ok, songs) == songs

\* The songs that are to be marked as uploaded after a post.
Succeeded(ok, songs) == IF ok THEN songs ELSE {}

\* One recording-feedback request; it may be lost, or be processed and reported as failed.
Post(p, key) ==
    /\ job[p].pc = "post"
    /\ key \in job[p].todo
    /\ LET songs == {f[1] : f \in {g \in job[p].fb : <<IdOf(g[1]), g[2]>> = key}}
           done(ok) ==
               /\ job' = [job EXCEPT ![p].todo = @ \ {key},
                                     ![p].good = @ \cup Succeeded(ok, songs)]
               /\ pending' = IF ok THEN pending \ (songs \ job[p].late) ELSE pending
           received == loves' = IF key[2] THEN loves \cup {key[1]} ELSE loves \ {key[1]}
       IN  \/ done(TRUE) /\ received /\ UNCHANGED mishaps
           \/ done(FALSE) /\ received /\ Mishap
           \/ done(FALSE) /\ UNCHANGED loves /\ Mishap
    /\ masked' = masked \cap pending'
    /\ UNCHANGED <<star, status, remote, con, sync, edited, edits>>

\* SetLBFeedbackUploaded for the songs that were posted, whatever became of them since.
MarkUploaded(p) ==
    /\ job[p].pc = "post" /\ job[p].todo = {}
    /\ SetUploaded(job[p].good, "yes")
    /\ remote' = [s \in Song |-> IF s \in job[p].good THEN IdOf(s) ELSE remote[s]]
    /\ masked' = masked \cup (job[p].good \cap job[p].late \cap pending)
    /\ job' = [job EXCEPT ![p] = NoJob]
    /\ sync' = IF p = "sync" THEN [sync EXCEPT !.pc = "apply"] ELSE sync
    /\ UNCHANGED <<star, loves, con, edited, pending, edits, mishaps>>

\* Its failure ends the request, or the round.
MarkUploadedFails(p) ==
    /\ job[p].pc = "post" /\ job[p].todo = {}
    /\ Mishap
    /\ job' = [job EXCEPT ![p] = NoJob]
    /\ sync' = IF p = "sync" THEN NoSync ELSE sync
    /\ edited' = IF p = "sync" THEN {} ELSE edited
    /\ UNCHANGED <<star, status, remote, loves, con, unposted, edits>>

-----------------------------------------------------------------------------
(* handleStarUnstar *)

\* The transaction stars or unstars the songs and forgets that they were uploaded; with a
\* connection the upload follows.
StarUnstar(c, ss, love) ==
    /\ job[c].pc = "idle"
    /\ edits < MaxEdits /\ edits' = edits + 1
    /\ star' = IF love THEN star \cup ss ELSE star \ ss
    /\ SetUploaded(ss, "no")
    /\ edited' = IF sync.pc \in {"upload", "apply"} THEN edited \cup ss ELSE {}
    /\ pending' = pending \cup ss
    /\ masked' = masked \ ss
    /\ job' = [p \in Procs |->
                 IF p = c /\ con THEN NewJob(ss \X {love})
                 ELSE IF job[p].pc = "idle" THEN NoJob
                 ELSE [job[p] EXCEPT !.late = @ \cup ss]]
    /\ UNCHANGED <<remote, loves, con, sync, mishaps>>

-----------------------------------------------------------------------------
(* SyncSongFeedback; syncingFavorites lets one run at a time *)

\* collectListenbrainzLoveFeedback; a failure ends the round where it began.
SyncCollect ==
    /\ sync.pc = "idle"
    /\ con
    /\ sync' = [NoSync EXCEPT !.pc = "match", !.loved = loves]
    /\ UNCHANGED <<star, status, remote, loves, con, job, edited, unposted, edits, mishaps>>

\* SetLBFeedbackUploadedForAllMatchingStarredSongs
SyncMatch ==
    /\ sync.pc = "match"
    /\ LET ss == {s \in star : Mbid[s] \in sync.loved}
       IN  /\ SetUploaded(ss, "yes")
           /\ remote' = [s \in Song |-> IF s \in ss /\ status[s] = "unknown" THEN Mbid[s]
                                        ELSE remote[s]]
           /\ pending' = pending \ {s \in ss : Mbid[s] \in loves}
           /\ masked' = (masked \cap pending')
                        \cup {s \in ss \cap pending : Mbid[s] \in sync.loved \ loves}
    /\ sync' = [sync EXCEPT !.pc = "push"]
    /\ UNCHANGED <<star, loves, con, job, edited, edits, mishaps>>

SyncFindNotUploaded ==
    /\ sync.pc = "push"
    /\ job' = [job EXCEPT !["sync"] =
                 NewJob({<<s, s \in star>> : s \in FindNotUploadedLBFeedback(sync.loved)})]
    /\ sync' = [sync EXCEPT !.pc = "pull"]
    /\ job["sync"].pc = "idle"
    /\ UNCHANGED <<star, status, remote, loves, con, edited, unposted, edits, mishaps>>

SyncFindOutdated ==
    /\ sync.pc = "pull"
    /\ LET outdated == FindLocalOutdatedFeedbackByLB(sync.loved)
       IN  \E r \in Representatives(outdated \ star) :
              sync' = [NoSync EXCEPT !.pc = "upload", !.pull = outdated,
                                     !.unstar = outdated \cap star, !.stars = r]
    /\ UNCHANGED <<star, status, remote, loves, con, job, edited, unposted, edits, mishaps>>

\* The transaction at the end, which takes over what is loved, or was when the round
\* began.
SyncApply ==
    /\ sync.pc = "apply"
    /\ star' = (star \ sync.unstar) \cup sync.stars
    /\ SetUploaded(sync.pull, "yes")
    /\ pending' = pending \ (sync.unstar \cup sync.stars)
    /\ masked' = (masked \cup (sync.pull \cap edited)) \cap pending'
    /\ sync' = NoSync
    /\ edited' = {}
    /\ UNCHANGED <<remote, loves, con, job, edits, mishaps>>

\* A query or a transaction of the round fails and ends it.
SyncFails ==
    /\ sync.pc \in {"match", "push", "pull", "apply"}
    /\ Mishap
    /\ job' = [job EXCEPT !["sync"] = NoJob]
    /\ sync' = NoSync
    /\ edited' = {}
    /\ UNCHANGED <<star, status, remote, loves, con, unposted, edits>>

\* The job of p may run; the synchronisation's only after its second query.
Runs(p) == p = "sync" => sync.pc = "upload"
JobStep(p) ==
    /\ Runs(p)
    /\ \/ LookUp(p)
       \/ \E key \in job[p].todo : Post(p, key)
       \/ MarkUploaded(p) \/ MarkUploadedFails(p)

SyncStep ==
    \/ SyncCollect \/ SyncMatch \/ SyncFindNotUploaded \/ SyncFindOutdated \/ SyncApply
    \/ SyncFails

-----------------------------------------------------------------------------
(* What else changes things *)

\* The user loves or unloves a recording on ListenBrainz.
RemoteEdit(m) ==
    /\ Mishap
    /\ loves' = IF m \in loves THEN loves \ {m} ELSE loves \cup {m}
    /\ UNCHANGED <<star, status, remote, con, job, sync, edited, unposted, edits>>

\* UpdateListenBrainzConnection deletes what is known about uploads, and switches the
\* synchronisation off until UpdateListenBrainzSettings switches it on.  A star that was
\* not posted is still to be posted; that there is none is forgotten.
Reconnect ==
    /\ Mishap
    /\ con' = FALSE
    /\ status' = [s \in Song |-> "unknown"]
    /\ remote' = [s \in Song |-> "none"]
    /\ edited' = IF sync.pc \in {"upload", "apply"} THEN Song ELSE {}
    /\ pending' = pending \cap star
    /\ masked' = {}
    /\ UNCHANGED <<star, loves, job, sync, edits>>

SwitchOn ==
    /\ ~con
    /\ con' = TRUE
    /\ UNCHANGED <<star, status, remote, loves, job, sync, edited, unposted, edits, mishaps>>

Next ==
    \/ \E c \in Client, ss \in Selections, love \in BOOLEAN : StarUnstar(c, ss, love)
    \/ \E p \in Procs : JobStep(p)
    \/ SyncStep
    \/ \E m \in Recording : RemoteEdit(m)
    \/ Reconnect \/ SwitchOn

Spec == Init /\ [][Next]_vars

\* Requests are carried on, and the synchronisation runs again and again.
FairSpec ==
    /\ Spec
    /\ \A p \in Procs : WF_vars(JobStep(p))
    /\ WF_vars(SyncStep)

-----------------------------------------------------------------------------
(* Properties *)

\* The types of the variables; a round stars one song per recording.
TypeOK ==
    /\ star \subseteq Song
    /\ status \in [Song -> {"unknown", "no", "yes"}]
    /\ remote \in [Song -> Recording \cup {"none"}]
    /\ loves \subseteq Recording
    /\ con \in BOOLEAN
    /\ job \in [Procs -> [pc : {"idle", "lookup", "post"}, fb : SUBSET (Song \X BOOLEAN),
                          todo : SUBSET (Recording \X BOOLEAN), good : SUBSET Song,
                          late : SUBSET Song]]
    /\ sync \in [pc : {"idle", "match", "push", "pull", "upload", "apply"},
                 loved : SUBSET Recording, unstar : SUBSET Song, pull : SUBSET Song,
                 stars : SUBSET Song]
    /\ sync.stars \subseteq sync.pull /\ sync.unstar \subseteq sync.pull
    /\ \A s, t \in sync.stars : s # t => Mbid[s] # Mbid[t] \/ Mbid[s] = "none"
    /\ edited \subseteq Song
    /\ pending \subseteq Song /\ masked \subseteq pending
    /\ edits \in 0 .. MaxEdits /\ mishaps \in 0 .. MaxMishaps

(***************************************************************************)
(* "If upload status is not uploaded: global favorite <- local is          *)
(* favorite": a round never overwrites a star or its absence that has not  *)
(* been uploaded, whatever the flag in lb_feedback_status says of it: its  *)
(* last change here has reached no successful post, and nobody has found   *)
(* it loved on ListenBrainz.  The two exceptions the code makes: it was    *)
(* changed after the round had read it (edited), or it was marked as       *)
(* uploaded for an older change of the same song or an older reading of    *)
(* the loves, because nothing tells SetLBFeedbackUploaded that the song or *)
(* the love has changed since (masked).                                    *)
(***************************************************************************)
LocalWins ==
    [][ \A s \in Song :
          sync.pc = "apply" /\ sync'.pc = "idle" /\ (s \in star) # (s \in star') =>
             s \notin pending \/ s \in edited \/ s \in masked ]_vars

\* Where the two sides agree: a starred song's recording is loved as far as it is known,
\* and a loved recording has a starred song if there is one for it.
Agree ==
    /\ \A s \in star : IdOf(s) # "none" => IdOf(s) \in loves
    /\ \A m \in loves : (\E s \in Song : Mbid[s] = m) => \E s \in star : IdOf(s) = m

(***************************************************************************)
(* Once nobody changes anything any more and requests succeed, stars and   *)
(* loves agree for good, whatever was changed, lost or overtaken before,   *)
(* unless the synchronisation is left switched off.                        *)
(***************************************************************************)
Converges == <>[](con => Agree)
=============================================================================
