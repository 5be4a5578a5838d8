------------------------------ MODULE Scrobbles ------------------------------
(***************************************************************************)
(* Scrobbles and their submission to ListenBrainz: handleScrobble          *)
(* (handlers/subsonic_mediaannotation.go), SubmitSingle, SubmitImport and  *)
(* SubmitMissingListens (listenbrainz/listenbrainz.go), the scrobble       *)
(* repository, and the handlers that change a user's connection.           *)
(*                                                                         *)
(* A listen is one (user, song, time), the key of a scrobble.  The handler *)
(* submits inside its database transaction and stores whether that worked; *)
(* the synchronisation submits later what did not.  A request to           *)
(* ListenBrainz may be lost, or be processed although it is reported as    *)
(* failed; a client may give up; the server may exit.  Each of these, and  *)
(* each change of a connection, is one of at most MaxMishaps mishaps.      *)
(***************************************************************************)
EXTENDS Naturals, FiniteSets

CONSTANTS User, Listen, Request,
          UserOf,      \* UserOf[l]: whose listen l is
          Played,      \* Played[l]: how much of the song was played
          Submissions, \* sets of listens a client sends at once
          Batch,       \* the 1000 listens SubmitImport puts into one request
          MaxMishaps

ASSUME ScrobblesAssumption ==
    /\ IsFiniteSet(Listen)
    /\ UserOf \in [Listen -> User]
    /\ Played \in [Listen -> {"unknown", "short", "half", "long"}]
    /\ Submissions \subseteq SUBSET Listen
    /\ Batch \in Nat \ {0}
    /\ MaxMishaps \in Nat

VARIABLES
    con,      \* con[u]: no ListenBrainz connection ("off"), or scrobbling "on" or "muted"
    songs,    \* the listens whose song is in the database
    row,      \* row[l]: no scrobble, or one whose submitted_to_listenbrainz is set or not
    playing,  \* the users with a now_playing row
    lb,       \* what ListenBrainz has received: never, once or more often
    req,      \* scrobble requests; ls: what is left after the conflicts were taken out,
              \* want: what is to be submitted, ok: listenbrainzSuccess
    sync,     \* SubmitMissingListens; found: what it read, todo: users, left: listens of
              \* the current user (a set of one) not yet submitted, done: users
    swept,    \* history: marked as submitted by a synchronisation that had not read them
    panicked, \* history: SubmitImport has panicked
    mishaps

vars == <<con, songs, row, playing, lb, req, sync, swept, panicked, mishaps>>

NoRequest == [pc |-> "idle", ls |-> {}, want |-> {}, left |-> {},
              ok |-> FALSE]
NoSync == [pc |-> "idle", found |-> {}, todo |-> {}, user |-> {}, left |-> {},
           done |-> {}]

Init ==
    /\ con \in [User -> {"off", "on"}]
    /\ songs = Listen
    /\ row = [l \in Listen |-> "none"]
    /\ playing = {}
    /\ lb = [l \in Listen |-> 0]
    /\ req = [r \in Request |-> NoRequest]
    /\ sync = NoSync
    /\ swept = {}
    /\ panicked = FALSE
    /\ mishaps = 0

Mishap == mishaps < MaxMishaps /\ mishaps' = mishaps + 1

-----------------------------------------------------------------------------
(* The scrobble repository and SubmitImport *)

OfUser(u) == {l \in Listen : UserOf[l] = u}

\* handleScrobble submits what was played for more than half, or who knows how long.
ShouldSubmit(l) == Played[l] \in {"unknown", "long"}

\* FindUnsubmittedLBScrobbles and SetLBSubmittedByUsers compare with >= and do not
\* match a duration that is NULL.
LongEnough(l) == Played[l] \in {"half", "long"}

\* Mutant: submitted_to_listenbrainz = false is missing.
FindAllLBScrobbles ==
    {l \in Listen : con[UserOf[l]] = "on" /\ row[l] # "none" /\ LongEnough(l) /\ l \in songs}

\* Mutant: > instead of >=.
FindLongerLBScrobbles ==
    {l \in Listen : con[UserOf[l]] = "on" /\ row[l] = "open" /\ Played[l] = "long" /\ l \in songs}

FindUnsubmittedLBScrobbles ==
    {l \in Listen : /\ con[UserOf[l]] = "on"
                    /\ row[l] = "open"
                    /\ LongEnough(l)
                    /\ l \in songs}

SetLBSubmittedByUsers(users) ==
    [l \in Listen |-> IF row[l] = "open" /\ UserOf[l] \in users /\ LongEnough(l)
                      THEN "sent" ELSE row[l]]

\* CreateMultiple: an existing row keeps its flag.
CreateMultiple(ls, sent) ==
    [l \in Listen |-> IF l \in ls /\ row[l] = "none"
                      THEN IF l \in sent THEN "sent" ELSE "open"
                      ELSE row[l]]

Min2(a, b) == IF a < b THEN a ELSE b

\* payloads[i:next] with next := i + min(1000, len(payloads)): every slice has the size
\* of the first one, so the last one may reach past the end.
NextSlices(left, total) ==
    {s \in SUBSET left : Cardinality(s) = Min2(Batch, total)}

PastEnd(left, total) == Cardinality(left) < Min2(Batch, total)

\* One request to ListenBrainz with the listens in s.
Receives(s) == lb' = [l \in Listen |-> IF l \in s THEN Min2(lb[l] + 1, 2) ELSE lb[l]]

Answers(s, ok) ==
    \/ ok /\ Receives(s) /\ UNCHANGED mishaps
    \/ ~ok /\ Receives(s) /\ Mishap       \* processed, but the answer is lost
    \/ ~ok /\ UNCHANGED lb /\ Mishap

-----------------------------------------------------------------------------
(* handleScrobble *)

\* A client sends a listen again while a request with it is under way.
Repeats(ls) == \E r \in Request : ls \cap req[r].ls # {}

\* The user is read, the transaction begins, the conflicts are taken out; a song that is
\* gone ends it.
Scrobble(r, u, ls) ==
    /\ req[r].pc = "idle"
    /\ ls # {} /\ ls \subseteq OfUser(u)
    /\ IF Repeats(ls) THEN Mishap ELSE UNCHANGED mishaps
    /\ LET new == {l \in ls : row[l] = "none"}
           want == IF con[u] = "on" THEN {l \in new : ShouldSubmit(l)} ELSE {}
       IN  /\ new # {} /\ new \subseteq songs
           /\ req' = [req EXCEPT ![r] =
                        [NoRequest EXCEPT !.pc = IF want = {} THEN "create" ELSE "submit",
                                          !.ls = new, !.want = want, !.left = want]]
    /\ UNCHANGED <<con, songs, row, playing, lb, sync, swept, panicked>>

\* The same with submission = false: one song, whose now_playing row replaces the user's
\* others.  SubmitPlayingNow may fail or not, nobody looks at the outcome again; the
\* transaction shows nothing else to anybody.
NowPlaying(l) ==
    /\ l \in songs
    /\ playing' = playing \cup {UserOf[l]}
    /\ UNCHANGED <<con, songs, row, lb, req, sync, swept, panicked, mishaps>>

\* GetListenbrainzConnection fails or scrobbling has been switched off: not an error.
SubmitRefused(r) ==
    /\ req[r].pc = "submit"
    /\ req[r].left = req[r].want
    /\ \E l \in req[r].ls : con[UserOf[l]] # "on"
    /\ req' = [req EXCEPT ![r].pc = "create"]
    /\ UNCHANGED <<con, songs, row, playing, lb, sync, swept, panicked, mishaps>>

\* Mutant: what ListenBrainz answers is not looked at.
SubmitBlindly(r) ==
    /\ req[r].pc = "submit"
    /\ req[r].left = req[r].want => \A l \in req[r].ls : con[UserOf[l]] = "on"
    /\ \E s \in NextSlices(req[r].left, Cardinality(req[r].want)), ok \in BOOLEAN :
          /\ Answers(s, ok)
          /\ req' = [req EXCEPT ![r].left = @ \ s, ![r].ok = TRUE,
                                ![r].pc = IF req[r].left = s THEN "create" ELSE "submit"]
    /\ UNCHANGED <<con, songs, row, playing, sync, swept, panicked>>

\* SubmitSingle, or one request of SubmitImport.
SubmitSlice(r) ==
    /\ req[r].pc = "submit"
    /\ req[r].left = req[r].want => \A l \in req[r].ls : con[UserOf[l]] = "on"
    /\ \E s \in NextSlices(req[r].left, Cardinality(req[r].want)), ok \in BOOLEAN :
          /\ Answers(s, ok)
          /\ req' = [req EXCEPT ![r].left = @ \ s, ![r].ok = ok /\ req[r].left = s,
                                ![r].pc = IF ok /\ req[r].left # s THEN "submit" ELSE "create"]
    /\ UNCHANGED <<con, songs, row, playing, sync, swept, panicked>>

\* payloads[i:next] panics; the router recovers, the transaction is rolled back.
SubmitPanics(r) ==
    /\ req[r].pc = "submit"
    /\ PastEnd(req[r].left, Cardinality(req[r].want))
    /\ panicked' = TRUE
    /\ req' = [req EXCEPT ![r] = NoRequest]
    /\ UNCHANGED <<con, songs, row, playing, lb, sync, swept, mishaps>>

\* CreateMultiple and the commit.
CreateScrobbles(r) ==
    /\ req[r].pc = "create"
    /\ row' = CreateMultiple(req[r].ls, IF req[r].ok THEN req[r].want ELSE {})
    /\ req' = [req EXCEPT ![r] = NoRequest]
    /\ UNCHANGED <<con, songs, playing, lb, sync, swept, panicked, mishaps>>

\* The client has gone, or the database fails: rolled back.
ScrobbleFails(r) ==
    /\ req[r].pc # "idle"
    /\ Mishap
    /\ req' = [req EXCEPT ![r] = NoRequest]
    /\ UNCHANGED <<con, songs, row, playing, lb, sync, swept, panicked>>

-----------------------------------------------------------------------------
(* SubmitMissingListens; submittingMissingListens lets one run at a time *)

SyncFind ==
    /\ sync.pc = "idle"
    /\ FindUnsubmittedLBScrobbles # {}
    /\ sync' = [NoSync EXCEPT !.pc = "load", !.found = FindUnsubmittedLBScrobbles]
    /\ UNCHANGED <<con, songs, row, playing, lb, req, swept, panicked, mishaps>>

\* FindByIDs: listens whose song is gone by now are left out, their user is not.
SyncLoad ==
    /\ sync.pc = "load"
    /\ sync' = [sync EXCEPT !.pc = "users", !.found = @ \cap songs,
                            !.todo = {UserOf[l] : l \in sync.found}]
    /\ UNCHANGED <<con, songs, row, playing, lb, req, swept, panicked, mishaps>>

\* Mutant: the user stays on the list.
SyncUserAgain(u) ==
    /\ sync.pc = "users"
    /\ u \in sync.todo
    /\ LET mine == sync.found \cap OfUser(u)
       IN  sync' = CASE con[u] = "off" -> NoSync
                     [] con[u] = "muted" -> [sync EXCEPT !.todo = @ \ {u}]
                     [] OTHER -> [sync EXCEPT !.pc = "submit", !.user = {u}, !.left = mine]
    /\ UNCHANGED <<con, songs, row, playing, lb, req, swept, panicked, mishaps>>

\* The next user, in any order: a connection that is gone ends the round.
SyncUser(u) ==
    /\ sync.pc = "users"
    /\ u \in sync.todo
    /\ LET mine == sync.found \cap OfUser(u)
       IN  sync' = CASE con[u] = "off" -> NoSync
                     [] con[u] = "muted" -> [sync EXCEPT !.todo = @ \ {u}]
                     [] con[u] = "on" /\ mine = {} ->
                           [sync EXCEPT !.todo = @ \ {u}, !.done = @ \cup {u}]
                     [] OTHER -> [sync EXCEPT !.pc = "submit", !.todo = @ \ {u}, !.user = {u},
                                              !.left = mine]
    /\ UNCHANGED <<con, songs, row, playing, lb, req, swept, panicked, mishaps>>

SyncTotal == Cardinality({l \in sync.found : UserOf[l] \in sync.user})

\* One request of SubmitImport; a failure ends the round, nobody is marked.
SyncSlice ==
    /\ sync.pc = "submit"
    /\ \E s \in NextSlices(sync.left, SyncTotal), ok \in BOOLEAN :
          /\ Answers(s, ok)
          /\ sync' = CASE ~ok -> NoSync
                       [] ok /\ sync.left # s -> [sync EXCEPT !.left = @ \ s]
                       [] OTHER -> [sync EXCEPT !.pc = "users", !.left = {},
                                                !.user = {}, !.done = @ \cup sync.user]
    /\ UNCHANGED <<con, songs, row, playing, req, swept, panicked>>

\* Memory is lost: requests are rolled back, the synchronisation is forgotten.
Restarts == req' = [r \in Request |-> NoRequest] /\ sync' = NoSync

\* The same panic as in SubmitPanics, but in a goroutine of its own: the server exits.
SyncPanics ==
    /\ sync.pc = "submit"
    /\ PastEnd(sync.left, SyncTotal)
    /\ panicked' = TRUE
    /\ Restarts
    /\ UNCHANGED <<con, songs, row, playing, lb, swept, mishaps>>

\* All users are through: what they have is marked, whoever has read it.
SyncMark ==
    /\ sync.pc = "users"
    /\ sync.todo = {}
    /\ row' = SetLBSubmittedByUsers(sync.done)
    /\ swept' = swept \cup {l \in Listen : row[l] # row'[l] /\ l \notin sync.found}
    /\ sync' = NoSync
    /\ UNCHANGED <<con, songs, playing, lb, req, panicked, mishaps>>

SyncStep == SyncFind \/ SyncLoad \/ (\E u \in User : SyncUser(u)) \/ SyncSlice \/ SyncPanics
            \/ SyncMark

-----------------------------------------------------------------------------
(* Connections, songs, exits *)

\* handleConnectListenbrainz, with a token or without, and
\* handleUpdateListenbrainzConfig.
SetConnection(u) ==
    /\ Mishap
    /\ \E c \in {"off", "on", "muted"} : /\ c # con[u]
                                         /\ c = "muted" => con[u] = "on"
                                         /\ con' = [con EXCEPT ![u] = c]
    /\ UNCHANGED <<songs, row, playing, lb, req, sync, swept, panicked>>

\* A scan finds that a file is gone, or back: scrobbles do not refer to songs by a key.
SongMoves(l) ==
    /\ Mishap
    /\ songs' = IF l \in songs THEN songs \ {l} ELSE songs \cup {l}
    /\ UNCHANGED <<con, row, playing, lb, req, sync, swept, panicked>>

Exit ==
    /\ Mishap
    /\ Restarts
    /\ UNCHANGED <<con, songs, row, playing, lb, swept, panicked>>

Next ==
    \/ \E r \in Request :
          \/ \E u \in User, ls \in Submissions : Scrobble(r, u, ls)
          \/ SubmitRefused(r) \/ SubmitSlice(r) \/ SubmitPanics(r)
          \/ CreateScrobbles(r) \/ ScrobbleFails(r)
    \/ SyncStep
    \/ \E u \in User : SetConnection(u)
    \/ \E l \in Listen : NowPlaying(l) \/ SongMoves(l)
    \/ Exit

Spec == Init /\ [][Next]_vars

\* The periodic goroutine starts a round again and again, and a round goes on.
FairSpec == Spec /\ WF_vars(SyncStep)

-----------------------------------------------------------------------------
(* Properties *)

\* Every variable has its shape; what is left to submit was to be submitted, and a round
\* is through with a user once.
TypeOK ==
    /\ con \in [User -> {"off", "on", "muted"}]
    /\ songs \subseteq Listen
    /\ row \in [Listen -> {"none", "open", "sent"}]
    /\ playing \subseteq User
    /\ lb \in [Listen -> 0 .. 2]
    /\ req \in [Request -> [pc : {"idle", "submit", "create"}, ls : SUBSET Listen,
                            want : SUBSET Listen, left : SUBSET Listen, ok : BOOLEAN]]
    /\ sync \in [pc : {"idle", "load", "users", "submit"}, found : SUBSET Listen,
                 todo : SUBSET User, user : SUBSET User, left : SUBSET Listen,
                 done : SUBSET User]
    /\ \A r \in Request : req[r].left \subseteq req[r].want /\ req[r].want \subseteq req[r].ls
    /\ sync.left \subseteq sync.found
    /\ (sync.user \cup sync.done) \cap sync.todo = {}
    /\ swept \subseteq Listen
    /\ panicked \in BOOLEAN
    /\ mishaps \in 0 .. MaxMishaps

(***************************************************************************)
(* A scrobble whose submitted flag is set has been received by             *)
(* ListenBrainz, with one exception: a synchronisation marks everything a  *)
(* user has by then, also what was stored after it had looked, and what it *)
(* could not submit because the song was gone.  Those listens are lost.    *)
(***************************************************************************)
SentMeansReceived == \A l \in Listen : row[l] = "sent" /\ lb[l] = 0 => l \in swept

(***************************************************************************)
(* Handler and synchronisation do not submit the same listen, however they *)
(* are interleaved: without a mishap nothing is submitted twice, unless    *)
(* SubmitImport panics over a list it cannot slice and is asked again.     *)
(***************************************************************************)
ReceivedOnce == mishaps = 0 /\ ~panicked => \A l \in Listen : lb[l] <= 1

\* A listen ListenBrainz wants and does not have: half of the song was played.
Owed(l) ==
    con[UserOf[l]] = "on" /\ row[l] = "open" /\ Played[l] \in {"half", "long"} /\ l \in songs
OwedBy(u) == {l \in OfUser(u) : Owed(l)}

\* More listens than fit into a request, and no multiple of them.
Unsliceable(u) ==
    Cardinality(OwedBy(u)) > Batch /\ Cardinality(OwedBy(u)) % Batch # 0

(***************************************************************************)
(* No listen stays unsubmitted for good while its user is connected,       *)
(* provided that from some time on every user's requests succeed (failures *)
(* are mishaps, and those are finitely many): failures before that, exits  *)
(* and other users only delay it.  Without that assumption it is false: a  *)
(* user whose token is refused for good makes every SubmitMissingListens   *)
(* return before it marks anyone, and owes the others theirs.  The other   *)
(* exception is a list that cannot be sliced, with which every round ends  *)
(* in the server's death, for everybody.                                   *)
(***************************************************************************)
OwedIsSubmitted ==
    \A l \in Listen : []<>(~Owed(l) \/ \E u \in User : Unsliceable(u))

=============================================================================
