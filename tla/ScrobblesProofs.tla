--------------------------- MODULE ScrobblesProofs ---------------------------
(***************************************************************************)
(* What is marked as submitted has been received: proved for any sets of   *)
(* users, listens and requests, any size of a slice and any number of      *)
(* mishaps.  How many listens a slice has does not matter; that a step     *)
(* takes out of what is left exactly what it sends does.                   *)
(***************************************************************************)
EXTENDS Scrobbles, TLAPS

\* A request has sent what it has taken out of its list, and everything when it is to
\* store the listens as submitted.
RequestSent ==
    \A r \in Request :
        /\ req[r].pc = "submit" => \A l \in req[r].want \ req[r].left : lb[l] # 0
        /\ req[r].ok => \A l \in req[r].want : lb[l] # 0

\* A round has sent what it read of the users it is through with, and of the current one
\* what it has taken out of its list.
RoundSent ==
    /\ \A l \in sync.found : UserOf[l] \in sync.done => lb[l] # 0
    /\ sync.pc = "submit" =>
          \A l \in sync.found : UserOf[l] \in sync.user /\ l \notin sync.left => lb[l] # 0

\* What TypeOK says of a round.
RoundShape(y) ==
    /\ y \in [pc : {"idle", "load", "users", "submit"}, found : SUBSET Listen,
              todo : SUBSET User, user : SUBSET User, left : SUBSET Listen,
              done : SUBSET User]
    /\ y.left \subseteq y.found
    /\ (y.user \cup y.done) \cap y.todo = {}

\* A round that is about to load its songs has done nothing yet: without it, TypeOK is
\* not inductive, because SyncLoad takes listens out of found.
RoundStarts ==
    sync.pc = "load" => sync.left = {} /\ sync.user = {} /\ sync.done = {}

TypeInv == TypeOK /\ RoundStarts

SentInv == TypeInv /\ RequestSent /\ RoundSent /\ SentMeansReceived

-----------------------------------------------------------------------------
(* The operators the steps are made of. *)

\* What one answer does: counts stay counts, none goes back, what was acknowledged has
\* arrived.
LEMMA AnswersFacts ==
    ASSUME lb \in [Listen -> 0 .. 2], MaxMishaps \in Nat, mishaps \in 0 .. MaxMishaps,
           NEW s \in SUBSET Listen, NEW ok \in BOOLEAN, Answers(s, ok)
    PROVE  /\ lb' \in [Listen -> 0 .. 2]
           /\ mishaps' \in 0 .. MaxMishaps
           /\ \A l \in Listen : lb[l] # 0 => lb'[l] # 0
           /\ ok => \A l \in s : lb'[l] # 0
<1>1. CASE Receives(s)
  <2>1. \A n \in 0 .. 2 : Min2(n + 1, 2) \in 1 .. 2
    BY DEF Min2
  <2>2. lb' = [l \in Listen |-> IF l \in s THEN Min2(lb[l] + 1, 2) ELSE lb[l]]
    BY <1>1 DEF Receives
  <2>3. lb' \in [Listen -> 0 .. 2] /\ \A l \in Listen : l \in s \/ lb[l] # 0 => lb'[l] # 0
    BY <2>1, <2>2
  <2>4. mishaps' \in 0 .. MaxMishaps
    BY DEF Answers, Mishap
  <2> QED BY <2>3, <2>4
<1>2. CASE ~ok /\ UNCHANGED lb /\ Mishap
  BY <1>2 DEF Mishap
<1> QED BY <1>1, <1>2 DEF Answers

\* A mishap is counted within its bound.
LEMMA MishapCounts ==
    ASSUME MaxMishaps \in Nat, mishaps \in 0 .. MaxMishaps, Mishap \/ UNCHANGED mishaps
    PROVE  mishaps' \in 0 .. MaxMishaps
  BY DEF Mishap

\* A request and a round that are over have the shape of their types and nothing left.
LEMMA IdleShapes ==
    /\ NoRequest \in [pc : {"idle", "submit", "create"}, ls : SUBSET Listen,
                      want : SUBSET Listen, left : SUBSET Listen, ok : BOOLEAN]
    /\ NoRequest.pc = "idle" /\ NoRequest.ls = {} /\ NoRequest.want = {}
    /\ NoRequest.left = {} /\ NoRequest.ok = FALSE
    /\ NoSync \in [pc : {"idle", "load", "users", "submit"}, found : SUBSET Listen,
                   todo : SUBSET User, user : SUBSET User, left : SUBSET Listen,
                   done : SUBSET User]
    /\ NoSync.pc = "idle" /\ NoSync.found = {} /\ NoSync.todo = {} /\ NoSync.user = {}
    /\ NoSync.left = {} /\ NoSync.done = {}
  BY DEF NoRequest, NoSync

-----------------------------------------------------------------------------
(* Types *)

\* Every variable keeps its shape, whatever handler, round or mishap steps.
LEMMA TypeStep ==
    ASSUME TypeInv, [Next]_vars PROVE TypeInv'
<1> USE ScrobblesAssumption, IdleShapes DEF TypeInv, RoundStarts
<1>1. ASSUME NEW r \in Request, NEW u \in User, NEW ls \in Submissions, Scrobble(r, u, ls)
      PROVE  TypeInv'
  <2>1. mishaps' \in 0 .. MaxMishaps
    BY <1>1, MishapCounts DEF Scrobble, TypeOK
  <2> DEFINE new == {l \in ls : row[l] = "none"}
             want == IF con[u] = "on" THEN {l \in new : ShouldSubmit(l)} ELSE {}
             q == [NoRequest EXCEPT !.pc = IF want = {} THEN "create" ELSE "submit",
                                    !.ls = new, !.want = want, !.left = want]
  <2>2. req' = [req EXCEPT ![r] = q]
    BY <1>1 DEF Scrobble
  <2>3. new \subseteq Listen /\ want \subseteq new
    OBVIOUS
  <2>4. /\ q \in [pc : {"idle", "submit", "create"}, ls : SUBSET Listen,
                  want : SUBSET Listen, left : SUBSET Listen, ok : BOOLEAN]
        /\ q.left \subseteq q.want /\ q.want \subseteq q.ls
    <3> HIDE DEF new, want
    <3> QED BY <2>3 DEF NoRequest
  <2> HIDE DEF q
  <2>5. UNCHANGED <<con, songs, row, playing, lb, sync, swept, panicked>>
    BY <1>1 DEF Scrobble
  <2>6. \A p \in Request : req'[p] = IF p = r THEN q ELSE req[p]
    BY <2>2 DEF TypeOK
  <2>7. /\ req' \in [Request -> [pc : {"idle", "submit", "create"}, ls : SUBSET Listen,
                        want : SUBSET Listen, left : SUBSET Listen, ok : BOOLEAN]]
        /\ \A p \in Request :
              req'[p].left \subseteq req'[p].want /\ req'[p].want \subseteq req'[p].ls
    BY <2>2, <2>4, <2>6 DEF TypeOK
  <2> QED BY <2>1, <2>5, <2>7 DEF TypeOK
<1>2. ASSUME NEW r \in Request, SubmitRefused(r) PROVE TypeInv'
  BY <1>2 DEF SubmitRefused, TypeOK
<1>3. ASSUME NEW r \in Request, SubmitSlice(r) PROVE TypeInv'
  <2>1. PICK s \in NextSlices(req[r].left, Cardinality(req[r].want)), ok \in BOOLEAN :
          /\ Answers(s, ok)
          /\ req' = [req EXCEPT ![r].left = @ \ s, ![r].ok = ok /\ req[r].left = s,
                                ![r].pc = IF ok /\ req[r].left # s THEN "submit" ELSE "create"]
    BY <1>3 DEF SubmitSlice
  <2>2. s \in SUBSET Listen
    BY DEF NextSlices, TypeOK
  <2>3. lb' \in [Listen -> 0 .. 2] /\ mishaps' \in 0 .. MaxMishaps
    BY <2>1, <2>2, AnswersFacts DEF TypeOK
  <2> DEFINE q == [req[r] EXCEPT !.left = @ \ s, !.ok = ok /\ req[r].left = s,
                         !.pc = IF ok /\ req[r].left # s THEN "submit" ELSE "create"]
  <2>4. req' = [req EXCEPT ![r] = q]
    BY <2>1 DEF TypeOK
  <2>5. /\ q \in [pc : {"idle", "submit", "create"}, ls : SUBSET Listen,
                  want : SUBSET Listen, left : SUBSET Listen, ok : BOOLEAN]
        /\ q.left \subseteq q.want /\ q.want \subseteq q.ls
    BY ZenonT(30) DEF TypeOK
  <2> HIDE DEF q
  <2> QED BY <1>3, <2>3, <2>4, <2>5 DEF SubmitSlice, TypeOK
<1>4. ASSUME NEW r \in Request, SubmitPanics(r) PROVE TypeInv'
  BY <1>4 DEF SubmitPanics, TypeOK
<1>5. ASSUME NEW r \in Request, CreateScrobbles(r) PROVE TypeInv'
  BY <1>5 DEF CreateScrobbles, CreateMultiple, TypeOK
<1>6. ASSUME NEW r \in Request, ScrobbleFails(r) PROVE TypeInv'
  BY <1>6, MishapCounts DEF ScrobbleFails, TypeOK
<1>7. CASE SyncFind
  BY <1>7 DEF SyncFind, FindUnsubmittedLBScrobbles, NoSync, TypeOK
<1>8. CASE SyncLoad
  <2>1. sync.left = {} /\ sync.user = {} /\ sync.done = {}
    BY <1>8 DEF SyncLoad
  <2>2. {UserOf[l] : l \in sync.found} \subseteq User
    BY DEF TypeOK
  <2>3. RoundShape(sync') /\ sync'.pc = "users"
    BY <1>8, <2>1, <2>2 DEF SyncLoad, RoundShape, TypeOK
  <2> QED BY <1>8, <2>3 DEF SyncLoad, RoundShape, TypeOK
<1>9. ASSUME NEW u \in User, SyncUser(u) PROVE TypeInv'
  <2> DEFINE mine == sync.found \cap OfUser(u)
  <2>1. \/ sync' = NoSync
        \/ sync' = [sync EXCEPT !.todo = @ \ {u}]
        \/ sync' = [sync EXCEPT !.todo = @ \ {u}, !.done = @ \cup {u}]
        \/ sync' = [sync EXCEPT !.pc = "submit", !.todo = @ \ {u}, !.user = {u},
                                !.left = mine]
    BY <1>9 DEF SyncUser
  <2>2. mine \subseteq sync.found /\ RoundShape(sync) /\ sync.pc = "users"
    BY <1>9 DEF SyncUser, RoundShape, TypeOK
  <2> HIDE DEF mine
  <2>3. RoundShape(sync') /\ sync'.pc # "load"
    <3>1. CASE sync' = NoSync
      BY <3>1 DEF RoundShape
    <3>2. CASE sync' = [sync EXCEPT !.todo = @ \ {u}]
      BY <2>2, <3>2 DEF RoundShape
    <3>3. CASE sync' = [sync EXCEPT !.todo = @ \ {u}, !.done = @ \cup {u}]
      BY <2>2, <3>3 DEF RoundShape
    <3>4. CASE sync' = [sync EXCEPT !.pc = "submit", !.todo = @ \ {u}, !.user = {u},
                                    !.left = mine]
      BY <2>2, <3>4 DEF RoundShape
    <3> QED BY <2>1, <3>1, <3>2, <3>3, <3>4
  <2> QED BY <1>9, <2>3 DEF SyncUser, RoundShape, TypeOK
<1>10. CASE SyncSlice
  <2>1. PICK s \in NextSlices(sync.left, SyncTotal), ok \in BOOLEAN :
          /\ Answers(s, ok)
          /\ sync' = CASE ~ok -> NoSync
                       [] ok /\ sync.left # s -> [sync EXCEPT !.left = @ \ s]
                       [] OTHER -> [sync EXCEPT !.pc = "users", !.left = {},
                                                !.user = {}, !.done = @ \cup sync.user]
    BY <1>10 DEF SyncSlice
  <2>2. s \in SUBSET Listen
    BY DEF NextSlices, TypeOK
  <2>3. lb' \in [Listen -> 0 .. 2] /\ mishaps' \in 0 .. MaxMishaps
    BY <2>1, <2>2, AnswersFacts DEF TypeOK
  <2>4. \/ sync' = NoSync
        \/ sync' = [sync EXCEPT !.left = @ \ s]
        \/ sync' = [sync EXCEPT !.pc = "users", !.left = {},
                                !.user = {}, !.done = @ \cup sync.user]
    BY <2>1
  <2>5. RoundShape(sync) /\ sync.pc = "submit"
    BY <1>10 DEF SyncSlice, RoundShape, TypeOK
  <2>6. RoundShape(sync') /\ sync'.pc # "load"
    <3>1. CASE sync' = NoSync
      BY <3>1 DEF RoundShape
    <3>2. CASE sync' = [sync EXCEPT !.left = @ \ s]
      BY <2>5, <3>2 DEF RoundShape
    <3>3. CASE sync' = [sync EXCEPT !.pc = "users", !.left = {},
                                    !.user = {}, !.done = @ \cup sync.user]
      BY <2>5, <3>3 DEF RoundShape
    <3> QED BY <2>4, <3>1, <3>2, <3>3
  <2> QED BY <1>10, <2>3, <2>6 DEF SyncSlice, RoundShape, TypeOK
<1>11. CASE SyncPanics
  BY <1>11 DEF SyncPanics, Restarts, TypeOK
<1>12. CASE SyncMark
  BY <1>12 DEF SyncMark, SetLBSubmittedByUsers, TypeOK
<1>13. ASSUME NEW u \in User, SetConnection(u) PROVE TypeInv'
  BY <1>13, MishapCounts DEF SetConnection, TypeOK
<1>14. ASSUME NEW l \in Listen, NowPlaying(l) PROVE TypeInv'
  BY <1>14 DEF NowPlaying, TypeOK
<1>15. ASSUME NEW l \in Listen, SongMoves(l) PROVE TypeInv'
  BY <1>15, MishapCounts DEF SongMoves, TypeOK
<1>16. CASE Exit
  BY <1>16, MishapCounts DEF Exit, Restarts, TypeOK
<1>17. CASE UNCHANGED vars
  BY <1>17 DEF vars, TypeOK
<1> QED
  BY <1>1, <1>2, <1>3, <1>4, <1>5, <1>6, <1>7, <1>8, <1>9, <1>10, <1>11, <1>12, <1>13,
     <1>14, <1>15, <1>16, <1>17 DEF Next, SyncStep

-----------------------------------------------------------------------------
(* What was sent *)

\* Nothing that has arrived is taken back: a step that leaves the request, the round and
\* the table alone, or ends them, keeps what is known of them.
LEMMA SentStep ==
    ASSUME SentInv, [Next]_vars
    PROVE  RequestSent' /\ RoundSent' /\ SentMeansReceived'
<1> USE ScrobblesAssumption, IdleShapes DEF SentInv, TypeInv
<1>1. ASSUME NEW r \in Request, NEW u \in User, NEW ls \in Submissions, Scrobble(r, u, ls)
      PROVE  RequestSent' /\ RoundSent' /\ SentMeansReceived'
  <2> DEFINE new == {l \in ls : row[l] = "none"}
             want == IF con[u] = "on" THEN {l \in new : ShouldSubmit(l)} ELSE {}
             q == [NoRequest EXCEPT !.pc = IF want = {} THEN "create" ELSE "submit",
                                    !.ls = new, !.want = want, !.left = want]
  <2>0. req' = [req EXCEPT ![r] = q]
    BY <1>1 DEF Scrobble
  <2>1. q.left = q.want /\ q.ok = FALSE
    BY DEF NoRequest
  <2> HIDE DEF q
  <2>2. RequestSent'
    BY <1>1, <2>0, <2>1 DEF Scrobble, RequestSent, TypeOK
  <2> QED BY <1>1, <2>2 DEF Scrobble, RoundSent, SentMeansReceived
<1>2. ASSUME NEW r \in Request, SubmitRefused(r)
      PROVE  RequestSent' /\ RoundSent' /\ SentMeansReceived'
  BY <1>2 DEF SubmitRefused, RequestSent, RoundSent, SentMeansReceived, TypeOK
<1>3. ASSUME NEW r \in Request, SubmitSlice(r)
      PROVE  RequestSent' /\ RoundSent' /\ SentMeansReceived'
  <2>1. PICK s \in NextSlices(req[r].left, Cardinality(req[r].want)), ok \in BOOLEAN :
          /\ Answers(s, ok)
          /\ req' = [req EXCEPT ![r].left = @ \ s, ![r].ok = ok /\ req[r].left = s,
                                ![r].pc = IF ok /\ req[r].left # s THEN "submit" ELSE "create"]
    BY <1>3 DEF SubmitSlice
  <2>2. s \in SUBSET Listen
    BY DEF NextSlices, TypeOK
  <2>3. /\ \A l \in Listen : lb[l] # 0 => lb'[l] # 0
        /\ ok => \A l \in s : lb'[l] # 0
    BY <2>1, <2>2, AnswersFacts DEF TypeOK
  <2>4. /\ req'[r].want = req[r].want
        /\ req'[r].left = req[r].left \ s
        /\ req'[r].ok = (ok /\ req[r].left = s)
        /\ req'[r].pc = IF ok /\ req[r].left # s THEN "submit" ELSE "create"
        /\ \A p \in Request \ {r} : req'[p] = req[p]
    BY <2>1 DEF TypeOK
  <2>5. \A l \in req[r].want \ req[r].left : lb[l] # 0
    BY <1>3 DEF SubmitSlice, RequestSent
  <2>6. RequestSent'
    <3>1. \A p \in Request : req[p].want \subseteq Listen
      BY DEF TypeOK
    <3>2. ok => \A l \in req[r].want \ (req[r].left \ s) : lb'[l] # 0
      BY <2>3, <2>5, <3>1
    <3>3. req'[r].pc = "submit" => ok
      BY <2>4
    <3>4. req'[r].ok => ok /\ req[r].left \ s = {}
      BY <2>4
    <3>5. \A p \in Request \ {r} :
             /\ req[p].pc = "submit" => \A l \in req[p].want \ req[p].left : lb'[l] # 0
             /\ req[p].ok => \A l \in req[p].want : lb'[l] # 0
      BY <2>3, <3>1 DEF RequestSent
    <3> QED BY <2>4, <3>2, <3>3, <3>4, <3>5 DEF RequestSent
  <2>7. RoundSent' /\ SentMeansReceived'
    BY <1>3, <2>3 DEF SubmitSlice, RoundSent, SentMeansReceived, TypeOK
  <2> QED BY <2>6, <2>7
<1>4. ASSUME NEW r \in Request, SubmitPanics(r) \/ ScrobbleFails(r)
      PROVE  RequestSent' /\ RoundSent' /\ SentMeansReceived'
  BY <1>4 DEF SubmitPanics, ScrobbleFails, RequestSent, RoundSent, SentMeansReceived, TypeOK
<1>5. ASSUME NEW r \in Request, CreateScrobbles(r)
      PROVE  RequestSent' /\ RoundSent' /\ SentMeansReceived'
  <2>1. \A l \in Listen : row'[l] = "sent" =>
            row[l] = "sent" \/ (req[r].ok /\ l \in req[r].want)
    BY <1>5 DEF CreateScrobbles, CreateMultiple
  <2>2. SentMeansReceived'
    BY <1>5, <2>1 DEF CreateScrobbles, RequestSent, SentMeansReceived
  <2> QED BY <1>5, <2>2 DEF CreateScrobbles, RequestSent, RoundSent, TypeOK
<1>6. CASE SyncFind
  BY <1>6 DEF SyncFind, NoSync, RequestSent, RoundSent, SentMeansReceived, TypeOK
<1>7. CASE SyncLoad
  BY <1>7 DEF SyncLoad, RequestSent, RoundSent, SentMeansReceived, TypeOK
<1>8. ASSUME NEW u \in User, SyncUser(u)
      PROVE  RequestSent' /\ RoundSent' /\ SentMeansReceived'
  <2> DEFINE mine == sync.found \cap OfUser(u)
  <2>1. \/ sync' = NoSync
        \/ sync' = [sync EXCEPT !.todo = @ \ {u}]
        \/ mine = {} /\ sync' = [sync EXCEPT !.todo = @ \ {u}, !.done = @ \cup {u}]
        \/ sync' = [sync EXCEPT !.pc = "submit", !.todo = @ \ {u}, !.user = {u},
                                !.left = mine]
    BY <1>8 DEF SyncUser
  <2>2. \A l \in sync.found : UserOf[l] = u => l \in mine
    BY DEF OfUser, TypeOK
  <2>3. RoundSent'
    <3> HIDE DEF mine
    <3>0. RoundShape(sync) /\ lb' = lb /\ sync.pc = "users"
      BY <1>8 DEF SyncUser, RoundShape, TypeOK
    <3>1. CASE sync' = NoSync
      BY <3>1 DEF RoundSent
    <3>2. CASE sync' = [sync EXCEPT !.todo = @ \ {u}]
      BY <3>0, <3>2 DEF RoundSent, RoundShape
    <3>3. CASE mine = {} /\ sync' = [sync EXCEPT !.todo = @ \ {u}, !.done = @ \cup {u}]
      BY <3>0, <2>2, <3>3 DEF RoundSent, RoundShape
    <3>4. CASE sync' = [sync EXCEPT !.pc = "submit", !.todo = @ \ {u}, !.user = {u},
                                    !.left = mine]
      BY <3>0, <2>2, <3>4 DEF RoundSent, RoundShape
    <3> QED BY <2>1, <3>1, <3>2, <3>3, <3>4
  <2> QED BY <1>8, <2>3 DEF SyncUser, RequestSent, SentMeansReceived
<1>9. CASE SyncSlice
  <2>1. PICK s \in NextSlices(sync.left, SyncTotal), ok \in BOOLEAN :
          /\ Answers(s, ok)
          /\ sync' = CASE ~ok -> NoSync
                       [] ok /\ sync.left # s -> [sync EXCEPT !.left = @ \ s]
                       [] OTHER -> [sync EXCEPT !.pc = "users", !.left = {},
                                                !.user = {}, !.done = @ \cup sync.user]
    BY <1>9 DEF SyncSlice
  <2>2. s \in SUBSET Listen
    BY DEF NextSlices, TypeOK
  <2>3. /\ \A l \in Listen : lb[l] # 0 => lb'[l] # 0
        /\ ok => \A l \in s : lb'[l] # 0
    BY <2>1, <2>2, AnswersFacts DEF TypeOK
  <2>4. \/ sync' = NoSync
        \/ ok /\ sync' = [sync EXCEPT !.left = @ \ s]
        \/ /\ ok /\ sync.left = s
           /\ sync' = [sync EXCEPT !.pc = "users", !.left = {},
                                   !.user = {}, !.done = @ \cup sync.user]
    BY <2>1
  <2>5. \A l \in sync.found : UserOf[l] \in sync.user /\ l \notin sync.left => lb'[l] # 0
    BY <1>9, <2>3 DEF SyncSlice, RoundSent, TypeOK
  <2>6. \A l \in sync.found : UserOf[l] \in sync.done => lb'[l] # 0
    BY <2>3 DEF RoundSent, TypeOK
  <2>7. RoundSent'
    <3>0. RoundShape(sync) /\ sync.pc = "submit"
      BY <1>9 DEF SyncSlice, RoundShape, TypeOK
    <3>1. CASE sync' = NoSync
      BY <3>1 DEF RoundSent
    <3>2. CASE ok /\ sync' = [sync EXCEPT !.left = @ \ s]
      BY <2>3, <2>5, <2>6, <3>0, <3>2 DEF RoundSent, RoundShape
    <3>3. CASE /\ ok /\ sync.left = s
               /\ sync' = [sync EXCEPT !.pc = "users", !.left = {},
                                       !.user = {}, !.done = @ \cup sync.user]
      BY <2>3, <2>5, <2>6, <3>0, <3>3 DEF RoundSent, RoundShape
    <3> QED BY <2>4, <3>1, <3>2, <3>3
  <2> QED BY <1>9, <2>3, <2>7 DEF SyncSlice, RequestSent, SentMeansReceived, TypeOK
<1>10. CASE SyncPanics \/ Exit
  BY <1>10 DEF SyncPanics, Exit, Restarts, RequestSent, RoundSent, SentMeansReceived, TypeOK
<1>11. CASE SyncMark
  <2>1. \A l \in Listen : /\ row'[l] = "sent" =>
                               row[l] = "sent" \/ (row[l] = "open" /\ UserOf[l] \in sync.done)
                          /\ row'[l] # row[l] /\ l \notin sync.found => l \in swept'
                          /\ l \in swept => l \in swept'
    BY <1>11 DEF SyncMark, SetLBSubmittedByUsers
  <2>2. SentMeansReceived'
    BY <1>11, <2>1 DEF SyncMark, RoundSent, SentMeansReceived, TypeOK
  <2> QED BY <1>11, <2>2 DEF SyncMark, RequestSent, RoundSent
<1>12. ASSUME NEW u \in User, SetConnection(u)
      PROVE  RequestSent' /\ RoundSent' /\ SentMeansReceived'
  BY <1>12 DEF SetConnection, RequestSent, RoundSent, SentMeansReceived
<1>13. ASSUME NEW l \in Listen, NowPlaying(l) \/ SongMoves(l)
      PROVE  RequestSent' /\ RoundSent' /\ SentMeansReceived'
  BY <1>13 DEF NowPlaying, SongMoves, RequestSent, RoundSent, SentMeansReceived
<1>14. CASE UNCHANGED vars
  BY <1>14 DEF vars, RequestSent, RoundSent, SentMeansReceived
<1> QED
  BY <1>1, <1>2, <1>3, <1>4, <1>5, <1>6, <1>7, <1>8, <1>9, <1>10, <1>11, <1>12, <1>13,
     <1>14 DEF Next, SyncStep

-----------------------------------------------------------------------------
(* Theorems *)

\* At the start nothing is under way and nothing is stored.
LEMMA TypeInit ==
    ASSUME Init PROVE TypeInv
<1>1. sync = NoSync /\ RoundShape(sync)
  BY IdleShapes DEF Init, RoundShape
<1>2. /\ con \in [User -> {"off", "on", "muted"}]
      /\ row \in [Listen -> {"none", "open", "sent"}]
      /\ lb \in [Listen -> 0 .. 2]
      /\ mishaps \in 0 .. MaxMishaps
  BY ScrobblesAssumption DEF Init
<1>3. \A r \in Request : req[r] = NoRequest
  BY DEF Init
<1>4. req \in [Request -> [pc : {"idle", "submit", "create"}, ls : SUBSET Listen,
                           want : SUBSET Listen, left : SUBSET Listen, ok : BOOLEAN]]
  BY IdleShapes DEF Init
<1>5. \A r \in Request : req[r].left \subseteq req[r].want /\ req[r].want \subseteq req[r].ls
  BY <1>3, IdleShapes
<1>6. TypeOK
  BY <1>1, <1>2, <1>4, <1>5 DEF Init, TypeOK, RoundShape
<1> QED BY <1>1, <1>6, IdleShapes DEF TypeInv, RoundStarts

\* Every state of the requests, the round and the tables is well formed: what is left to
\* submit was to be submitted, and a round is through with a user once.
THEOREM ScrobblesTypeCorrect == Spec => []TypeOK
<1>1. TypeInv => TypeOK
  BY DEF TypeInv
<1> QED BY <1>1, TypeInit, TypeStep, PTL DEF Spec

\* The inductive invariant: what a request and a round have taken out of their lists has
\* arrived at ListenBrainz.
THEOREM SentInvInvariant == Spec => []SentInv
<1>1. ASSUME Init PROVE SentInv
  <2>1. RequestSent /\ RoundSent
    BY <1>1, IdleShapes DEF Init, RequestSent, RoundSent
  <2>2. SentMeansReceived
    BY <1>1 DEF Init, SentMeansReceived
  <2> QED BY <1>1, <2>1, <2>2, TypeInit DEF SentInv
<1>2. ASSUME SentInv, [Next]_vars PROVE SentInv'
  BY <1>2, TypeStep, SentStep DEF SentInv
<1> QED BY <1>1, <1>2, PTL DEF Spec

\* A scrobble stored or marked as submitted has been received by ListenBrainz, unless a
\* round marked it that had not read it: neither a lost answer, an exit, a panic nor a
\* change of the connection between two requests makes another exception.
THEOREM SentMeansReceivedInvariant == Spec => []SentMeansReceived
<1>1. SentInv => SentMeansReceived
  BY DEF SentInv
<1> QED BY <1>1, SentInvInvariant, PTL

-----------------------------------------------------------------------------
(* Nothing is submitted twice *)

\* Nobody gave up, failed, exited or changed a connection, and no list was unsliceable.
Smooth == mishaps = 0 /\ ~panicked

\* Request r has submitted l and will store it as submitted, or is still submitting.
SentBy(r, l) ==
    /\ l \in req[r].want
    /\ \/ req[r].pc = "submit" /\ l \notin req[r].left
       \/ req[r].pc = "create" /\ req[r].ok

\* The round has submitted l and will mark it.
SentByRound(l) ==
    /\ l \in sync.found
    /\ \/ UserOf[l] \in sync.done
       \/ sync.pc = "submit" /\ UserOf[l] \in sync.user /\ l \notin sync.left

\* Requests have their listens for themselves, and none of them is stored.
OwnListens ==
    /\ \A r, p \in Request : r # p => req[r].ls \cap req[p].ls = {}
    /\ \A r \in Request : \A l \in req[r].ls : row[l] = "none"

\* A round works on stored listens of connected users, one user at a time.
RoundListens ==
    /\ songs = Listen
    /\ sync.pc = "idle" => sync.found = {}
    /\ \A l \in sync.found : row[l] = "open" /\ LongEnough(l) /\ con[UserOf[l]] = "on"
    /\ \A u \in sync.todo : con[u] = "on"
    /\ sync.pc = "submit" => /\ \A l \in sync.left : UserOf[l] \in sync.user
                             /\ sync.user \cap sync.done = {}

\* What has arrived was sent by exactly one of them, who will make a note of it.
NotedOnce ==
    \A l \in Listen :
        /\ lb[l] <= 1
        /\ row[l] = "none" /\ lb[l] # 0 => \E r \in Request : SentBy(r, l)
        /\ row[l] = "open" /\ lb[l] # 0 => SentByRound(l)

OnceInv == Smooth => OwnListens /\ RoundListens /\ NotedOnce


\* Without a mishap an answer is an acknowledgement, and exactly the listens of s arrive.
LEMMA SmoothAnswer ==
    ASSUME lb \in [Listen -> 0 .. 2], mishaps \in Nat, mishaps' = 0,
           NEW s \in SUBSET Listen, NEW ok \in BOOLEAN, Answers(s, ok),
           \A l \in s : lb[l] = 0
    PROVE  /\ ok
           /\ mishaps = 0
           /\ \A l \in s : lb'[l] = 1
           /\ \A l \in Listen \ s : lb'[l] = lb[l]
<1>1. ok /\ Receives(s) /\ mishaps = 0
  BY DEF Answers, Mishap
<1>2. lb' = [l \in Listen |-> IF l \in s THEN Min2(lb[l] + 1, 2) ELSE lb[l]]
  BY <1>1 DEF Receives
<1>3. \A l \in s : Min2(lb[l] + 1, 2) = 1
  BY DEF Min2
<1> QED BY <1>1, <1>2, <1>3

\* Every step keeps OnceInv, whichever request or round takes it.
LEMMA OnceStep ==
    ASSUME TypeInv, OnceInv, [Next]_vars PROVE OnceInv'
<1> SUFFICES ASSUME Smooth' PROVE OwnListens' /\ RoundListens' /\ NotedOnce'
  BY DEF OnceInv
<1> USE ScrobblesAssumption, IdleShapes DEF TypeInv
<1>0. mishaps \in Nat /\ mishaps' = 0 /\ ~panicked'
  BY DEF TypeOK, Smooth
<1>1. ASSUME NEW r \in Request, NEW u \in User, NEW ls \in Submissions, Scrobble(r, u, ls)
      PROVE  OwnListens' /\ RoundListens' /\ NotedOnce'
  <2> DEFINE new == {l \in ls : row[l] = "none"}
             want == IF con[u] = "on" THEN {l \in new : ShouldSubmit(l)} ELSE {}
             q == [NoRequest EXCEPT !.pc = IF want = {} THEN "create" ELSE "submit",
                                    !.ls = new, !.want = want, !.left = want]
  <2>1. Smooth /\ ~Repeats(ls)
    BY <1>0, <1>1 DEF Scrobble, Smooth, Mishap
  <2>2. req[r].pc = "idle" /\ req' = [req EXCEPT ![r] = q]
    BY <1>1 DEF Scrobble
  <2>3. UNCHANGED <<con, songs, row, lb, sync>>
    BY <1>1 DEF Scrobble
  <2>4. OwnListens /\ RoundListens /\ NotedOnce
    BY <2>1 DEF OnceInv
  <2>5. q.ls = new
    BY DEF NoRequest
  <2>6. new \subseteq ls /\ \A l \in new : row[l] = "none"
    OBVIOUS
  <2> HIDE DEF q, new
  <2>7. \A p \in Request : req'[p] = IF p = r THEN q ELSE req[p]
    BY <2>2 DEF TypeOK
  <2>8. OwnListens'
    BY <2>1, <2>3, <2>4, <2>5, <2>6, <2>7 DEF OwnListens, Repeats
  <2>9. RoundListens'
    BY <2>3, <2>4 DEF RoundListens
  <2>10. \A p \in Request, l \in Listen : SentBy(p, l) => SentBy(p, l)'
    BY <2>2, <2>7 DEF SentBy
  <2>11. \A l \in Listen : SentByRound(l) => SentByRound(l)'
    BY <2>3 DEF SentByRound
  <2>12. NotedOnce'
    BY <2>3, <2>4, <2>10, <2>11 DEF NotedOnce
  <2> QED BY <2>8, <2>9, <2>12
<1>2. ASSUME NEW r \in Request, SubmitRefused(r)
      PROVE  OwnListens' /\ RoundListens' /\ NotedOnce'
  <2>1. UNCHANGED <<con, songs, row, lb, sync, mishaps, panicked>>
    BY <1>2 DEF SubmitRefused
  <2>2. OwnListens /\ RoundListens /\ NotedOnce
    BY <1>0, <2>1 DEF OnceInv, Smooth
  <2>3. /\ req[r].pc = "submit" /\ req[r].left = req[r].want
        /\ req'[r].ls = req[r].ls
        /\ \A p \in Request \ {r} : req'[p] = req[p]
    BY <1>2 DEF SubmitRefused, TypeOK
  <2>4. OwnListens'
    BY <2>1, <2>2, <2>3 DEF OwnListens
  <2>5. RoundListens'
    BY <2>1, <2>2 DEF RoundListens
  <2>6. \A p \in Request, l \in Listen : SentBy(p, l) => SentBy(p, l)'
    BY <2>3 DEF SentBy
  <2>7. \A l \in Listen : SentByRound(l) => SentByRound(l)'
    BY <2>1 DEF SentByRound
  <2>8. NotedOnce'
    BY <2>1, <2>2, <2>6, <2>7 DEF NotedOnce
  <2> QED BY <2>4, <2>5, <2>8
<1>3. ASSUME NEW r \in Request, SubmitSlice(r)
      PROVE  OwnListens' /\ RoundListens' /\ NotedOnce'
  <2>1. PICK s \in NextSlices(req[r].left, Cardinality(req[r].want)), ok \in BOOLEAN :
          /\ Answers(s, ok)
          /\ req' = [req EXCEPT ![r].left = @ \ s, ![r].ok = ok /\ req[r].left = s,
                                ![r].pc = IF ok /\ req[r].left # s THEN "submit" ELSE "create"]
    BY <1>3 DEF SubmitSlice
  <2>2. /\ UNCHANGED <<con, songs, row, sync, panicked>>
        /\ req[r].pc = "submit"
    BY <1>3 DEF SubmitSlice
  <2>3. mishaps = 0
    BY <1>0, <2>1 DEF Answers, Mishap
  <2>4. OwnListens /\ RoundListens /\ NotedOnce
    BY <1>0, <2>2, <2>3 DEF OnceInv, Smooth
  <2>5. /\ s \subseteq req[r].left /\ req[r].left \subseteq req[r].want
        /\ req[r].want \subseteq req[r].ls /\ req[r].ls \subseteq Listen
    BY DEF NextSlices, TypeOK
  <2>6. \A l \in s : row[l] = "none" /\ lb[l] = 0
    <3> SUFFICES ASSUME NEW l \in s, lb[l] # 0 PROVE FALSE
      BY <2>4, <2>5 DEF OwnListens
    <3>1. l \in Listen /\ l \in req[r].left /\ l \in req[r].ls /\ row[l] = "none"
      BY <2>4, <2>5 DEF OwnListens
    <3>2. PICK p \in Request : SentBy(p, l)
      BY <2>4, <3>1 DEF NotedOnce
    <3>3. l \in req[p].ls
      BY <3>2 DEF SentBy, TypeOK
    <3>4. p = r
      BY <2>4, <3>1, <3>3 DEF OwnListens
    <3> QED BY <2>2, <3>1, <3>2, <3>4 DEF SentBy
  <2>7. /\ ok
        /\ \A l \in s : lb'[l] = 1
        /\ \A l \in Listen \ s : lb'[l] = lb[l]
    <3>1. lb \in [Listen -> 0 .. 2] /\ mishaps \in Nat
      BY DEF TypeOK
    <3>2. s \in SUBSET Listen /\ \A l \in s : lb[l] = 0
      BY <2>5, <2>6
    <3> QED BY <1>0, <2>1, <3>1, <3>2, SmoothAnswer
  <2>8. /\ req'[r].ls = req[r].ls
        /\ req'[r].want = req[r].want
        /\ req'[r].left = req[r].left \ s
        /\ req'[r].ok = (req[r].left = s)
        /\ req'[r].pc = IF req[r].left # s THEN "submit" ELSE "create"
        /\ \A p \in Request \ {r} : req'[p] = req[p]
    BY <2>1, <2>7 DEF TypeOK
  <2>9. OwnListens'
    BY <2>2, <2>4, <2>8 DEF OwnListens
  <2>10. RoundListens'
    BY <2>2, <2>4 DEF RoundListens
  <2>11. \A l \in Listen : SentBy(r, l) \/ l \in s => SentBy(r, l)'
    BY <2>2, <2>5, <2>8 DEF SentBy
  <2>12. \A p \in Request \ {r}, l \in Listen : SentBy(p, l) => SentBy(p, l)'
    BY <2>8 DEF SentBy
  <2>13. \A l \in Listen : SentByRound(l) => SentByRound(l)'
    BY <2>2 DEF SentByRound
  <2>14. NotedOnce'
    <3> SUFFICES ASSUME NEW l \in Listen
                 PROVE  /\ lb'[l] <= 1
                        /\ row[l] = "none" /\ lb'[l] # 0 =>
                              \E p \in Request : SentBy(p, l)'
                        /\ row[l] = "open" /\ lb'[l] # 0 => SentByRound(l)'
      BY <2>2 DEF NotedOnce
    <3>1. CASE l \in s
      BY <2>6, <2>7, <2>11, <3>1
    <3>2. CASE l \notin s
      BY <2>4, <2>7, <2>11, <2>12, <2>13, <3>2 DEF NotedOnce
    <3> QED BY <3>1, <3>2
  <2> QED BY <2>9, <2>10, <2>14
<1>4. ASSUME NEW r \in Request, SubmitPanics(r) \/ ScrobbleFails(r) PROVE FALSE
  BY <1>0, <1>4 DEF SubmitPanics, ScrobbleFails, Mishap
<1>5. ASSUME NEW r \in Request, CreateScrobbles(r)
      PROVE  OwnListens' /\ RoundListens' /\ NotedOnce'
  <2>1. /\ UNCHANGED <<con, songs, lb, sync, mishaps, panicked>>
        /\ req[r].pc = "create"
    BY <1>5 DEF CreateScrobbles
  <2>2. OwnListens /\ RoundListens /\ NotedOnce
    BY <1>0, <2>1 DEF OnceInv, Smooth
  <2>3. /\ req'[r] = NoRequest
        /\ \A p \in Request \ {r} : req'[p] = req[p]
    BY <1>5 DEF CreateScrobbles, TypeOK
  <2>4. \A l \in Listen :
          row'[l] = IF l \in req[r].ls /\ row[l] = "none"
                    THEN IF l \in req[r].want /\ req[r].ok THEN "sent" ELSE "open"
                    ELSE row[l]
    BY <1>5 DEF CreateScrobbles, CreateMultiple
  <2>5. \A p \in Request : req[p].ls \subseteq Listen /\ req[p].want \subseteq req[p].ls
    BY DEF TypeOK
  <2>6. OwnListens'
    BY <2>2, <2>3, <2>4, <2>5 DEF OwnListens
  <2>7. RoundListens'
    BY <2>1, <2>2, <2>4 DEF RoundListens, TypeOK
  <2>8. \A l \in Listen : row[l] = "none" /\ lb[l] # 0 /\ l \in req[r].ls =>
            l \in req[r].want /\ req[r].ok
    <3> SUFFICES ASSUME NEW l \in Listen, row[l] = "none", lb[l] # 0, l \in req[r].ls
                 PROVE  l \in req[r].want /\ req[r].ok
      OBVIOUS
    <3>1. PICK p \in Request : SentBy(p, l)
      BY <2>2 DEF NotedOnce
    <3>2. p = r
      BY <2>2, <2>5, <3>1 DEF OwnListens, SentBy
    <3> QED BY <2>1, <3>1, <3>2 DEF SentBy
  <2>9. \A p \in Request \ {r}, l \in Listen : SentBy(p, l) => SentBy(p, l)'
    BY <2>3 DEF SentBy
  <2>10. \A l \in Listen : SentByRound(l) => SentByRound(l)'
    BY <2>1 DEF SentByRound
  <2>11. NotedOnce'
    <3> SUFFICES ASSUME NEW l \in Listen
                 PROVE  /\ lb[l] <= 1
                        /\ row'[l] = "none" /\ lb[l] # 0 =>
                              \E p \in Request : SentBy(p, l)'
                        /\ row'[l] = "open" /\ lb[l] # 0 => SentByRound(l)'
      BY <2>1 DEF NotedOnce
    <3>1. CASE row[l] = "none" /\ l \in req[r].ls
      BY <2>2, <2>4, <2>8, <3>1 DEF NotedOnce
    <3>2. CASE row[l] = "none" /\ l \notin req[r].ls
      <4>1. row'[l] = "none"
        BY <2>4, <3>2
      <4>2. ~SentBy(r, l)
        BY <2>5, <3>2 DEF SentBy
      <4> QED BY <2>2, <2>9, <3>2, <4>1, <4>2 DEF NotedOnce
    <3>3. CASE row[l] # "none"
      BY <2>2, <2>4, <2>10, <3>3 DEF NotedOnce
    <3> QED BY <3>1, <3>2, <3>3
  <2> QED BY <2>6, <2>7, <2>11
<1>6. ASSUME SyncFind \/ SyncLoad \/ \E u \in User : SyncUser(u)
      PROVE  OwnListens' /\ RoundListens' /\ NotedOnce'
  <2>1. UNCHANGED <<con, songs, row, lb, req, mishaps, panicked>>
    BY <1>6 DEF SyncFind, SyncLoad, SyncUser
  <2>2. OwnListens /\ RoundListens /\ NotedOnce
    BY <1>0, <2>1 DEF OnceInv, Smooth
  <2>3. OwnListens' /\ \A p \in Request, l \in Listen : SentBy(p, l) => SentBy(p, l)'
    BY <2>1, <2>2 DEF OwnListens, SentBy
  <2>4. ASSUME SyncFind PROVE RoundListens' /\ \A l \in Listen : SentByRound(l) => SentByRound(l)'
    <3>1. /\ sync.pc = "idle"
          /\ sync'.pc = "load" /\ sync'.found = FindUnsubmittedLBScrobbles
          /\ sync'.todo = {} /\ sync'.user = {} /\ sync'.left = {} /\ sync'.done = {}
      BY <2>4 DEF SyncFind, NoSync
    <3>2. RoundListens'
      BY <2>1, <2>2, <3>1 DEF RoundListens, FindUnsubmittedLBScrobbles
    <3>3. \A l \in Listen : ~SentByRound(l)
      BY <2>2, <3>1 DEF RoundListens, SentByRound
    <3> QED BY <3>2, <3>3
  <2>5. ASSUME SyncLoad PROVE RoundListens' /\ \A l \in Listen : SentByRound(l) => SentByRound(l)'
    <3>1. sync.pc = "load" /\ sync' = [sync EXCEPT !.pc = "users", !.found = @ \cap songs,
                                          !.todo = {UserOf[l] : l \in sync.found}]
      BY <2>5 DEF SyncLoad
    <3>2. sync.found \cap songs = sync.found
      BY <2>2 DEF RoundListens, TypeOK
    <3>3. /\ sync'.pc = "users" /\ sync'.found = sync.found
          /\ sync'.todo = {UserOf[l] : l \in sync.found}
          /\ sync'.done = sync.done
      BY <3>1, <3>2 DEF TypeOK
    <3>4. RoundListens'
      BY <2>1, <2>2, <3>3 DEF RoundListens
    <3>5. \A l \in Listen : SentByRound(l) => SentByRound(l)'
      BY <3>1, <3>3 DEF SentByRound
    <3> QED BY <3>4, <3>5
  <2>6. ASSUME NEW u \in User, SyncUser(u)
        PROVE  RoundListens' /\ \A l \in Listen : SentByRound(l) => SentByRound(l)'
    <3> DEFINE mine == sync.found \cap OfUser(u)
    <3>1. sync.pc = "users" /\ u \in sync.todo /\ con[u] = "on"
      BY <2>2, <2>6 DEF SyncUser, RoundListens
    <3>2. \/ mine = {} /\ sync' = [sync EXCEPT !.todo = @ \ {u}, !.done = @ \cup {u}]
          \/ sync' = [sync EXCEPT !.pc = "submit", !.todo = @ \ {u}, !.user = {u},
                                  !.left = mine]
      BY <2>6, <3>1 DEF SyncUser
    <3>3. u \notin sync.done /\ \A l \in mine : UserOf[l] = u
      BY <3>1 DEF OfUser, TypeOK
    <3> HIDE DEF mine
    <3>4. /\ sync'.found = sync.found /\ sync'.todo = sync.todo \ {u}
          /\ \/ sync'.pc = "users" /\ sync'.done = sync.done \cup {u}
             \/ /\ sync'.pc = "submit" /\ sync'.done = sync.done
                /\ sync'.user = {u} /\ sync'.left = mine
      BY <3>1, <3>2, ZenonT(30) DEF TypeOK
    <3>5. RoundListens'
      BY <2>1, <2>2, <3>3, <3>4 DEF RoundListens
    <3>6. \A l \in Listen : SentByRound(l) => SentByRound(l)'
      BY <3>1, <3>4 DEF SentByRound
    <3> QED BY <3>5, <3>6
  <2>7. RoundListens' /\ \A l \in Listen : SentByRound(l) => SentByRound(l)'
    BY <1>6, <2>4, <2>5, <2>6
  <2>8. NotedOnce'
    BY <2>1, <2>2, <2>3, <2>7 DEF NotedOnce
  <2> QED BY <2>3, <2>7, <2>8
<1>7. ASSUME SyncSlice PROVE OwnListens' /\ RoundListens' /\ NotedOnce'
  <2>1. PICK s \in NextSlices(sync.left, SyncTotal), ok \in BOOLEAN :
          /\ Answers(s, ok)
          /\ sync' = CASE ~ok -> NoSync
                       [] ok /\ sync.left # s -> [sync EXCEPT !.left = @ \ s]
                       [] OTHER -> [sync EXCEPT !.pc = "users", !.left = {},
                                                !.user = {}, !.done = @ \cup sync.user]
    BY <1>7 DEF SyncSlice
  <2>2. /\ UNCHANGED <<con, songs, row, req, panicked>>
        /\ sync.pc = "submit"
    BY <1>7 DEF SyncSlice
  <2>3. mishaps = 0
    BY <1>0, <2>1 DEF Answers, Mishap
  <2>4. OwnListens /\ RoundListens /\ NotedOnce
    BY <1>0, <2>2, <2>3 DEF OnceInv, Smooth
  <2>5. s \subseteq sync.left /\ sync.left \subseteq sync.found /\ sync.found \subseteq Listen
    BY DEF NextSlices, TypeOK
  <2>6. \A l \in s : row[l] = "open" /\ lb[l] = 0 /\ UserOf[l] \in sync.user
    <3> SUFFICES ASSUME NEW l \in s
                 PROVE  row[l] = "open" /\ lb[l] = 0 /\ UserOf[l] \in sync.user
      OBVIOUS
    <3>1. l \in Listen /\ l \in sync.left /\ row[l] = "open" /\ UserOf[l] \in sync.user
      BY <2>2, <2>4, <2>5 DEF RoundListens
    <3>2. ~SentByRound(l)
      BY <2>2, <2>4, <3>1 DEF RoundListens, SentByRound
    <3> QED BY <2>4, <3>1, <3>2 DEF NotedOnce
  <2>7. /\ ok
        /\ \A l \in s : lb'[l] = 1
        /\ \A l \in Listen \ s : lb'[l] = lb[l]
    <3>1. lb \in [Listen -> 0 .. 2] /\ mishaps \in Nat
      BY DEF TypeOK
    <3>2. s \in SUBSET Listen /\ \A l \in s : lb[l] = 0
      BY <2>5, <2>6
    <3> QED BY <1>0, <2>1, <3>1, <3>2, SmoothAnswer
  <2>8. \/ sync.left # s /\ sync' = [sync EXCEPT !.left = @ \ s]
        \/ sync.left = s /\ sync' = [sync EXCEPT !.pc = "users", !.left = {},
                                       !.user = {}, !.done = @ \cup sync.user]
    BY <2>1, <2>7
  <2>9. /\ sync'.found = sync.found /\ sync'.todo = sync.todo
        /\ \/ /\ sync'.pc = "submit" /\ sync'.left = sync.left \ s
              /\ sync'.user = sync.user /\ sync'.done = sync.done
           \/ sync'.pc = "users" /\ sync'.done = sync.done \cup sync.user
    BY <2>2, <2>8, ZenonT(30) DEF TypeOK
  <2>10. OwnListens' /\ \A p \in Request, l \in Listen : SentBy(p, l) => SentBy(p, l)'
    BY <2>2, <2>4 DEF OwnListens, SentBy
  <2>11. RoundListens'
    BY <2>2, <2>4, <2>9 DEF RoundListens
  <2>12. \A l \in Listen : SentByRound(l) \/ l \in s => SentByRound(l)'
    BY <2>5, <2>6, <2>9 DEF SentByRound
  <2>13. NotedOnce'
    <3> SUFFICES ASSUME NEW l \in Listen
                 PROVE  /\ lb'[l] <= 1
                        /\ row[l] = "none" /\ lb'[l] # 0 =>
                              \E p \in Request : SentBy(p, l)'
                        /\ row[l] = "open" /\ lb'[l] # 0 => SentByRound(l)'
      BY <2>2 DEF NotedOnce
    <3>1. CASE l \in s
      BY <2>6, <2>7, <2>12, <3>1
    <3>2. CASE l \notin s
      BY <2>4, <2>7, <2>10, <2>12, <3>2 DEF NotedOnce
    <3> QED BY <3>1, <3>2
  <2> QED BY <2>10, <2>11, <2>13
<1>8. ASSUME SyncMark PROVE OwnListens' /\ RoundListens' /\ NotedOnce'
  <2>1. /\ UNCHANGED <<con, songs, lb, req, mishaps, panicked>>
        /\ sync.pc = "users" /\ sync' = NoSync
    BY <1>8 DEF SyncMark
  <2>2. OwnListens /\ RoundListens /\ NotedOnce
    BY <1>0, <2>1 DEF OnceInv, Smooth
  <2>3. \A l \in Listen :
          row'[l] = IF row[l] = "open" /\ UserOf[l] \in sync.done /\ LongEnough(l)
                    THEN "sent" ELSE row[l]
    BY <1>8 DEF SyncMark, SetLBSubmittedByUsers
  <2>4. \A p \in Request : req[p].ls \subseteq Listen
    BY DEF TypeOK
  <2>5. OwnListens'
    BY <2>1, <2>2, <2>3, <2>4 DEF OwnListens
  <2>6. RoundListens'
    BY <2>1, <2>2 DEF RoundListens
  <2>7. \A p \in Request, l \in Listen : SentBy(p, l) => SentBy(p, l)'
    BY <2>1 DEF SentBy
  <2>8. \A l \in Listen : row'[l] = "open" => lb[l] = 0
    BY <2>1, <2>2, <2>3 DEF NotedOnce, SentByRound, RoundListens
  <2>9. NotedOnce'
    BY <2>1, <2>2, <2>3, <2>7, <2>8 DEF NotedOnce
  <2> QED BY <2>5, <2>6, <2>9
<1>9. ASSUME \/ SyncPanics \/ Exit
             \/ \E u \in User : SetConnection(u)
             \/ \E l \in Listen : SongMoves(l)
      PROVE  FALSE
  BY <1>0, <1>9 DEF SyncPanics, Exit, SetConnection, SongMoves, Mishap
<1>10. ASSUME UNCHANGED vars \/ \E l \in Listen : NowPlaying(l)
       PROVE  OwnListens' /\ RoundListens' /\ NotedOnce'
  <2>1. UNCHANGED <<con, songs, row, lb, req, sync, mishaps, panicked>>
    BY <1>10 DEF vars, NowPlaying
  <2>2. OwnListens /\ RoundListens /\ NotedOnce
    BY <1>0, <2>1 DEF OnceInv, Smooth
  <2> QED BY <2>1, <2>2 DEF OwnListens, RoundListens, NotedOnce, SentBy, SentByRound
<1> QED
  BY <1>1, <1>2, <1>3, <1>4, <1>5, <1>6, <1>7, <1>8, <1>9, <1>10 DEF Next, SyncStep

\* Without a mishap, handler and synchronisation never submit the same listen twice, in
\* whatever order requests and rounds run, for any users, listens and size of a slice.
THEOREM ReceivedOnceInvariant == Spec => []ReceivedOnce
<1>1. ASSUME Init PROVE OnceInv
  <2>1. \A r \in Request : req[r] = NoRequest
    BY <1>1 DEF Init
  <2>2. OwnListens /\ RoundListens
    BY <1>1, <2>1, IdleShapes DEF Init, OwnListens, RoundListens
  <2>3. NotedOnce
    BY <1>1 DEF Init, NotedOnce
  <2> QED BY <2>2, <2>3 DEF OnceInv
<1>2. OnceInv => ReceivedOnce
  BY DEF OnceInv, NotedOnce, ReceivedOnce, Smooth
<1> QED BY <1>1, <1>2, TypeInit, TypeStep, OnceStep, PTL DEF Spec

=============================================================================
